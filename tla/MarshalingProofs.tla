-------------------------- MODULE MarshalingProofs --------------------------
(***************************************************************************)
(* Proofs about the generated encoding, for any widths of words and of     *)
(* integers and for any messages and signers.                              *)
(*                                                                         *)
(* In this order: varints; Size and Marshal of every message; types and    *)
(* indices of Unmarshal for arbitrary bytes; signers that were cut; what   *)
(* bytes turn a message into what (Reads), that Marshal writes such bytes, *)
(* and that Unmarshal, call by call, reads them so: the round trip.        *)
(***************************************************************************)
EXTENDS Marshaling, FiniteSetTheorems, SequenceTheorems, TLAPS

-----------------------------------------------------------------------------
(* Induction, and powers of two.                                           *)

LEMMA Induction ==
    ASSUME NEW T, 0 \in T, \A n \in Nat : n \in T => n + 1 \in T
    PROVE  Nat \subseteq T
<1> SUFFICES ASSUME Nat \ T # {} PROVE FALSE
  OBVIOUS
<1> DEFINE B == Nat \ T
           R == OpToRel(<, Nat)
<1>1. PICK n \in B : \A r \in B : ~(<<r, n>> \in R)
  <2>1. IsWellFoundedOn(R, Nat) /\ B \subseteq Nat /\ B # {}
    BY NatLessThanWellFounded, Zenon
  <2> HIDE DEF B, R
  <2> QED
    BY <2>1, WFMin
<1>2. n \in Nat /\ n # 0 /\ n - 1 \in Nat
  OBVIOUS
<1>3. n - 1 \in T
  <2>1. n - 1 \in B => <<n - 1, n>> \in R
    BY <1>2 DEF OpToRel
  <2> QED
    BY <1>1, <1>2, <2>1, Zenon
<1>4. (n - 1) + 1 \in T
  BY <1>2, <1>3
<1> QED
  BY <1>2, <1>4

\* The least number of a set.
LEMMA Least ==
    ASSUME NEW T, T \subseteq Nat, T # {}
    PROVE  \E n \in T : \A r \in T : n <= r
<1> DEFINE R == OpToRel(<, Nat)
<1>1. PICK n \in T : \A r \in T : ~(<<r, n>> \in R)
  <2>1. IsWellFoundedOn(R, Nat)
    BY NatLessThanWellFounded, Zenon
  <2> HIDE DEF R
  <2> QED
    BY <2>1, WFMin
<1>2. \A r \in T : ~(r < n)
  BY <1>1 DEF OpToRel
<1> QED
  BY <1>2

LEMMA PowSubsets ==
    ASSUME NEW n \in Nat
    PROVE  IsFiniteSet(SUBSET (1..n)) /\ Cardinality(SUBSET (1..n)) = 2^n
<1>1. IsFiniteSet(1..n) /\ Cardinality(1..n) = n
  BY FS_Interval
<1> QED
  BY <1>1, FS_SUBSET

LEMMA PowType == ASSUME NEW n \in Nat PROVE 2^n \in Nat /\ 2^n > 0
<1>2. IsFiniteSet(SUBSET (1..n)) /\ Cardinality(SUBSET (1..n)) = 2^n
  BY PowSubsets
<1>3. Cardinality(SUBSET (1..n)) \in Nat /\ Cardinality(SUBSET (1..n)) # 0
  BY <1>2, FS_CardinalityType, FS_EmptySet
<1> QED
  BY <1>2, <1>3

\* A subset of 1..(n+1) has n+1 in it or not.
LEMMA PowNext == ASSUME NEW n \in Nat PROVE 2^(n + 1) = 2 * 2^n
<1> DEFINE S == SUBSET (1..n)
           T == {s \cup {n + 1} : s \in S}
           f == [s \in S |-> s \cup {n + 1}]
<1>1. IsFiniteSet(S) /\ Cardinality(S) = 2^n
  BY PowSubsets
<1>2. Cardinality(SUBSET (1..(n + 1))) = 2^(n + 1)
  <2>1. PICK m \in Nat : m = n + 1
    OBVIOUS
  <2> QED
    BY <2>1, PowSubsets
<1>3. f \in Bijection(S, T)
  <2>1. f \in [S -> T]
    OBVIOUS
  <2>2. \A a, b \in S : f[a] = f[b] => a = b
    <3> SUFFICES ASSUME NEW a \in S, NEW b \in S, f[a] = f[b] PROVE a = b
      OBVIOUS
    <3>1. a \cup {n + 1} = b \cup {n + 1}
      OBVIOUS
    <3>2. n + 1 \notin a /\ n + 1 \notin b
      OBVIOUS
    <3> QED
      BY <3>1, <3>2
  <2>3. \A t \in T : \E s \in S : f[s] = t
    OBVIOUS
  <2> QED
    BY <2>1, <2>2, <2>3 DEF Bijection, Injection, Surjection, IsInjective
<1>4. IsFiniteSet(T) /\ Cardinality(T) = 2^n
  <2>1. ExistsBijection(S, T)
    BY <1>3 DEF ExistsBijection
  <2> QED
    BY <1>1, <2>1, FS_Bijection
<1>5. S \cup T = SUBSET (1..(n + 1))
  <2>1. ASSUME NEW u \in SUBSET (1..(n + 1)) PROVE u \in S \cup T
    <3>1. CASE n + 1 \in u
      <4>1. u \ {n + 1} \in S
        OBVIOUS
      <4>2. u = (u \ {n + 1}) \cup {n + 1}
        BY <3>1
      <4> QED
        BY <4>1, <4>2
    <3>2. CASE n + 1 \notin u
      BY <3>2
    <3> QED
      BY <3>1, <3>2
  <2>2. ASSUME NEW s \in S PROVE s \cup {n + 1} \in SUBSET (1..(n + 1))
    OBVIOUS
  <2>3. S \subseteq SUBSET (1..(n + 1))
    OBVIOUS
  <2>4. T \subseteq SUBSET (1..(n + 1))
    BY <2>2
  <2> HIDE DEF S, T
  <2> QED
    BY <2>1, <2>3, <2>4
<1>6. S \cap T = {}
  OBVIOUS
<1> HIDE DEF S, T
<1>7. Cardinality(S \cup T) = Cardinality(S) + Cardinality(T) - Cardinality(S \cap T)
  BY <1>1, <1>4, FS_Union
<1>8. Cardinality(S \cap T) = 0
  BY <1>6, FS_EmptySet
<1>9. PICK x \in Nat : x = 2^n
  BY PowType
<1>10. Cardinality(S \cup T) = x + x - 0
  BY <1>1, <1>4, <1>7, <1>8, <1>9
<1>11. Cardinality(S \cup T) = 2^(n + 1)
  BY <1>2, <1>5
<1> QED
  BY <1>9, <1>10, <1>11

LEMMA PowZero == 2^0 = 1
OBVIOUS

LEMMA PowMonotone == ASSUME NEW a \in Nat, NEW b \in Nat, a <= b PROVE 2^a <= 2^b
<1> DEFINE T == {n \in Nat : 2^a <= 2^(a + n)}
<1>1. 0 \in T
  BY PowType
<1>2. ASSUME NEW n \in Nat, n \in T PROVE n + 1 \in T
  <2>1. 2^((a + n) + 1) = 2 * 2^(a + n)
    BY PowNext
  <2>2. (a + n) + 1 = a + (n + 1)
    OBVIOUS
  <2> QED
    BY <1>2, <2>1, <2>2, PowType
<1>3. b - a \in T
  <2>1. b - a \in Nat
    OBVIOUS
  <2>2. Nat \subseteq T
    <3> HIDE DEF T
    <3> QED
      BY <1>1, <1>2, Induction
  <2> QED
    BY <2>1, <2>2
<1>4. a + (b - a) = b
  OBVIOUS
<1> QED
  BY <1>3, <1>4

LEMMA PowAbove == ASSUME NEW x \in Nat PROVE x < 2^x
<1> DEFINE T == {n \in Nat : n < 2^n}
<1>1. 0 \in T
  BY PowZero
<1>2. ASSUME NEW n \in Nat, n \in T PROVE n + 1 \in T
  BY <1>2, PowNext, PowType
<1> HIDE DEF T
<1>3. Nat \subseteq T
  BY <1>1, <1>2, Induction
<1> QED
  BY <1>3 DEF T

LEMMA PowSum == ASSUME NEW a \in Nat, NEW b \in Nat PROVE 2^(a + b) = 2^a * 2^b
<1> DEFINE T == {n \in Nat : 2^(a + n) = 2^a * 2^n}
<1>1. 0 \in T
  BY PowZero, PowType
<1>2. ASSUME NEW n \in Nat, n \in T PROVE n + 1 \in T
  <2>1. 2^((a + n) + 1) = 2 * 2^(a + n)
    BY PowNext
  <2>2. (a + n) + 1 = a + (n + 1)
    OBVIOUS
  <2>3. PICK x \in Nat, y \in Nat : x = 2^a /\ y = 2^n
    BY PowType
  <2>4. 2^(a + (n + 1)) = 2 * (x * y) /\ 2^a * 2^(n + 1) = x * (2 * y)
    BY <1>2, <2>1, <2>2, <2>3, PowNext
  <2>5. 2 * (x * y) = x * (2 * y)
    BY ONLY x \in Nat, y \in Nat
  <2> QED
    BY <2>4, <2>5
<1> HIDE DEF T
<1>3. Nat \subseteq T
  BY <1>1, <1>2, Induction
<1> QED
  BY <1>3 DEF T

-----------------------------------------------------------------------------
(* Division.                                                               *)

LEMMA DivisionSum ==
    ASSUME NEW a \in Int, NEW b \in Int, b > 0, NEW q \in Int, q = a \div b, NEW r \in Int, r = a % b
    PROVE  a = b * q + r
OBVIOUS

LEMMA Division ==
    ASSUME NEW a \in Int, NEW b \in Nat, b > 0
    PROVE  \E q, r \in Int : q = a \div b /\ r = a % b /\ 0 <= r /\ r < b /\ a = b * q + r
<1>1. PICK q \in Int, r \in Int : q = a \div b /\ r = a % b
  OBVIOUS
<1>2. b \in Int
  OBVIOUS
<1>3. a = b * q + r
  BY <1>1, <1>2, DivisionSum
<1>4. a % b \in 0..(b - 1)
  OBVIOUS
<1>5. 0 <= r /\ r < b
  BY <1>1, <1>4
<1> QED
  BY <1>1, <1>3, <1>5

LEMMA DivisionUnique ==
    ASSUME NEW q \in Int, NEW r \in Int, NEW b \in Nat, b > 0, 0 <= r, r < b
    PROVE  (b * q + r) \div b = q /\ (b * q + r) % b = r
OBVIOUS

LEMMA ModSmall ==
    ASSUME NEW w \in Nat, NEW W \in Nat, w < W
    PROVE  w % W = w
OBVIOUS

LEMMA ModAdd ==
    ASSUME NEW a \in Int, NEW c \in Int, NEW b \in Nat, b > 0
    PROVE  ((a % b) + c) % b = (a + c) % b
<1>1. PICK q \in Int, r \in Int : a = b * q + r /\ r = a % b
  BY Division
<1>2. PICK p \in Int, t \in Int : r + c = b * p + t /\ 0 <= t /\ t < b /\ t = (r + c) % b
  <2>1. r + c \in Int
    OBVIOUS
  <2> QED
    BY <2>1, Division
<1>3. a + c = b * (q + p) + t
  BY <1>1, <1>2
<1>4. (b * (q + p) + t) % b = t
  BY <1>2, DivisionUnique
<1> QED
  BY <1>1, <1>2, <1>3, <1>4

LEMMA ModMod ==
    ASSUME NEW a \in Int, NEW b \in Nat, NEW c \in Nat, b > 0, c > 0
    PROVE  (a % (b * c)) % b = a % b
<1>1. PICK d \in Nat : d = b * c /\ d > 0
  <2>1. b * c \in Nat /\ b * c > 0
    BY ONLY b \in Nat, c \in Nat, b > 0, c > 0
  <2> QED
    BY <2>1
<1>2. PICK q \in Int, r \in Int : a = d * q + r /\ r = a % d
  BY <1>1, Division
<1>3. PICK p \in Int, t \in Int : r = b * p + t /\ 0 <= t /\ t < b /\ t = r % b
  BY Division
<1>4. a = b * (c * q + p) + t
  <2>1. (b * c) * q = b * (c * q)
    BY ONLY b \in Nat, c \in Nat, q \in Int
  <2>2. PICK u \in Int : u = c * q
    OBVIOUS
  <2>3. a = b * u + (b * p + t)
    BY <1>1, <1>2, <1>3, <2>1, <2>2
  <2>4. b * u + (b * p + t) = b * (u + p) + t
    BY ONLY b \in Nat, u \in Int, p \in Int, t \in Int
  <2> QED
    BY <2>2, <2>3, <2>4
<1>5. (b * (c * q + p) + t) % b = t
  <2>1. PICK u \in Int : u = c * q + p
    OBVIOUS
  <2> QED
    BY <1>3, <2>1, DivisionUnique
<1> QED
  BY <1>1, <1>2, <1>3, <1>4, <1>5

-----------------------------------------------------------------------------
(* The size of a varint.                                                   *)

LEMMA Len64Is ==
    ASSUME NEW x \in Nat
    PROVE  /\ Len64(x) \in Nat \ {0} /\ x < 2^Len64(x)
           /\ Len64(x) = 1 \/ x >= 2^(Len64(x) - 1)
<1> DEFINE T == {n \in Nat : n >= 1 /\ x < 2^n}
<1>1. x + 1 \in T
  BY PowAbove, PowNext, PowType
<1>2. PICK n \in T : \A r \in T : n <= r
  <2> HIDE DEF T
  <2>1. T \subseteq Nat
    BY DEF T
  <2> QED
    BY <1>1, <2>1, Least
<1>3. n \in 1..(x + 1) /\ x < 2^n
  BY <1>1, <1>2
<1>4. n = 1 \/ x >= 2^(n - 1)
  <2>1. CASE n # 1
    <3>1. n - 1 \in Nat /\ n - 1 >= 1 /\ n - 1 \notin T
      BY <1>2, <2>1
    <3> QED
      BY <3>1, PowType
  <2> QED
    BY <2>1
<1>5. \E l \in 1..(x + 1) : x < 2^l /\ (l = 1 \/ x >= 2^(l - 1))
  BY <1>3, <1>4
<1>6. PICK k : k = Len64(x)
  OBVIOUS
<1>7. k \in 1..(x + 1) /\ x < 2^k /\ (k = 1 \/ x >= 2^(k - 1))
  BY <1>5, <1>6, Zenon DEF Len64
<1> QED
  BY <1>6, <1>7

LEMMA SovIs ==
    ASSUME NEW x \in Nat
    PROVE  /\ sov(x) \in Nat \ {0} /\ x < 2^(7 * sov(x))
           /\ sov(x) = 1 \/ x >= 2^(7 * (sov(x) - 1))
<1>1. PICK n \in Nat : n = Len64(x) /\ n # 0 /\ x < 2^n /\ (n = 1 \/ x >= 2^(n - 1))
  BY Len64Is
<1>2. PICK s \in Nat : s = sov(x) /\ s = (n + 6) \div 7
  BY <1>1 DEF sov
<1>3. s # 0 /\ n <= 7 * s /\ (s # 1 => n # 1 /\ 7 * (s - 1) <= n - 1)
  BY <1>1, <1>2
<1>4. x < 2^(7 * s)
  <2>1. 2^n <= 2^(7 * s)
    BY <1>3, PowMonotone
  <2> QED
    BY <1>1, <2>1, PowType
<1>5. s # 1 => x >= 2^(7 * (s - 1))
  <2>1. ASSUME s # 1 PROVE x >= 2^(7 * (s - 1))
    <3>1. PICK a \in Nat, b \in Nat : a = 7 * (s - 1) /\ b = n - 1 /\ a <= b
      BY <1>3, <2>1
    <3>2. 2^a <= 2^b
      BY <3>1, PowMonotone
    <3>3. x >= 2^b
      BY <1>1, <1>3, <2>1, <3>1
    <3> QED
      BY <3>1, <3>2, <3>3, PowType
  <2> QED
    BY <2>1
<1> QED
  BY <1>2, <1>3, <1>4, <1>5

\* The bits that i groups hold.
LEMMA GroupPow ==
    ASSUME NEW i \in Nat
    PROVE  2^(7 * i) \in Nat /\ 2^(7 * i) > 0 /\ 2^(7 * (i + 1)) = 128 * 2^(7 * i)
<1>1. PICK a \in Nat : a = 7 * i
  OBVIOUS
<1>2. 2^(a + 7) = 2^a * 2^7
  BY PowSum
<1>4. 2^7 = 128
  OBVIOUS
<1>3. 7 * (i + 1) = a + 7
  BY <1>1
<1>5. 2^a \in Nat /\ 2^a > 0
  BY PowType
<1>6. 2^a * 128 = 128 * 2^a
  BY <1>5
<1> QED
  BY <1>1, <1>2, <1>3, <1>4, <1>5, <1>6

\* A word needs no more groups than are read.
LEMMA SovOfWord ==
    ASSUME NEW x \in Nat, x < 2^WordBits
    PROVE  sov(x) <= Groups
<1>1. PICK w \in Nat : w = WordBits /\ w >= 8
  BY WidthAssumption
<1>2. PICK s \in Nat : s = sov(x) /\ s # 0 /\ (s = 1 \/ x >= 2^(7 * (s - 1)))
  BY SovIs
<1>3. s # 1 => 7 * (s - 1) < w
  <2> SUFFICES ASSUME s # 1, ~(7 * (s - 1) < w) PROVE FALSE
    OBVIOUS
  <2>1. PICK a \in Nat : a = 7 * (s - 1) /\ w <= a
    BY <1>1, <1>2
  <2>2. 2^w <= 2^a /\ 2^w \in Nat /\ 2^a \in Nat
    BY <2>1, PowMonotone, PowType
  <2> QED
    BY <1>1, <1>2, <2>1, <2>2
<1>4. s <= (w + 6) \div 7
  BY <1>1, <1>2, <1>3
<1> QED
  BY <1>1, <1>2, <1>4 DEF Groups

-----------------------------------------------------------------------------
(* Folds: what FoldLeft computes, an element at a time.                    *)

LEMMA MaxIs ==
    ASSUME NEW n \in Nat, NEW s \in SUBSET (1..n), s # {}
    PROVE  Max(s) \in s /\ \A y \in s : y <= Max(s)
<1> DEFINE T == {m \in Nat : \A y \in s : y <= m}
<1>1. n \in T
  OBVIOUS
<1>2. PICK m \in T : \A r \in T : m <= r
  <2> HIDE DEF T
  <2>1. T \subseteq Nat
    BY DEF T
  <2> QED
    BY <1>1, <2>1, Least
<1>3. m \in s
  <2> SUFFICES ASSUME m \notin s PROVE FALSE
    OBVIOUS
  <2>1. \A y \in s : y <= m /\ y >= 1 /\ y \in Nat /\ y # m
    BY <1>2
  <2>2. m - 1 \in Nat
    <3>1. PICK y \in s : TRUE
      OBVIOUS
    <3> QED
      BY <1>2, <2>1, <3>1
  <2>3. \A y \in s : y <= m - 1
    BY <1>2, <2>1
  <2> QED
    BY <1>2, <2>2, <2>3
<1>4. \A y \in s : m >= y /\ m \in Nat /\ y \in Nat
  BY <1>2
<1>5. \E x \in s : \A y \in s : x >= y
  BY <1>3, <1>4
<1>6. Max(s) \in s /\ \A y \in s : Max(s) >= y
  BY <1>5 DEF Max
<1> QED
  BY <1>6

LEMMA IntervalTop ==
    ASSUME NEW n \in Nat, NEW k \in 1..n
    PROVE  /\ 1..k \in SUBSET (1..n) /\ 1..(k - 1) \in SUBSET (1..n) /\ 1..k # {}
           /\ Max(1..k) = k /\ (1..k) \ {Max(1..k)} = 1..(k - 1)
<1>1. 1..k \in SUBSET (1..n) /\ 1..(k - 1) \in SUBSET (1..n) /\ k \in 1..k
  OBVIOUS
<1>2. Max(1..k) \in 1..k /\ \A y \in 1..k : y <= Max(1..k)
  BY <1>1, MaxIs
<1>3. Max(1..k) = k
  BY <1>1, <1>2
<1>4. (1..k) \ {k} = 1..(k - 1)
  OBVIOUS
<1> QED
  BY <1>1, <1>3, <1>4

Folded(it, base, h, s) == IF s = {} THEN base ELSE h[<<it[s \ {Max(s)}], Max(s)>>]
IsFold(it, n, V, base, h) ==
    it \in [SUBSET (1..n) -> V] /\ \A s \in SUBSET (1..n) : it[s] = Folded(it, base, h, s)

LEMMA FoldExists ==
    ASSUME NEW n \in Nat, NEW V, NEW base \in V, NEW h \in [V \X (1..n) -> V]
    PROVE  \E it : IsFold(it, n, V, base, h)
<1> DEFINE Defined(k) == \E it \in [SUBSET (1..k) -> V] :
                            \A s \in SUBSET (1..k) : it[s] = Folded(it, base, h, s)
           T == {k \in Nat : k <= n => Defined(k)}
<1>1. 0 \in T
  <2> DEFINE it == [s \in SUBSET (1..0) |-> base]
  <2>1. \A s \in SUBSET (1..0) : s = {}
    OBVIOUS
  <2>2. \A s \in SUBSET (1..0) : it[s] = Folded(it, base, h, s)
    BY <2>1 DEF Folded
  <2>3. it \in [SUBSET (1..0) -> V]
    OBVIOUS
  <2>4. Defined(0)
    BY <2>2, <2>3
  <2> QED
    BY <2>4
<1>2. ASSUME NEW k \in Nat, k \in T PROVE k + 1 \in T
  <2> HIDE DEF Defined
  <2> SUFFICES ASSUME k + 1 <= n PROVE Defined(k + 1)
    OBVIOUS
  <2>0. Defined(k)
    BY <1>2
  <2>1. PICK g \in [SUBSET (1..k) -> V] : \A s \in SUBSET (1..k) : g[s] = Folded(g, base, h, s)
    BY <2>0 DEF Defined
  <2> DEFINE it == [s \in SUBSET (1..(k + 1)) |->
                        IF k + 1 \in s THEN h[<<g[s \ {k + 1}], k + 1>>] ELSE g[s]]
  <2>2. k + 1 \in 1..n
    OBVIOUS
  <2>3. ASSUME NEW s \in SUBSET (1..(k + 1))
        PROVE  it[s] \in V /\ it[s] = Folded(it, base, h, s)
    <3>1. CASE k + 1 \in s
      <4>1. s \ {k + 1} \in SUBSET (1..k) /\ s \ {k + 1} \in SUBSET (1..(k + 1))
        OBVIOUS
      <4>2. it[s \ {k + 1}] = g[s \ {k + 1}] /\ g[s \ {k + 1}] \in V
        BY <4>1
      <4>3. it[s] = h[<<g[s \ {k + 1}], k + 1>>]
        BY <3>1
      <4>4. Max(s) = k + 1
        <5>1. k + 1 \in Nat /\ s # {}
          BY <3>1
        <5>2. Max(s) \in s /\ \A y \in s : y <= Max(s)
          BY <5>1, MaxIs
        <5>3. PICK m : m = Max(s)
          OBVIOUS
        <5>4. m \in 1..(k + 1)
          BY <5>2, <5>3
        <5>5. k + 1 <= m
          BY <3>1, <5>2, <5>3
        <5> QED
          BY <5>3, <5>4, <5>5
      <4>5. <<g[s \ {k + 1}], k + 1>> \in V \X (1..n)
        BY <2>2, <4>2
      <4> HIDE DEF it
      <4> QED
        BY <3>1, <4>2, <4>3, <4>4, <4>5 DEF Folded
    <3>2. CASE k + 1 \notin s
      <4>1. s \in SUBSET (1..k)
        BY <3>2
      <4>2. it[s] = g[s] /\ g[s] \in V /\ g[s] = Folded(g, base, h, s)
        BY <2>1, <3>2, <4>1
      <4>3. s # {} => it[s \ {Max(s)}] = g[s \ {Max(s)}]
        <5>1. s \ {Max(s)} \in SUBSET (1..(k + 1)) /\ k + 1 \notin s \ {Max(s)}
          BY <3>2
        <5> QED
          BY <5>1
      <4> HIDE DEF it
      <4> QED
        BY <4>2, <4>3 DEF Folded
    <3> QED
      BY <3>1, <3>2
  <2>4. it \in [SUBSET (1..(k + 1)) -> V]
    <3>1. \A s \in SUBSET (1..(k + 1)) :
             (IF k + 1 \in s THEN h[<<g[s \ {k + 1}], k + 1>>] ELSE g[s]) \in V
      BY <2>3
    <3> QED
      BY <3>1
  <2> HIDE DEF it
  <2> QED
    BY <2>3, <2>4 DEF Defined
<1> HIDE DEF Defined, T
<1>3. Nat \subseteq T
  BY <1>1, <1>2, Induction
<1>4. Defined(n)
  BY <1>3 DEF T
<1> QED
  BY <1>4 DEF Defined, IsFold

LEMMA FoldNat ==
    ASSUME NEW n \in Nat, NEW h \in [Nat \X (1..n) -> Nat]
    PROVE  \E g \in [SUBSET (1..n) -> Nat] : \A s \in SUBSET (1..n) : g[s] = Folded(g, 0, h, s)
<1>1. PICK V : V = Nat
  OBVIOUS
<1>2. PICK z : z = 0
  OBVIOUS
<1>3. z \in V /\ h \in [V \X (1..n) -> V]
  BY <1>1, <1>2
<1>4. \E g : IsFold(g, n, V, z, h)
  BY <1>3, FoldExists
<1> QED
  BY <1>1, <1>2, <1>4 DEF IsFold

LEMMA ValueSteps ==
    ASSUME NEW n \in Nat, NEW groups \in [1..n -> Nat], NEW bits \in Nat
    PROVE  \E F \in [0..n -> Nat] :
              /\ F[0] = 0 /\ \A k \in 1..n : F[k] = (F[k - 1] + groups[k]) % 2^bits
              /\ GroupsValue(groups, bits) = F[n]
<1> DEFINE P == 2^bits
           h == [p \in Nat \X (1..n) |-> (p[1] + groups[p[2]]) % P]
           Eq(it) == it = [s \in SUBSET (1..n) |->
                              IF s = {} THEN 0 ELSE (it[s \ {Max(s)}] + groups[Max(s)]) % P]
           it == CHOOSE g : Eq(g)
<1>1. P \in Nat /\ P > 0
  BY PowType
<1> HIDE DEF P
<1>2. h \in [Nat \X (1..n) -> Nat]
  BY <1>1
<1>3. PICK g \in [SUBSET (1..n) -> Nat] : \A s \in SUBSET (1..n) : g[s] = Folded(g, 0, h, s)
  <2> HIDE DEF h
  <2> QED
    BY <1>2, FoldNat
<1>4. \A s \in SUBSET (1..n) : s # {} => g[s] = (g[s \ {Max(s)}] + groups[Max(s)]) % P
  <2> SUFFICES ASSUME NEW s \in SUBSET (1..n), s # {}
               PROVE  g[s] = (g[s \ {Max(s)}] + groups[Max(s)]) % P
    OBVIOUS
  <2>1. Max(s) \in 1..n
    BY MaxIs
  <2>2. <<g[s \ {Max(s)}], Max(s)>> \in Nat \X (1..n)
    BY <2>1
  <2>3. g[s] = h[<<g[s \ {Max(s)}], Max(s)>>]
    BY <1>3 DEF Folded
  <2> QED
    BY <2>2, <2>3
<1>5. Eq(g)
  <2>1. \A s \in SUBSET (1..n) : s = {} => g[s] = 0
    BY <1>3 DEF Folded
  <2> QED
    BY <1>4, <2>1
<1>6. Eq(it)
  <2> HIDE DEF Eq
  <2> QED
    BY <1>5
<1>7. GroupsValue(groups, bits) = it[1..n]
  BY DEF GroupsValue, FoldLeft, MapThenFoldSet, P
<1> DEFINE F == [k \in 0..n |-> it[1..k]]
<1> HIDE DEF it
<1>8. it[1..0] = 0
  <2>1. 1..0 = {} /\ 1..0 \in SUBSET (1..n)
    OBVIOUS
  <2> QED
    BY <1>6, <2>1
<1>9. ASSUME NEW k \in 1..n PROVE it[1..k] = (it[1..(k - 1)] + groups[k]) % P
  <2>1. PICK s \in SUBSET (1..n) : s = 1..k
    BY IntervalTop
  <2>2. s # {} /\ Max(s) = k /\ s \ {Max(s)} = 1..(k - 1)
    BY <2>1, IntervalTop
  <2>3. it[s] = (it[s \ {Max(s)}] + groups[Max(s)]) % P
    BY <1>6, <2>2
  <2> QED
    BY <2>1, <2>2, <2>3
<1>10. ASSUME NEW k \in 0..n PROVE it[1..k] \in Nat
  <2> DEFINE T == {m \in Nat : m <= n => it[1..m] \in Nat}
  <2>1. 0 \in T
    BY <1>8
  <2>2. ASSUME NEW m \in Nat, m \in T PROVE m + 1 \in T
    <3> SUFFICES ASSUME m + 1 <= n PROVE it[1..(m + 1)] \in Nat
      OBVIOUS
    <3>1. m + 1 \in 1..n /\ (m + 1) - 1 = m /\ it[1..m] \in Nat /\ groups[m + 1] \in Nat
      BY <2>2
    <3>2. it[1..(m + 1)] = (it[1..m] + groups[m + 1]) % P
      BY <1>9, <3>1
    <3>3. PICK a \in Nat : a = it[1..m] + groups[m + 1]
      BY <3>1
    <3> QED
      BY <1>1, <3>2, <3>3
  <2> HIDE DEF T
  <2>3. Nat \subseteq T
    BY <2>1, <2>2, Induction
  <2> QED
    BY <2>3 DEF T
<1>11. F \in [0..n -> Nat]
  BY <1>10
<1>12. F[0] = 0 /\ \A k \in 1..n : F[k] = (F[k - 1] + groups[k]) % 2^bits
  BY <1>8, <1>9 DEF P
<1>13. GroupsValue(groups, bits) = F[n]
  BY <1>7
<1> QED
  BY <1>11, <1>12, <1>13

-----------------------------------------------------------------------------
(* Varints: what encodeVarint writes and decodeVarint reads.               *)

LEMMA Quotient ==
    ASSUME NEW a \in Nat, NEW b \in Nat, b > 0
    PROVE  a \div b \in Nat /\ (a \div b >= 128 <=> a >= 128 * b)
OBVIOUS

LEMMA EncodeIs ==
    ASSUME NEW v \in Nat
    PROVE  /\ encodeVarint(v) \in Seq(Byte) /\ Len(encodeVarint(v)) = sov(v)
           /\ \A i \in 1..sov(v) :
                 /\ encodeVarint(v)[i] < 128 <=> i = sov(v)
                 /\ encodeVarint(v)[i] % 128 = (v \div 2^(7 * (i - 1))) % 128
<1>1. PICK s \in Nat : /\ s = sov(v) /\ s # 0 /\ v < 2^(7 * s)
                       /\ s = 1 \/ v >= 2^(7 * (s - 1))
  BY SovIs
<1> DEFINE rest(i) == v \div 2^(7 * (i - 1))
           byte(i) == IF rest(i) >= 128 THEN (rest(i) % 128) + 128 ELSE rest(i)
<1>2. ASSUME NEW i \in 1..s
      PROVE  /\ rest(i) \in Nat /\ (rest(i) >= 128 <=> i # s)
             /\ byte(i) \in Byte /\ (byte(i) < 128 <=> i = s) /\ byte(i) % 128 = rest(i) % 128
  <2>1. PICK j \in Nat : j = i - 1 /\ j + 1 = i
    OBVIOUS
  <2>2. PICK b \in Nat : b = 2^(7 * j) /\ b > 0 /\ 2^(7 * i) = 128 * b
    BY <2>1, GroupPow
  <2>3. v \div b \in Nat /\ (v \div b >= 128 <=> v >= 128 * b)
    BY <2>2, Quotient
  <2>4. PICK r \in Nat : r = rest(i) /\ (r >= 128 <=> v >= 128 * b)
    BY <2>1, <2>2, <2>3
  <2>5. i = s => r < 128
    <3>1. i = s => v < 128 * b
      BY <1>1, <2>2
    <3> QED
      BY <2>2, <2>4, <3>1
  <2>6. i # s => r >= 128
    <3> SUFFICES ASSUME i # s PROVE v >= 128 * b
      BY <2>4
    <3>1. PICK c \in Nat, d \in Nat : c = 7 * i /\ d = 7 * (s - 1) /\ c <= d
      OBVIOUS
    <3>2. 2^c <= 2^d /\ 2^c \in Nat /\ 2^d \in Nat
      BY <3>1, PowMonotone, PowType
    <3>3. v >= 2^d
      BY <1>1, <3>1
    <3>4. v >= 2^c
      BY <3>2, <3>3
    <3> QED
      BY <2>2, <3>1, <3>4
  <2>7. byte(i) = IF r >= 128 THEN (r % 128) + 128 ELSE r
    BY <2>4
  <2> HIDE DEF byte, rest
  <2>8. byte(i) \in Byte /\ (byte(i) < 128 <=> i = s) /\ byte(i) % 128 = r % 128
    BY <2>5, <2>6, <2>7 DEF Byte
  <2> QED
    BY <2>4, <2>5, <2>6, <2>8
<1>3. encodeVarint(v) = [i \in 1..s |-> byte(i)]
  BY <1>1 DEF encodeVarint
<1> HIDE DEF byte
<1>4. encodeVarint(v) \in [1..s -> Byte]
  BY <1>2, <1>3
<1>5. encodeVarint(v) \in Seq(Byte) /\ Len(encodeVarint(v)) = s
  BY <1>3, <1>4
<1>6. \A i \in 1..s : encodeVarint(v)[i] = byte(i)
  BY <1>3
<1> QED
  BY <1>1, <1>2, <1>5, <1>6

\* Ends, and what the groups before the first of them hold.
Ends(data, i) == {n \in 0..(Groups - 1) : i + n < Len(data) /\ data[i + n + 1] < 128}
ReadGroups(data, i, n) == [k \in 1..n |-> (data[i + k] % 128) * 2^(7 * (k - 1))]

LEMMA DecodeIs ==
    ASSUME NEW data, NEW i, NEW bits
    PROVE  decodeVarint(data, i, bits) =
              IF Ends(data, i) = {} THEN [ok |-> FALSE, value |-> 0, next |-> i]
              ELSE [ok |-> TRUE,
                    value |-> GroupsValue(ReadGroups(data, i, Min(Ends(data, i)) + 1), bits),
                    next |-> i + Min(Ends(data, i)) + 1]
BY DEF decodeVarint, Ends, ReadGroups

LEMMA MinIs ==
    ASSUME NEW T, T \subseteq Nat, T # {}
    PROVE  Min(T) \in T /\ \A y \in T : Min(T) <= y
<1>1. \E n \in T : \A y \in T : n <= y
  BY Least
<1> QED
  BY <1>1 DEF Min

LEMMA GroupsType ==
    ASSUME NEW data \in Seq(Byte), NEW i \in Nat, NEW n \in Nat, i + n <= Len(data)
    PROVE  ReadGroups(data, i, n) \in [1..n -> Nat]
<1>1. ASSUME NEW k \in 1..n PROVE (data[i + k] % 128) * 2^(7 * (k - 1)) \in Nat
  <2>0. i + k \in 1..Len(data)
    BY LenProperties
  <2>1. PICK b \in Nat : b = data[i + k] % 128
    <3>1. PICK x \in Byte : x = data[i + k]
      BY <2>0, ElementOfSeq
    <3> QED
      BY <3>1 DEF Byte
  <2>2. PICK m \in Nat : m = 7 * (k - 1)
    OBVIOUS
  <2>3. PICK p \in Nat : p = 2^m
    BY PowType
  <2>4. b * p \in Nat
    BY ONLY b \in Nat, p \in Nat
  <2> QED
    BY <2>1, <2>2, <2>3, <2>4
<1> QED
  BY <1>1 DEF ReadGroups

LEMMA ValueType ==
    ASSUME NEW n \in Nat, NEW groups \in [1..n -> Nat], NEW bits \in Nat
    PROVE  GroupsValue(groups, bits) \in Nat /\ GroupsValue(groups, bits) < 2^bits
<1>1. PICK F \in [0..n -> Nat] :
              /\ F[0] = 0 /\ \A k \in 1..n : F[k] = (F[k - 1] + groups[k]) % 2^bits
              /\ GroupsValue(groups, bits) = F[n]
  BY ValueSteps
<1>2. PICK P \in Nat : P = 2^bits /\ P > 0
  BY PowType
<1>3. F[n] < P
  <2>1. CASE n = 0
    BY <1>1, <1>2, <2>1
  <2>2. CASE n # 0
    <3>1. n \in 1..n /\ n - 1 \in 0..n
      BY <2>2
    <3>2. PICK a \in Nat : a = F[n - 1] + groups[n]
      BY <3>1
    <3>3. F[n] = a % P
      BY <1>1, <1>2, <3>1, <3>2
    <3> QED
      BY <1>2, <3>3
  <2> QED
    BY <2>1, <2>2
<1> QED
  BY <1>1, <1>2, <1>3

LEMMA DecodeType ==
    ASSUME NEW data \in Seq(Byte), NEW i \in Nat, NEW bits \in Nat
    PROVE  LET d == decodeVarint(data, i, bits) IN
           /\ d \in [ok : BOOLEAN, value : Nat, next : Nat] /\ d.value < 2^bits
           /\ d.ok => i < d.next /\ d.next <= Len(data)
           /\ ~d.ok => d.next = i
<1>1. CASE Ends(data, i) = {}
  <2>1. decodeVarint(data, i, bits) = [ok |-> FALSE, value |-> 0, next |-> i]
    BY <1>1, DecodeIs
  <2> QED
    BY <2>1, PowType
<1>2. CASE Ends(data, i) # {}
  <2>1. Ends(data, i) \subseteq Nat
    BY WidthAssumption DEF Ends
  <2>2. Min(Ends(data, i)) \in Ends(data, i)
    BY <1>2, <2>1, MinIs
  <2>3. PICK m \in Nat : m = Min(Ends(data, i)) /\ i + m < Len(data)
    BY <2>1, <2>2 DEF Ends
  <2>4. PICK groups : groups = ReadGroups(data, i, m + 1)
    OBVIOUS
  <2>5. groups \in [1..(m + 1) -> Nat]
    <3>1. m + 1 \in Nat /\ i + (m + 1) <= Len(data)
      BY <2>3
    <3> QED
      BY <2>4, <3>1, GroupsType
  <2>6. GroupsValue(groups, bits) \in Nat /\ GroupsValue(groups, bits) < 2^bits
    <3>1. m + 1 \in Nat
      OBVIOUS
    <3> QED
      BY <2>5, <3>1, ValueType
  <2>7. decodeVarint(data, i, bits) =
            [ok |-> TRUE, value |-> GroupsValue(groups, bits), next |-> i + m + 1]
    BY <1>2, <2>3, <2>4, DecodeIs
  <2> QED
    BY <2>3, <2>6, <2>7
<1> QED
  BY <1>1, <1>2

LEMMA DigitStep ==
    ASSUME NEW v \in Nat, NEW b \in Nat, b > 0
    PROVE  v % (128 * b) = (v % b) + ((v \div b) % 128) * b
<1>1. PICK q \in Int, r \in Int : q = v \div b /\ r = v % b /\ 0 <= r /\ r < b /\ v = b * q + r
  BY Division
<1>2. q \in Nat
  BY <1>1
<1>3. PICK p \in Int, t \in Int : p = q \div 128 /\ t = q % 128 /\ 0 <= t /\ t < 128 /\ q = 128 * p + t
  BY Division
<1>4. PICK u \in Int : u = b * t
  OBVIOUS
<1>5. 0 <= u + r /\ u + r < 128 * b
  <2>1. u >= 0 /\ u <= 127 * b
    BY <1>3, <1>4
  <2> QED
    BY <1>1, <2>1
<1>6. v = (128 * b) * p + (u + r)
  <2>1. b * (128 * p + t) = (128 * b) * p + b * t
    BY ONLY b \in Nat, p \in Int, t \in Int
  <2> QED
    BY <1>1, <1>3, <1>4, <2>1
<1>7. v % (128 * b) = u + r
  <2>1. PICK c \in Nat : c = 128 * b /\ c > 0
    OBVIOUS
  <2>2. (c * p + (u + r)) % c = u + r
    BY <1>5, <2>1, DivisionUnique
  <2> QED
    BY <1>6, <2>1, <2>2
<1>8. t * b = u
  BY <1>4
<1> QED
  BY <1>1, <1>3, <1>7, <1>8

\* The value of the groups of a number, one after the other.
LEMMA GroupsOfNumber ==
    ASSUME NEW v \in Nat, NEW n \in Nat, NEW groups \in [1..n -> Nat], NEW bits \in Nat,
           \A k \in 1..n : groups[k] = ((v \div 2^(7 * (k - 1))) % 128) * 2^(7 * (k - 1))
    PROVE  GroupsValue(groups, bits) = (v % 2^(7 * n)) % 2^bits
<1>1. PICK F \in [0..n -> Nat] :
              /\ F[0] = 0 /\ \A k \in 1..n : F[k] = (F[k - 1] + groups[k]) % 2^bits
              /\ GroupsValue(groups, bits) = F[n]
  BY ValueSteps
<1>2. PICK P \in Nat : P = 2^bits /\ P > 0
  BY PowType
<1> DEFINE T == {k \in Nat : k <= n => F[k] = (v % 2^(7 * k)) % P}
<1>3. 0 \in T
  <2>1. 2^(7 * 0) = 1
    BY PowZero
  <2>2. v % 1 = 0 /\ 0 % P = 0
    BY <1>2
  <2> QED
    BY <1>1, <2>1, <2>2
<1>4. ASSUME NEW k \in Nat, k \in T PROVE k + 1 \in T
  <2> SUFFICES ASSUME k + 1 <= n PROVE F[k + 1] = (v % 2^(7 * (k + 1))) % P
    OBVIOUS
  <2>1. PICK b \in Nat : b = 2^(7 * k) /\ b > 0 /\ 2^(7 * (k + 1)) = 128 * b
    BY GroupPow
  <2>2. PICK a \in Int : a = v % b
    BY <2>1
  <2>3. k + 1 \in 1..n /\ (k + 1) - 1 = k /\ F[k] = a % P
    BY <1>4, <2>1, <2>2
  <2>4. PICK c \in Int : c = groups[k + 1] /\ c = ((v \div b) % 128) * b
    BY <2>1, <2>3
  <2>5. F[k + 1] = ((a % P) + c) % P
    BY <1>1, <1>2, <2>3, <2>4
  <2>6. ((a % P) + c) % P = (a + c) % P
    BY <1>2, ModAdd
  <2>7. v % (128 * b) = a + c
    <3>1. v % (128 * b) = (v % b) + ((v \div b) % 128) * b
      BY <2>1, DigitStep, Zenon
    <3> QED
      BY <2>2, <2>4, <3>1, Zenon
  <2> QED
    BY <2>1, <2>5, <2>6, <2>7
<1> HIDE DEF T
<1>5. Nat \subseteq T
  BY <1>3, <1>4, Induction
<1>6. F[n] = (v % 2^(7 * n)) % P
  BY <1>5 DEF T
<1> QED
  BY <1>1, <1>2, <1>6

\* Wherever a number was written, it is read in the given width, and behind it.
LEMMA DecodeEncoded ==
    ASSUME NEW data \in Seq(Byte), NEW i \in Nat, NEW v \in Nat, NEW bits \in Nat, v < 2^WordBits,
           i + sov(v) <= Len(data), \A j \in 1..sov(v) : data[i + j] = encodeVarint(v)[j]
    PROVE  decodeVarint(data, i, bits) = [ok |-> TRUE, value |-> v % 2^bits, next |-> i + sov(v)]
<1>1. PICK s \in Nat : s = sov(v) /\ s # 0 /\ s <= Groups /\ v < 2^(7 * s)
  BY SovIs, SovOfWord
<1>2. \A j \in 1..s : /\ data[i + j] < 128 <=> j = s
                      /\ data[i + j] % 128 = (v \div 2^(7 * (j - 1))) % 128
  <2>1. \A j \in 1..sov(v) : /\ encodeVarint(v)[j] < 128 <=> j = sov(v)
                             /\ encodeVarint(v)[j] % 128 = (v \div 2^(7 * (j - 1))) % 128
    BY EncodeIs
  <2> QED
    BY <1>1, <2>1, Zenon
<1>3. Groups \in Nat
  BY WidthAssumption DEF Groups
<1>4. s - 1 \in Ends(data, i)
  <2>1. i + (s - 1) + 1 = i + s /\ data[i + s] < 128
    BY <1>1, <1>2
  <2>2. s - 1 \in 0..(Groups - 1) /\ i + (s - 1) < Len(data)
    BY <1>1, <1>3, LenProperties
  <2> QED
    BY <2>1, <2>2 DEF Ends
<1>5. \A n \in Ends(data, i) : s - 1 <= n
  <2> SUFFICES ASSUME NEW n \in Ends(data, i), n < s - 1 PROVE FALSE
    BY <1>1, <1>3 DEF Ends
  <2>1. n \in Nat /\ data[i + n + 1] < 128
    BY <1>3 DEF Ends
  <2>2. n + 1 \in 1..s /\ n + 1 # s /\ i + (n + 1) = i + n + 1
    BY <1>1, <2>1
  <2> QED
    BY <1>2, <2>1, <2>2
<1>6. Min(Ends(data, i)) = s - 1
  <2>1. Ends(data, i) \subseteq Nat
    BY <1>3 DEF Ends
  <2>2. Min(Ends(data, i)) \in Ends(data, i) /\ Min(Ends(data, i)) <= s - 1
    BY <1>4, <2>1, MinIs
  <2>3. s - 1 <= Min(Ends(data, i))
    BY <1>5, <2>2
  <2> QED
    BY <1>1, <2>1, <2>2, <2>3
<1>7. PICK groups : groups = ReadGroups(data, i, s)
  OBVIOUS
<1>8. groups \in [1..s -> Nat]
  BY <1>1, <1>7, GroupsType
<1>9. \A k \in 1..s : groups[k] = ((v \div 2^(7 * (k - 1))) % 128) * 2^(7 * (k - 1))
  BY <1>2, <1>7 DEF ReadGroups
<1>10. GroupsValue(groups, bits) = (v % 2^(7 * s)) % 2^bits
  BY <1>8, <1>9, GroupsOfNumber
<1>11. v % 2^(7 * s) = v
  <2>1. PICK m \in Nat : m = 7 * s
    OBVIOUS
  <2>2. 2^m \in Nat /\ 2^m > 0 /\ v < 2^m
    BY <1>1, <2>1, PowType
  <2> QED
    BY <2>1, <2>2
<1>12. (s - 1) + 1 = s /\ i + (s - 1) + 1 = i + s /\ Ends(data, i) # {}
  BY <1>1, <1>4
<1> QED
  BY <1>1, <1>6, <1>7, <1>10, <1>11, <1>12, DecodeIs

\* A number of which the end is missing is not read.
Written(data, i, v) == i + sov(v) <= Len(data) /\ \A j \in 1..sov(v) : data[i + j] = encodeVarint(v)[j]
Decoded(data, i, v, bits) ==
    decodeVarint(data, i, bits) = [ok |-> TRUE, value |-> v % 2^bits, next |-> i + sov(v)]

LEMMA DecodeWritten ==
    ASSUME NEW data \in Seq(Byte), NEW i \in Nat, NEW v \in Nat, NEW bits \in Nat, v < 2^WordBits,
           Written(data, i, v)
    PROVE  Decoded(data, i, v, bits)
BY DecodeEncoded DEF Written, Decoded

LEMMA DecodeCut ==
    ASSUME NEW data \in Seq(Byte), NEW i \in Nat, NEW v \in Nat, NEW bits \in Nat,
           i + sov(v) > Len(data), \A j \in 1..(Len(data) - i) : data[i + j] = encodeVarint(v)[j]
    PROVE  decodeVarint(data, i, bits) = [ok |-> FALSE, value |-> 0, next |-> i]
<1>1. PICK s \in Nat : s = sov(v) /\ s # 0
  BY SovIs
<1>2. Ends(data, i) = {}
  <2> SUFFICES ASSUME NEW n \in Ends(data, i) PROVE FALSE
    OBVIOUS
  <2>1. n \in Nat /\ i + n < Len(data) /\ data[i + n + 1] < 128
    BY WidthAssumption DEF Ends, Groups
  <2>2. n + 1 \in 1..s /\ n + 1 # s /\ n + 1 \in 1..(Len(data) - i) /\ i + (n + 1) = i + n + 1
    BY <1>1, <2>1, LenProperties
  <2>3. ~(encodeVarint(v)[n + 1] < 128)
    BY <1>1, <2>2, EncodeIs
  <2> QED
    BY <2>1, <2>2, <2>3
<1> QED
  BY <1>2, DecodeIs

-----------------------------------------------------------------------------
(* Lists: what FlattenSeq and ListSize compute.                            *)

ByteSeqs == Seq(Byte)

LEMMA ConcatType ==
    ASSUME NEW a \in ByteSeqs, NEW b \in ByteSeqs
    PROVE  a \o b \in ByteSeqs /\ Len(a \o b) = Len(a) + Len(b)
BY ConcatProperties DEF ByteSeqs

LEMMA ConcatAt ==
    ASSUME NEW a \in ByteSeqs, NEW b \in ByteSeqs
    PROVE  /\ \A i \in 1..Len(a) : (a \o b)[i] = a[i]
           /\ \A j \in 1..Len(b) : (a \o b)[Len(a) + j] = b[j]
<1>1. PICK m \in Nat, n \in Nat : m = Len(a) /\ n = Len(b)
  BY LenProperties DEF ByteSeqs
<1>0. PICK c : c = a \o b
  OBVIOUS
<1>2. \A i \in 1..(m + n) : c[i] = IF i <= m THEN a[i] ELSE b[i - m]
  <2>1. \A i \in 1..(Len(a) + Len(b)) : (a \o b)[i] = IF i <= Len(a) THEN a[i] ELSE b[i - Len(a)]
    BY ConcatProperties, Zenon DEF ByteSeqs
  <2>3. \A i \in 1..(Len(a) + Len(b)) : c[i] = IF i <= Len(a) THEN a[i] ELSE b[i - Len(a)]
    BY <1>0, <2>1, Zenon
  <2> QED
    BY <1>1, <2>3
<1>3. ASSUME NEW i \in 1..m PROVE c[i] = a[i]
  BY <1>2
<1>4. ASSUME NEW j \in 1..n PROVE c[m + j] = b[j]
  <2>1. m + j \in 1..(m + n) /\ ~(m + j <= m) /\ (m + j) - m = j
    OBVIOUS
  <2> QED
    BY <1>2, <2>1
<1> QED
  BY <1>0, <1>1, <1>3, <1>4

LEMMA FlattenSteps ==
    ASSUME NEW n \in Nat, NEW seqs \in [1..n -> ByteSeqs]
    PROVE  \E F \in [0..n -> ByteSeqs] :
              /\ F[0] = <<>> /\ \A k \in 1..n : F[k] = F[k - 1] \o seqs[k]
              /\ FlattenSeq(seqs) = F[n]
<1> DEFINE h == [p \in ByteSeqs \X (1..n) |-> p[1] \o seqs[p[2]]]
           Eq(f) == f = [i \in 1..n |-> IF i = 1 THEN seqs[i] ELSE f[i - 1] \o seqs[i]]
           f == CHOOSE g : Eq(g)
<1>1. h \in [ByteSeqs \X (1..n) -> ByteSeqs] /\ <<>> \in ByteSeqs
  <2>1. \A p \in ByteSeqs \X (1..n) : p[1] \o seqs[p[2]] \in ByteSeqs
    BY ConcatType
  <2>2. <<>> \in ByteSeqs
    BY DEF ByteSeqs
  <2> QED
    BY <2>1, <2>2
<1>2. PICK it : IsFold(it, n, ByteSeqs, <<>>, h)
  <2> HIDE DEF h
  <2>1. PICK e : e = <<>>
    OBVIOUS
  <2>2. \E it : IsFold(it, n, ByteSeqs, e, h)
    BY <1>1, <2>1, FoldExists
  <2> QED
    BY <2>1, <2>2
<1>3. ASSUME NEW k \in 1..n
      PROVE  /\ it[1..(k - 1)] \in ByteSeqs /\ it[1..k] \in ByteSeqs
             /\ it[1..k] = it[1..(k - 1)] \o seqs[k]
  <2>1. PICK s \in SUBSET (1..n) : s = 1..k
    BY IntervalTop
  <2>2. s # {} /\ Max(s) = k /\ s \ {Max(s)} = 1..(k - 1) /\ 1..(k - 1) \in SUBSET (1..n)
    BY <2>1, IntervalTop
  <2>3. it[s] = h[<<it[s \ {Max(s)}], Max(s)>>] /\ it[s] \in ByteSeqs /\ it[1..(k - 1)] \in ByteSeqs
    BY <1>2, <2>2 DEF IsFold, Folded
  <2>4. <<it[1..(k - 1)], k>> \in ByteSeqs \X (1..n)
    BY <2>3
  <2>5. h[<<it[1..(k - 1)], k>>] = it[1..(k - 1)] \o seqs[k]
    BY <2>4
  <2> HIDE DEF h
  <2> QED
    BY <2>1, <2>2, <2>3, <2>5
<1>4. it[1..0] = <<>>
  <2>1. 1..0 = {} /\ 1..0 \in SUBSET (1..n)
    OBVIOUS
  <2> QED
    BY <1>2, <2>1 DEF IsFold, Folded
<1> HIDE DEF h
<1>5. Eq(f)
  <2> DEFINE g == [i \in 1..n |-> it[1..i]]
  <2>1. ASSUME NEW i \in 1..n
        PROVE  it[1..i] = IF i = 1 THEN seqs[i] ELSE g[i - 1] \o seqs[i]
    <3>1. it[1..i] = it[1..(i - 1)] \o seqs[i]
      BY <1>3
    <3>2. CASE i = 1
      <4>1. it[1..(i - 1)] = <<>>
        BY <1>4, <3>2
      <4>2. seqs[i] \in ByteSeqs
        OBVIOUS
      <4>3. <<>> \o seqs[i] = seqs[i]
        BY <4>2, ConcatEmptySeq DEF ByteSeqs
      <4> QED
        BY <3>1, <3>2, <4>1, <4>3
    <3>3. CASE i # 1
      <4>1. i - 1 \in 1..n
        BY <3>3
      <4> QED
        BY <3>1, <3>3, <4>1
    <3> QED
      BY <3>2, <3>3
  <2>2. Eq(g)
    BY <2>1
  <2> HIDE DEF Eq
  <2> QED
    BY <2>2
<1>6. \A k \in 1..n : f[k] = it[1..k]
  <2> HIDE DEF f
  <2> DEFINE T == {k \in Nat : k \in 1..n => f[k] = it[1..k]}
  <2>1. 0 \in T
    OBVIOUS
  <2>2. ASSUME NEW k \in Nat, k \in T PROVE k + 1 \in T
    <3> SUFFICES ASSUME k + 1 \in 1..n PROVE f[k + 1] = it[1..(k + 1)]
      OBVIOUS
    <3>1. (k + 1) - 1 = k
      OBVIOUS
    <3>2. it[1..(k + 1)] = it[1..k] \o seqs[k + 1]
      BY <1>3, <3>1
    <3>3. CASE k = 0
      <4>1. f[1] = seqs[1] /\ seqs[1] \in ByteSeqs
        BY <1>5, <3>3
      <4>2. <<>> \o seqs[1] = seqs[1]
        BY <4>1, ConcatEmptySeq DEF ByteSeqs
      <4>3. it[1..k] = <<>> /\ k + 1 = 1
        BY <1>4, <3>3
      <4>4. f[k + 1] = seqs[1] /\ it[1..(k + 1)] = <<>> \o seqs[1]
        BY <3>2, <4>1, <4>3
      <4> QED
        BY <4>2, <4>4
    <3>4. CASE k # 0
      <4>1. k \in 1..n /\ k + 1 # 1
        BY <3>4
      <4>2. f[k + 1] = f[k] \o seqs[k + 1]
        BY <1>5, <3>1, <4>1
      <4> QED
        BY <2>2, <3>2, <4>1, <4>2
    <3> QED
      BY <3>3, <3>4
  <2> HIDE DEF T
  <2>3. Nat \subseteq T
    BY <2>1, <2>2, Induction
  <2> QED
    BY <2>3 DEF T
<1>7. Len(seqs) = n
  BY DEF ByteSeqs
<1>8. FlattenSeq(seqs) = IF n = 0 THEN seqs ELSE f[n]
  BY <1>7 DEF FlattenSeq
<1> HIDE DEF f
<1> DEFINE F == [k \in 0..n |-> it[1..k]]
<1>9. F[0] = <<>> /\ \A k \in 1..n : F[k] = F[k - 1] \o seqs[k]
  BY <1>3, <1>4
<1>10. F \in [0..n -> ByteSeqs]
  <2>1. \A k \in 0..n : it[1..k] \in ByteSeqs
    <3> SUFFICES ASSUME NEW k \in 0..n PROVE it[1..k] \in ByteSeqs
      OBVIOUS
    <3>1. CASE k = 0
      BY <1>1, <1>4, <3>1
    <3>2. CASE k # 0
      BY <1>3, <3>2
    <3> QED
      BY <3>1, <3>2
  <2> QED
    BY <2>1
<1>11. FlattenSeq(seqs) = F[n]
  <2>1. CASE n = 0
    <3>1. seqs = <<>>
      BY <2>1
    <3> QED
      BY <1>8, <1>9, <2>1, <3>1
  <2>2. CASE n # 0
    BY <1>6, <1>8, <2>2
  <2> QED
    BY <2>1, <2>2
<1> QED
  BY <1>9, <1>10, <1>11

LEMMA SizeSteps ==
    ASSUME NEW n \in Nat, NEW sizes \in [1..n -> Nat]
    PROVE  \E F \in [0..n -> Nat] :
              /\ F[0] = 0 /\ \A k \in 1..n : F[k] = F[k - 1] + DelimitedSize(sizes[k])
              /\ ListSize(sizes) = F[n]
<1> DEFINE h == [p \in Nat \X (1..n) |-> p[1] + DelimitedSize(sizes[p[2]])]
           Eq(it) == it = [s \in SUBSET (1..n) |->
                              IF s = {} THEN 0 ELSE it[s \ {Max(s)}] + DelimitedSize(sizes[Max(s)])]
           it == CHOOSE g : Eq(g)
<1>1. ASSUME NEW a \in Nat, NEW b \in Nat PROVE a + DelimitedSize(b) \in Nat
  <2>1. PICK s \in Nat : s = sov(b)
    BY SovIs
  <2> QED
    BY <2>1 DEF DelimitedSize
<1>2. h \in [Nat \X (1..n) -> Nat]
  BY <1>1
<1>3. PICK g \in [SUBSET (1..n) -> Nat] : \A s \in SUBSET (1..n) : g[s] = Folded(g, 0, h, s)
  <2> HIDE DEF h
  <2> QED
    BY <1>2, FoldNat
<1>4. \A s \in SUBSET (1..n) : s # {} => g[s] = g[s \ {Max(s)}] + DelimitedSize(sizes[Max(s)])
  <2> SUFFICES ASSUME NEW s \in SUBSET (1..n), s # {}
               PROVE  g[s] = g[s \ {Max(s)}] + DelimitedSize(sizes[Max(s)])
    OBVIOUS
  <2>1. Max(s) \in 1..n
    BY MaxIs
  <2>2. <<g[s \ {Max(s)}], Max(s)>> \in Nat \X (1..n)
    BY <2>1
  <2>3. g[s] = h[<<g[s \ {Max(s)}], Max(s)>>]
    BY <1>3 DEF Folded
  <2> QED
    BY <2>2, <2>3
<1>5. Eq(g)
  <2>1. \A s \in SUBSET (1..n) : s = {} => g[s] = 0
    BY <1>3 DEF Folded
  <2> QED
    BY <1>4, <2>1
<1>6. Eq(it)
  <2> HIDE DEF Eq
  <2> QED
    BY <1>5
<1>7. ListSize(sizes) = it[1..n]
  BY DEF ListSize, FoldLeft, MapThenFoldSet
<1> DEFINE F == [k \in 0..n |-> it[1..k]]
<1> HIDE DEF it
<1>8. it[1..0] = 0
  <2>1. 1..0 = {} /\ 1..0 \in SUBSET (1..n)
    OBVIOUS
  <2> QED
    BY <1>6, <2>1
<1>9. ASSUME NEW k \in 1..n PROVE it[1..k] = it[1..(k - 1)] + DelimitedSize(sizes[k])
  <2>1. PICK s \in SUBSET (1..n) : s = 1..k
    BY IntervalTop
  <2>2. s # {} /\ Max(s) = k /\ s \ {Max(s)} = 1..(k - 1)
    BY <2>1, IntervalTop
  <2>3. it[s] = it[s \ {Max(s)}] + DelimitedSize(sizes[Max(s)])
    BY <1>6, <2>2
  <2> QED
    BY <2>1, <2>2, <2>3
<1>10. ASSUME NEW k \in 0..n PROVE it[1..k] \in Nat
  <2> DEFINE T == {m \in Nat : m <= n => it[1..m] \in Nat}
  <2>1. 0 \in T
    BY <1>8
  <2>2. ASSUME NEW m \in Nat, m \in T PROVE m + 1 \in T
    <3> SUFFICES ASSUME m + 1 <= n PROVE it[1..(m + 1)] \in Nat
      OBVIOUS
    <3>1. m + 1 \in 1..n /\ (m + 1) - 1 = m /\ it[1..m] \in Nat /\ sizes[m + 1] \in Nat
      BY <2>2
    <3>2. it[1..(m + 1)] = it[1..m] + DelimitedSize(sizes[m + 1])
      BY <1>9, <3>1
    <3>3. PICK a \in Nat, b \in Nat : a = it[1..m] /\ b = sizes[m + 1]
      BY <3>1
    <3>4. a + DelimitedSize(b) \in Nat
      BY <1>1
    <3> QED
      BY <3>2, <3>3, <3>4
  <2> HIDE DEF T
  <2>3. Nat \subseteq T
    BY <2>1, <2>2, Induction
  <2> QED
    BY <2>3 DEF T
<1>11. F \in [0..n -> Nat]
  BY <1>10
<1>12. F[0] = 0 /\ \A k \in 1..n : F[k] = F[k - 1] + DelimitedSize(sizes[k])
  BY <1>8, <1>9
<1>13. ListSize(sizes) = F[n]
  BY <1>7
<1> QED
  BY <1>11, <1>12, <1>13

LEMMA NumberSteps ==
    ASSUME NEW n \in Nat, NEW digits \in [1..n -> Nat]
    PROVE  \E F \in [0..n -> Nat] :
              /\ F[0] = 0 /\ \A k \in 1..n : F[k] = 256 * F[k - 1] + digits[k]
              /\ SetBytes(digits) = F[n]
<1> DEFINE h == [p \in Nat \X (1..n) |-> 256 * p[1] + digits[p[2]]]
           Eq(it) == it = [s \in SUBSET (1..n) |->
                              IF s = {} THEN 0 ELSE 256 * it[s \ {Max(s)}] + digits[Max(s)]]
           it == CHOOSE g : Eq(g)
<1>1. \A a, b \in Nat : 256 * a + b \in Nat
  OBVIOUS
<1>2. h \in [Nat \X (1..n) -> Nat]
  BY <1>1
<1>3. PICK g \in [SUBSET (1..n) -> Nat] : \A s \in SUBSET (1..n) : g[s] = Folded(g, 0, h, s)
  <2> HIDE DEF h
  <2> QED
    BY <1>2, FoldNat
<1>4. \A s \in SUBSET (1..n) : s # {} => g[s] = 256 * g[s \ {Max(s)}] + digits[Max(s)]
  <2> SUFFICES ASSUME NEW s \in SUBSET (1..n), s # {}
               PROVE  g[s] = 256 * g[s \ {Max(s)}] + digits[Max(s)]
    OBVIOUS
  <2>1. Max(s) \in 1..n
    BY MaxIs
  <2>2. <<g[s \ {Max(s)}], Max(s)>> \in Nat \X (1..n)
    BY <2>1
  <2>3. g[s] = h[<<g[s \ {Max(s)}], Max(s)>>]
    BY <1>3 DEF Folded
  <2> QED
    BY <2>2, <2>3
<1>5. Eq(g)
  <2>1. \A s \in SUBSET (1..n) : s = {} => g[s] = 0
    BY <1>3 DEF Folded
  <2> QED
    BY <1>4, <2>1
<1>6. Eq(it)
  <2> HIDE DEF Eq
  <2> QED
    BY <1>5
<1>7. SetBytes(digits) = it[1..n]
  BY DEF SetBytes, FoldLeft, MapThenFoldSet
<1> DEFINE F == [k \in 0..n |-> it[1..k]]
<1> HIDE DEF it
<1>8. it[1..0] = 0
  <2>1. 1..0 = {} /\ 1..0 \in SUBSET (1..n)
    OBVIOUS
  <2> QED
    BY <1>6, <2>1
<1>9. ASSUME NEW k \in 1..n PROVE it[1..k] = 256 * it[1..(k - 1)] + digits[k]
  <2>1. PICK s \in SUBSET (1..n) : s = 1..k
    BY IntervalTop
  <2>2. s # {} /\ Max(s) = k /\ s \ {Max(s)} = 1..(k - 1)
    BY <2>1, IntervalTop
  <2>3. it[s] = 256 * it[s \ {Max(s)}] + digits[Max(s)]
    BY <1>6, <2>2
  <2> QED
    BY <2>1, <2>2, <2>3
<1>10. ASSUME NEW k \in 0..n PROVE it[1..k] \in Nat
  <2> DEFINE T == {m \in Nat : m <= n => it[1..m] \in Nat}
  <2>1. 0 \in T
    BY <1>8
  <2>2. ASSUME NEW m \in Nat, m \in T PROVE m + 1 \in T
    <3> SUFFICES ASSUME m + 1 <= n PROVE it[1..(m + 1)] \in Nat
      OBVIOUS
    <3>1. m + 1 \in 1..n /\ (m + 1) - 1 = m /\ it[1..m] \in Nat /\ digits[m + 1] \in Nat
      BY <2>2
    <3>2. it[1..(m + 1)] = 256 * it[1..m] + digits[m + 1]
      BY <1>9, <3>1
    <3> QED
      BY <1>1, <3>1, <3>2
  <2> HIDE DEF T
  <2>3. Nat \subseteq T
    BY <2>1, <2>2, Induction
  <2> QED
    BY <2>3 DEF T
<1>11. F \in [0..n -> Nat]
  BY <1>10
<1>12. F[0] = 0 /\ \A k \in 1..n : F[k] = 256 * F[k - 1] + digits[k]
  BY <1>8, <1>9
<1>13. SetBytes(digits) = F[n]
  BY <1>7
<1> QED
  BY <1>11, <1>12, <1>13

-----------------------------------------------------------------------------
(* Fields: their bytes, and that Size counts them.                         *)

Nums == 1..15

LEMMA LenByteSeq == ASSUME NEW b \in ByteSeqs PROVE Len(b) \in Nat
BY LenProperties DEF ByteSeqs

LEMMA TagIs ==
    ASSUME NEW num \in Nums, NEW w \in 0..7
    PROVE  Tag(num, w) \in ByteSeqs /\ Len(Tag(num, w)) = 1 /\ Tag(num, w)[1] = 8 * num + w
<1>1. 8 * num + w \in Byte
  BY DEF Nums, Byte
<1> QED
  BY <1>1 DEF Tag, ByteSeqs

LEMMA EncodedType ==
    ASSUME NEW v \in Nat
    PROVE  encodeVarint(v) \in ByteSeqs /\ Len(encodeVarint(v)) = sov(v) /\ sov(v) \in Nat
BY EncodeIs, SovIs DEF ByteSeqs

LEMMA DelimitedIs ==
    ASSUME NEW num \in Nums, NEW c \in ByteSeqs
    PROVE  /\ Delimited(num, c) \in ByteSeqs
           /\ Len(Delimited(num, c)) = DelimitedSize(Len(c)) /\ DelimitedSize(Len(c)) \in Nat
           /\ Delimited(num, c)[1] = 8 * num + 2
           /\ \A j \in 1..sov(Len(c)) : Delimited(num, c)[1 + j] = encodeVarint(Len(c))[j]
           /\ \A j \in 1..Len(c) : Delimited(num, c)[1 + sov(Len(c)) + j] = c[j]
<1>1. PICK l \in Nat : l = Len(c)
  BY LenByteSeq
<1>2. PICK t \in ByteSeqs : t = Tag(num, 2) /\ Len(t) = 1 /\ t[1] = 8 * num + 2
  BY TagIs
<1>3. PICK e \in ByteSeqs, s \in Nat : e = encodeVarint(l) /\ Len(e) = s /\ s = sov(l)
  BY EncodedType
<1>4. PICK a \in ByteSeqs : /\ a = t \o e /\ Len(a) = 1 + s
                            /\ a[1] = t[1] /\ \A j \in 1..s : a[1 + j] = e[j]
  <2>1. t \o e \in ByteSeqs /\ Len(t \o e) = 1 + s
    BY <1>2, <1>3, ConcatType, Zenon
  <2>2. \A i \in 1..Len(t) : (t \o e)[i] = t[i]
    BY ConcatAt
  <2>3. \A j \in 1..Len(e) : (t \o e)[Len(t) + j] = e[j]
    BY ConcatAt
  <2>4. PICK a : a = t \o e
    OBVIOUS
  <2>5. \A i \in 1..1 : a[i] = t[i]
    BY <1>2, <2>2, <2>4, Zenon
  <2>6. \A j \in 1..s : a[1 + j] = e[j]
    BY <1>2, <1>3, <2>3, <2>4, Zenon
  <2>7. a[1] = t[1]
    BY <2>5
  <2> QED
    BY <2>1, <2>4, <2>6, <2>7
<1>5. PICK b \in ByteSeqs : /\ b = a \o c /\ Len(b) = 1 + s + l
                            /\ \A i \in 1..(1 + s) : b[i] = a[i]
                            /\ \A j \in 1..l : b[1 + s + j] = c[j]
  <2>1. a \o c \in ByteSeqs /\ Len(a \o c) = 1 + s + l
    BY <1>1, <1>4, ConcatType
  <2>2. \A i \in 1..Len(a) : (a \o c)[i] = a[i]
    BY ConcatAt
  <2>3. \A j \in 1..Len(c) : (a \o c)[Len(a) + j] = c[j]
    BY ConcatAt
  <2>4. PICK d : d = a \o c
    OBVIOUS
  <2>5. d \in ByteSeqs /\ Len(d) = 1 + s + l
    BY <2>1, <2>4
  <2>6. \A i \in 1..(1 + s) : d[i] = a[i]
    BY <1>4, <2>2, <2>4
  <2>7. \A j \in 1..l : d[1 + s + j] = c[j]
    BY <1>1, <1>4, <2>3, <2>4
  <2> QED
    BY <2>4, <2>5, <2>6, <2>7
<1>6. Delimited(num, c) = b
  BY <1>1, <1>2, <1>3, <1>4, <1>5 DEF Delimited
<1>7. b[1] = 8 * num + 2
  BY <1>2, <1>4, <1>5
<1>8. \A j \in 1..s : b[1 + j] = e[j]
  BY <1>4, <1>5
<1>9. \A j \in 1..l : b[1 + s + j] = c[j]
  BY <1>5
<1>10. Len(b) = DelimitedSize(l) /\ DelimitedSize(l) \in Nat
  BY <1>3, <1>5 DEF DelimitedSize
<1> QED
  BY <1>1, <1>3, <1>6, <1>7, <1>8, <1>9, <1>10

LEMMA EmptyByteSeq == <<>> \in ByteSeqs /\ Len(<<>>) = 0
BY DEF ByteSeqs

\* What is written has the size that was counted.
Sized(bytes, size) == bytes \in ByteSeqs /\ size \in Nat /\ Len(bytes) = size

LEMMA SizedConcat ==
    ASSUME NEW a, NEW b, NEW m, NEW n, Sized(a, m), Sized(b, n)
    PROVE  Sized(a \o b, m + n)
<1>1. a \o b \in ByteSeqs /\ Len(a \o b) = Len(a) + Len(b)
  BY ConcatType DEF Sized
<1> QED
  BY <1>1 DEF Sized

LEMMA BytesFieldIs ==
    ASSUME NEW num \in Nums, NEW b \in ByteSeqs
    PROVE  Sized(BytesField(num, b), BytesSize(b))
<1>1. CASE b = <<>>
  BY <1>1, EmptyByteSeq DEF BytesField, BytesSize, Sized
<1>2. CASE b # <<>>
  BY <1>2, DelimitedIs DEF BytesField, BytesSize, Sized
<1> QED
  BY <1>1, <1>2

LEMMA ListFieldIs ==
    ASSUME NEW num \in Nums, NEW contents \in Seq(ByteSeqs)
    PROVE  Sized(ListField(num, contents), ListSize(Lengths(contents)))
<1>1. PICK n \in Nat : n = Len(contents) /\ DOMAIN contents = 1..n /\ contents \in [1..n -> ByteSeqs]
  BY LenProperties
<1>2. PICK seqs : seqs = [i \in 1..n |-> Delimited(num, contents[i])]
  OBVIOUS
<1>3. seqs \in [1..n -> ByteSeqs]
  BY <1>1, <1>2, DelimitedIs
<1>4. PICK sizes \in [1..n -> Nat] : sizes = Lengths(contents)
  BY <1>1, LenByteSeq DEF Lengths
<1>5. PICK F \in [0..n -> ByteSeqs] :
              /\ F[0] = <<>> /\ \A k \in 1..n : F[k] = F[k - 1] \o seqs[k]
              /\ FlattenSeq(seqs) = F[n]
  BY <1>3, FlattenSteps
<1>6. PICK G \in [0..n -> Nat] :
              /\ G[0] = 0 /\ \A k \in 1..n : G[k] = G[k - 1] + DelimitedSize(sizes[k])
              /\ ListSize(sizes) = G[n]
  BY SizeSteps
<1> DEFINE T == {k \in Nat : k <= n => Len(F[k]) = G[k]}
<1>7. 0 \in T
  BY <1>5, <1>6, EmptyByteSeq
<1>8. ASSUME NEW k \in Nat, k \in T PROVE k + 1 \in T
  <2> SUFFICES ASSUME k + 1 <= n PROVE Len(F[k + 1]) = G[k + 1]
    OBVIOUS
  <2>1. PICK j \in 1..n : j = k + 1 /\ j - 1 = k
    OBVIOUS
  <2>2. F[j] = F[k] \o seqs[j] /\ G[j] = G[k] + DelimitedSize(sizes[j])
    BY <1>5, <1>6, <2>1
  <2>3. F[k] \in ByteSeqs /\ seqs[j] \in ByteSeqs /\ Len(F[k]) = G[k]
    BY <1>3, <1>8, <2>1
  <2>4. Len(F[j]) = G[k] + Len(seqs[j])
    BY <2>2, <2>3, ConcatType
  <2>5. Len(seqs[j]) = DelimitedSize(sizes[j])
    <3>1. PICK c \in ByteSeqs : c = contents[j]
      BY <1>1
    <3>2. seqs[j] = Delimited(num, c) /\ sizes[j] = Len(c)
      BY <1>1, <1>2, <1>4, <3>1 DEF Lengths
    <3> QED
      BY <3>2, DelimitedIs
  <2> QED
    BY <2>1, <2>2, <2>4, <2>5
<1> HIDE DEF T
<1>9. Nat \subseteq T
  BY <1>7, <1>8, Induction
<1>10. Len(F[n]) = G[n]
  BY <1>9 DEF T
<1>11. ListField(num, contents) = F[n]
  BY <1>1, <1>2, <1>5 DEF ListField
<1> QED
  BY <1>4, <1>6, <1>10, <1>11 DEF Sized

LEMMA BoolFieldIs ==
    ASSUME NEW num \in Nums, NEW b \in BOOLEAN
    PROVE  Sized(BoolField(num, b), BoolSize(b))
<1>1. CASE b = FALSE
  BY <1>1, EmptyByteSeq DEF BoolField, BoolSize, Sized
<1>2. CASE b = TRUE
  <2>1. Tag(num, 0) \in ByteSeqs /\ Len(Tag(num, 0)) = 1
    BY TagIs
  <2>2. <<1>> \in ByteSeqs /\ Len(<<1>>) = 1
    BY DEF ByteSeqs, Byte
  <2>3. Tag(num, 0) \o <<1>> \in ByteSeqs /\ Len(Tag(num, 0) \o <<1>>) = 2
    <3>1. PICK o \in ByteSeqs : o = <<1>> /\ Len(o) = 1
      BY <2>2
    <3>2. PICK t \in ByteSeqs : t = Tag(num, 0) /\ Len(t) = 1
      BY <2>1
    <3>3. t \o o \in ByteSeqs /\ Len(t \o o) = Len(t) + Len(o)
      BY ConcatType
    <3>4. Len(t) + Len(o) = 2
      BY <3>1, <3>2
    <3>5. t \o o = Tag(num, 0) \o <<1>>
      BY <3>1, <3>2, Zenon
    <3> QED
      BY <3>3, <3>4, <3>5, Zenon
  <2> QED
    BY <1>2, <2>3 DEF BoolField, BoolSize, Sized
<1> QED
  BY <1>1, <1>2

LEMMA WordType == ASSUME NEW n \in Int PROVE Word(n) \in Nat /\ Word(n) < 2^WordBits
<1>1. PICK w \in Nat : w = WordBits
  BY WidthAssumption
<1>2. PICK P \in Nat : P = 2^w /\ P > 0
  BY PowType
<1>3. n % P \in Nat /\ n % P < P
  BY <1>2
<1> QED
  BY <1>1, <1>2, <1>3 DEF Word

LEMMA IntFieldIs ==
    ASSUME NEW num \in Nums, NEW n \in Int
    PROVE  Sized(IntField(num, n), IntSize(n))
<1>1. CASE n = 0
  BY <1>1, EmptyByteSeq DEF IntField, IntSize, Sized
<1>2. CASE n # 0
  <2>1. Tag(num, 0) \in ByteSeqs /\ Len(Tag(num, 0)) = 1
    BY TagIs
  <2>2. PICK v \in Nat : v = Word(n)
    BY WordType
  <2>3. PICK e \in ByteSeqs, s \in Nat : e = encodeVarint(v) /\ Len(e) = s /\ s = sov(v)
    BY EncodedType
  <2>4. Tag(num, 0) \o e \in ByteSeqs /\ Len(Tag(num, 0) \o e) = 1 + s
    BY <2>1, <2>3, ConcatType
  <2> QED
    BY <1>2, <2>2, <2>3, <2>4 DEF IntField, IntSize, Sized
<1> QED
  BY <1>1, <1>2

-----------------------------------------------------------------------------
(* Messages: their types, and that Size is the length of what is written.  *)

ReadyMsgs == [SenderID : ByteSeqs]
AnnounceMsgs == [SenderID : ByteSeqs]
TSSMsgs == [SenderID : ByteSeqs, Payload : ByteSeqs, IsBroadcast : BOOLEAN,
            SessionID : ByteSeqs]
RecoveryMsgs == [SenderID : ByteSeqs, BtcRecoveryAddress : ByteSeqs, MaxFeePerVByte : Int]
GroupInfos == [GroupID : ByteSeqs, MemberID : ByteSeqs, GroupMemberIDs : Seq(ByteSeqs),
               DishonestThreshold : Int]
SignerMsgs == [GroupInfo : Seq(GroupInfos), ThresholdKey : ByteSeqs]
PrivateKeys == [PublicKey : ByteSeqs, LambdaN : ByteSeqs, PhiN : ByteSeqs]
PreParams == [PaillierSK : Seq(PrivateKeys), NTilde : ByteSeqs, H1I : ByteSeqs, H2I : ByteSeqs,
              Alpha : ByteSeqs, Beta : ByteSeqs, P : ByteSeqs, Q : ByteSeqs]
Secrets == [Xi : ByteSeqs, ShareID : ByteSeqs]
ECPoints == [X : ByteSeqs, Y : ByteSeqs]
SaveData == [LocalPreParams : Seq(PreParams), LocalSecrets : Seq(Secrets), Ks : Seq(ByteSeqs),
             NTildej : Seq(ByteSeqs), H1J : Seq(ByteSeqs), H2J : Seq(ByteSeqs),
             BigXj : Seq(ECPoints), PaillierPKs : Seq(ByteSeqs), EcdsaPub : Seq(ECPoints)]

LEMMA ReadyMessageIs ==
    ASSUME NEW m \in ReadyMsgs
    PROVE  Sized(ReadyMessage_Marshal(m), ReadyMessage_Size(m))
<1>1. PICK f1, n1 : f1 = BytesField(1, m.SenderID) /\ n1 = BytesSize(m.SenderID) /\ Sized(f1, n1)
  <2>1. m.SenderID \in ByteSeqs /\ 1 \in Nums
    BY DEF ReadyMsgs, Nums
  <2> QED
    BY <2>1, BytesFieldIs
<1> QED
  BY <1>1 DEF ReadyMessage_Marshal, ReadyMessage_Size

LEMMA AnnounceMessageIs ==
    ASSUME NEW m \in AnnounceMsgs
    PROVE  Sized(AnnounceMessage_Marshal(m), AnnounceMessage_Size(m))
<1>1. PICK f1, n1 : f1 = BytesField(1, m.SenderID) /\ n1 = BytesSize(m.SenderID) /\ Sized(f1, n1)
  <2>1. m.SenderID \in ByteSeqs /\ 1 \in Nums
    BY DEF AnnounceMsgs, Nums
  <2> QED
    BY <2>1, BytesFieldIs
<1> QED
  BY <1>1 DEF AnnounceMessage_Marshal, AnnounceMessage_Size

LEMMA TSSProtocolMessageIs ==
    ASSUME NEW m \in TSSMsgs
    PROVE  Sized(TSSProtocolMessage_Marshal(m), TSSProtocolMessage_Size(m))
<1>1. PICK f1, n1 : f1 = BytesField(1, m.SenderID) /\ n1 = BytesSize(m.SenderID) /\ Sized(f1, n1)
  <2>1. m.SenderID \in ByteSeqs /\ 1 \in Nums
    BY DEF TSSMsgs, Nums
  <2> QED
    BY <2>1, BytesFieldIs
<1>2. PICK f2, n2 : f2 = BytesField(2, m.Payload) /\ n2 = BytesSize(m.Payload) /\ Sized(f2, n2)
  <2>1. m.Payload \in ByteSeqs /\ 2 \in Nums
    BY DEF TSSMsgs, Nums
  <2> QED
    BY <2>1, BytesFieldIs
<1>3. PICK f3, n3 : f3 = BoolField(3, m.IsBroadcast) /\ n3 = BoolSize(m.IsBroadcast) /\ Sized(f3, n3)
  <2>1. m.IsBroadcast \in BOOLEAN /\ 3 \in Nums
    BY DEF TSSMsgs, Nums
  <2> QED
    BY <2>1, BoolFieldIs
<1>4. PICK f4, n4 : f4 = BytesField(4, m.SessionID) /\ n4 = BytesSize(m.SessionID) /\ Sized(f4, n4)
  <2>1. m.SessionID \in ByteSeqs /\ 4 \in Nums
    BY DEF TSSMsgs, Nums
  <2> QED
    BY <2>1, BytesFieldIs
<1>5. Sized(f1 \o f2, n1 + n2)
  BY <1>2, <1>1, SizedConcat
<1>6. Sized(((f1 \o f2) \o f3), ((n1 + n2) + n3))
  BY <1>3, <1>5, SizedConcat
<1>7. Sized(((f1 \o f2) \o f3) \o f4, ((n1 + n2) + n3) + n4)
  BY <1>4, <1>6, SizedConcat
<1> QED
  BY <1>1, <1>2, <1>3, <1>4, <1>7, Zenon DEF TSSProtocolMessage_Marshal, TSSProtocolMessage_Size

LEMMA RecoveryMessageIs ==
    ASSUME NEW m \in RecoveryMsgs
    PROVE  Sized(RecoveryMessage_Marshal(m), RecoveryMessage_Size(m))
<1>1. PICK f1, n1 : f1 = BytesField(1, m.SenderID) /\ n1 = BytesSize(m.SenderID) /\ Sized(f1, n1)
  <2>1. m.SenderID \in ByteSeqs /\ 1 \in Nums
    BY DEF RecoveryMsgs, Nums
  <2> QED
    BY <2>1, BytesFieldIs
<1>2. PICK f2, n2 : f2 = BytesField(2, m.BtcRecoveryAddress) /\ n2 = BytesSize(m.BtcRecoveryAddress) /\ Sized(f2, n2)
  <2>1. m.BtcRecoveryAddress \in ByteSeqs /\ 2 \in Nums
    BY DEF RecoveryMsgs, Nums
  <2> QED
    BY <2>1, BytesFieldIs
<1>3. PICK f3, n3 : f3 = IntField(3, m.MaxFeePerVByte) /\ n3 = IntSize(m.MaxFeePerVByte) /\ Sized(f3, n3)
  <2>1. m.MaxFeePerVByte \in Int /\ 3 \in Nums
    BY DEF RecoveryMsgs, Nums
  <2> QED
    BY <2>1, IntFieldIs
<1>4. Sized(f1 \o f2, n1 + n2)
  BY <1>2, <1>1, SizedConcat
<1>5. Sized((f1 \o f2) \o f3, (n1 + n2) + n3)
  BY <1>3, <1>4, SizedConcat
<1> QED
  BY <1>1, <1>2, <1>3, <1>5, Zenon DEF RecoveryMessage_Marshal, RecoveryMessage_Size

LEMMA GroupInfoIs ==
    ASSUME NEW m \in GroupInfos
    PROVE  Sized(GroupInfo_Marshal(m), GroupInfo_Size(m))
<1>1. PICK f1, n1 : f1 = BytesField(1, m.GroupID) /\ n1 = BytesSize(m.GroupID) /\ Sized(f1, n1)
  <2>1. m.GroupID \in ByteSeqs /\ 1 \in Nums
    BY DEF GroupInfos, Nums
  <2> QED
    BY <2>1, BytesFieldIs
<1>2. PICK f2, n2 : f2 = BytesField(2, m.MemberID) /\ n2 = BytesSize(m.MemberID) /\ Sized(f2, n2)
  <2>1. m.MemberID \in ByteSeqs /\ 2 \in Nums
    BY DEF GroupInfos, Nums
  <2> QED
    BY <2>1, BytesFieldIs
<1>3. PICK f3, n3 : f3 = ListField(3, m.GroupMemberIDs) /\ n3 = ListSize(Lengths(m.GroupMemberIDs)) /\ Sized(f3, n3)
  <2>1. m.GroupMemberIDs \in Seq(ByteSeqs) /\ 3 \in Nums
    BY DEF GroupInfos, Nums
  <2> QED
    BY <2>1, ListFieldIs
<1>4. PICK f4, n4 : f4 = IntField(4, m.DishonestThreshold) /\ n4 = IntSize(m.DishonestThreshold) /\ Sized(f4, n4)
  <2>1. m.DishonestThreshold \in Int /\ 4 \in Nums
    BY DEF GroupInfos, Nums
  <2> QED
    BY <2>1, IntFieldIs
<1>5. Sized(f1 \o f2, n1 + n2)
  BY <1>2, <1>1, SizedConcat
<1>6. Sized(((f1 \o f2) \o f3), ((n1 + n2) + n3))
  BY <1>3, <1>5, SizedConcat
<1>7. Sized(((f1 \o f2) \o f3) \o f4, ((n1 + n2) + n3) + n4)
  BY <1>4, <1>6, SizedConcat
<1> QED
  BY <1>1, <1>2, <1>3, <1>4, <1>7, Zenon DEF GroupInfo_Marshal, GroupInfo_Size

LEMMA GroupInfoListIs ==
    ASSUME NEW num \in Nums, NEW list \in Seq(GroupInfos)
    PROVE  Sized(ListField(num, Each(GroupInfo_Marshal, list)), ListSize(Each(GroupInfo_Size, list)))
<1>1. PICK n \in Nat : n = Len(list) /\ DOMAIN list = 1..n /\ list \in [1..n -> GroupInfos]
  BY LenProperties
<1>2. PICK contents : contents = Each(GroupInfo_Marshal, list)
  OBVIOUS
<1>3. contents = [i \in 1..n |-> GroupInfo_Marshal(list[i])]
  BY <1>1, <1>2 DEF Each
<1>4. contents \in Seq(ByteSeqs)
  BY <1>1, <1>3, GroupInfoIs DEF Sized
<1>5. Lengths(contents) = Each(GroupInfo_Size, list)
  <2>1. DOMAIN contents = 1..n /\ \A i \in 1..n : Len(contents[i]) = GroupInfo_Size(list[i])
    BY <1>1, <1>3, GroupInfoIs DEF Sized
  <2> QED
    BY <1>1, <2>1 DEF Lengths, Each
<1> QED
  BY <1>2, <1>4, <1>5, ListFieldIs

LEMMA ThresholdSignerIs ==
    ASSUME NEW m \in SignerMsgs
    PROVE  Sized(ThresholdSigner_Marshal(m), ThresholdSigner_Size(m))
<1>1. PICK f1, n1 : f1 = ListField(1, Each(GroupInfo_Marshal, m.GroupInfo)) /\ n1 = ListSize(Each(GroupInfo_Size, m.GroupInfo)) /\ Sized(f1, n1)
  <2>1. m.GroupInfo \in Seq(GroupInfos) /\ 1 \in Nums
    BY DEF SignerMsgs, Nums
  <2> QED
    BY <2>1, GroupInfoListIs
<1>2. PICK f2, n2 : f2 = BytesField(2, m.ThresholdKey) /\ n2 = BytesSize(m.ThresholdKey) /\ Sized(f2, n2)
  <2>1. m.ThresholdKey \in ByteSeqs /\ 2 \in Nums
    BY DEF SignerMsgs, Nums
  <2> QED
    BY <2>1, BytesFieldIs
<1>3. Sized(f1 \o f2, n1 + n2)
  BY <1>2, <1>1, SizedConcat
<1> QED
  BY <1>1, <1>2, <1>3, Zenon DEF ThresholdSigner_Marshal, ThresholdSigner_Size

LEMMA PrivateKeyIs ==
    ASSUME NEW m \in PrivateKeys
    PROVE  Sized(PrivateKey_Marshal(m), PrivateKey_Size(m))
<1>1. PICK f1, n1 : f1 = BytesField(1, m.PublicKey) /\ n1 = BytesSize(m.PublicKey) /\ Sized(f1, n1)
  <2>1. m.PublicKey \in ByteSeqs /\ 1 \in Nums
    BY DEF PrivateKeys, Nums
  <2> QED
    BY <2>1, BytesFieldIs
<1>2. PICK f2, n2 : f2 = BytesField(2, m.LambdaN) /\ n2 = BytesSize(m.LambdaN) /\ Sized(f2, n2)
  <2>1. m.LambdaN \in ByteSeqs /\ 2 \in Nums
    BY DEF PrivateKeys, Nums
  <2> QED
    BY <2>1, BytesFieldIs
<1>3. PICK f3, n3 : f3 = BytesField(3, m.PhiN) /\ n3 = BytesSize(m.PhiN) /\ Sized(f3, n3)
  <2>1. m.PhiN \in ByteSeqs /\ 3 \in Nums
    BY DEF PrivateKeys, Nums
  <2> QED
    BY <2>1, BytesFieldIs
<1>4. Sized(f1 \o f2, n1 + n2)
  BY <1>2, <1>1, SizedConcat
<1>5. Sized((f1 \o f2) \o f3, (n1 + n2) + n3)
  BY <1>3, <1>4, SizedConcat
<1> QED
  BY <1>1, <1>2, <1>3, <1>5, Zenon DEF PrivateKey_Marshal, PrivateKey_Size

LEMMA PrivateKeyListIs ==
    ASSUME NEW num \in Nums, NEW list \in Seq(PrivateKeys)
    PROVE  Sized(ListField(num, Each(PrivateKey_Marshal, list)), ListSize(Each(PrivateKey_Size, list)))
<1>1. PICK n \in Nat : n = Len(list) /\ DOMAIN list = 1..n /\ list \in [1..n -> PrivateKeys]
  BY LenProperties
<1>2. PICK contents : contents = Each(PrivateKey_Marshal, list)
  OBVIOUS
<1>3. contents = [i \in 1..n |-> PrivateKey_Marshal(list[i])]
  BY <1>1, <1>2 DEF Each
<1>4. contents \in Seq(ByteSeqs)
  BY <1>1, <1>3, PrivateKeyIs DEF Sized
<1>5. Lengths(contents) = Each(PrivateKey_Size, list)
  <2>1. DOMAIN contents = 1..n /\ \A i \in 1..n : Len(contents[i]) = PrivateKey_Size(list[i])
    BY <1>1, <1>3, PrivateKeyIs DEF Sized
  <2> QED
    BY <1>1, <2>1 DEF Lengths, Each
<1> QED
  BY <1>2, <1>4, <1>5, ListFieldIs

LEMMA LocalPreParamsIs ==
    ASSUME NEW m \in PreParams
    PROVE  Sized(LocalPreParams_Marshal(m), LocalPreParams_Size(m))
<1>1. PICK f1, n1 : f1 = ListField(1, Each(PrivateKey_Marshal, m.PaillierSK)) /\ n1 = ListSize(Each(PrivateKey_Size, m.PaillierSK)) /\ Sized(f1, n1)
  <2>1. m.PaillierSK \in Seq(PrivateKeys) /\ 1 \in Nums
    BY DEF PreParams, Nums
  <2> QED
    BY <2>1, PrivateKeyListIs
<1>2. PICK f2, n2 : f2 = BytesField(2, m.NTilde) /\ n2 = BytesSize(m.NTilde) /\ Sized(f2, n2)
  <2>1. m.NTilde \in ByteSeqs /\ 2 \in Nums
    BY DEF PreParams, Nums
  <2> QED
    BY <2>1, BytesFieldIs
<1>3. PICK f3, n3 : f3 = BytesField(3, m.H1I) /\ n3 = BytesSize(m.H1I) /\ Sized(f3, n3)
  <2>1. m.H1I \in ByteSeqs /\ 3 \in Nums
    BY DEF PreParams, Nums
  <2> QED
    BY <2>1, BytesFieldIs
<1>4. PICK f4, n4 : f4 = BytesField(4, m.H2I) /\ n4 = BytesSize(m.H2I) /\ Sized(f4, n4)
  <2>1. m.H2I \in ByteSeqs /\ 4 \in Nums
    BY DEF PreParams, Nums
  <2> QED
    BY <2>1, BytesFieldIs
<1>5. PICK f5, n5 : f5 = BytesField(5, m.Alpha) /\ n5 = BytesSize(m.Alpha) /\ Sized(f5, n5)
  <2>1. m.Alpha \in ByteSeqs /\ 5 \in Nums
    BY DEF PreParams, Nums
  <2> QED
    BY <2>1, BytesFieldIs
<1>6. PICK f6, n6 : f6 = BytesField(6, m.Beta) /\ n6 = BytesSize(m.Beta) /\ Sized(f6, n6)
  <2>1. m.Beta \in ByteSeqs /\ 6 \in Nums
    BY DEF PreParams, Nums
  <2> QED
    BY <2>1, BytesFieldIs
<1>7. PICK f7, n7 : f7 = BytesField(7, m.P) /\ n7 = BytesSize(m.P) /\ Sized(f7, n7)
  <2>1. m.P \in ByteSeqs /\ 7 \in Nums
    BY DEF PreParams, Nums
  <2> QED
    BY <2>1, BytesFieldIs
<1>8. PICK f8, n8 : f8 = BytesField(8, m.Q) /\ n8 = BytesSize(m.Q) /\ Sized(f8, n8)
  <2>1. m.Q \in ByteSeqs /\ 8 \in Nums
    BY DEF PreParams, Nums
  <2> QED
    BY <2>1, BytesFieldIs
<1>9. Sized(f1 \o f2, n1 + n2)
  BY <1>2, <1>1, SizedConcat
<1>10. Sized(((f1 \o f2) \o f3), ((n1 + n2) + n3))
  BY <1>3, <1>9, SizedConcat
<1>11. Sized((((f1 \o f2) \o f3) \o f4), (((n1 + n2) + n3) + n4))
  BY <1>4, <1>10, SizedConcat
<1>12. Sized(((((f1 \o f2) \o f3) \o f4) \o f5), ((((n1 + n2) + n3) + n4) + n5))
  BY <1>5, <1>11, SizedConcat
<1>13. Sized((((((f1 \o f2) \o f3) \o f4) \o f5) \o f6), (((((n1 + n2) + n3) + n4) + n5) + n6))
  BY <1>6, <1>12, SizedConcat
<1>14. Sized(((((((f1 \o f2) \o f3) \o f4) \o f5) \o f6) \o f7), ((((((n1 + n2) + n3) + n4) + n5) + n6) + n7))
  BY <1>7, <1>13, SizedConcat
<1>15. Sized(((((((f1 \o f2) \o f3) \o f4) \o f5) \o f6) \o f7) \o f8, ((((((n1 + n2) + n3) + n4) + n5) + n6) + n7) + n8)
  BY <1>8, <1>14, SizedConcat
<1> QED
  BY <1>1, <1>2, <1>3, <1>4, <1>5, <1>6, <1>7, <1>8, <1>15, Zenon DEF LocalPreParams_Marshal, LocalPreParams_Size

LEMMA LocalPreParamsListIs ==
    ASSUME NEW num \in Nums, NEW list \in Seq(PreParams)
    PROVE  Sized(ListField(num, Each(LocalPreParams_Marshal, list)), ListSize(Each(LocalPreParams_Size, list)))
<1>1. PICK n \in Nat : n = Len(list) /\ DOMAIN list = 1..n /\ list \in [1..n -> PreParams]
  BY LenProperties
<1>2. PICK contents : contents = Each(LocalPreParams_Marshal, list)
  OBVIOUS
<1>3. contents = [i \in 1..n |-> LocalPreParams_Marshal(list[i])]
  BY <1>1, <1>2 DEF Each
<1>4. contents \in Seq(ByteSeqs)
  BY <1>1, <1>3, LocalPreParamsIs DEF Sized
<1>5. Lengths(contents) = Each(LocalPreParams_Size, list)
  <2>1. DOMAIN contents = 1..n /\ \A i \in 1..n : Len(contents[i]) = LocalPreParams_Size(list[i])
    BY <1>1, <1>3, LocalPreParamsIs DEF Sized
  <2> QED
    BY <1>1, <2>1 DEF Lengths, Each
<1> QED
  BY <1>2, <1>4, <1>5, ListFieldIs

LEMMA LocalSecretsIs ==
    ASSUME NEW m \in Secrets
    PROVE  Sized(LocalSecrets_Marshal(m), LocalSecrets_Size(m))
<1>1. PICK f1, n1 : f1 = BytesField(1, m.Xi) /\ n1 = BytesSize(m.Xi) /\ Sized(f1, n1)
  <2>1. m.Xi \in ByteSeqs /\ 1 \in Nums
    BY DEF Secrets, Nums
  <2> QED
    BY <2>1, BytesFieldIs
<1>2. PICK f2, n2 : f2 = BytesField(2, m.ShareID) /\ n2 = BytesSize(m.ShareID) /\ Sized(f2, n2)
  <2>1. m.ShareID \in ByteSeqs /\ 2 \in Nums
    BY DEF Secrets, Nums
  <2> QED
    BY <2>1, BytesFieldIs
<1>3. Sized(f1 \o f2, n1 + n2)
  BY <1>2, <1>1, SizedConcat
<1> QED
  BY <1>1, <1>2, <1>3, Zenon DEF LocalSecrets_Marshal, LocalSecrets_Size

LEMMA LocalSecretsListIs ==
    ASSUME NEW num \in Nums, NEW list \in Seq(Secrets)
    PROVE  Sized(ListField(num, Each(LocalSecrets_Marshal, list)), ListSize(Each(LocalSecrets_Size, list)))
<1>1. PICK n \in Nat : n = Len(list) /\ DOMAIN list = 1..n /\ list \in [1..n -> Secrets]
  BY LenProperties
<1>2. PICK contents : contents = Each(LocalSecrets_Marshal, list)
  OBVIOUS
<1>3. contents = [i \in 1..n |-> LocalSecrets_Marshal(list[i])]
  BY <1>1, <1>2 DEF Each
<1>4. contents \in Seq(ByteSeqs)
  BY <1>1, <1>3, LocalSecretsIs DEF Sized
<1>5. Lengths(contents) = Each(LocalSecrets_Size, list)
  <2>1. DOMAIN contents = 1..n /\ \A i \in 1..n : Len(contents[i]) = LocalSecrets_Size(list[i])
    BY <1>1, <1>3, LocalSecretsIs DEF Sized
  <2> QED
    BY <1>1, <2>1 DEF Lengths, Each
<1> QED
  BY <1>2, <1>4, <1>5, ListFieldIs

LEMMA ECPointIs ==
    ASSUME NEW m \in ECPoints
    PROVE  Sized(ECPoint_Marshal(m), ECPoint_Size(m))
<1>1. PICK f1, n1 : f1 = BytesField(1, m.X) /\ n1 = BytesSize(m.X) /\ Sized(f1, n1)
  <2>1. m.X \in ByteSeqs /\ 1 \in Nums
    BY DEF ECPoints, Nums
  <2> QED
    BY <2>1, BytesFieldIs
<1>2. PICK f2, n2 : f2 = BytesField(2, m.Y) /\ n2 = BytesSize(m.Y) /\ Sized(f2, n2)
  <2>1. m.Y \in ByteSeqs /\ 2 \in Nums
    BY DEF ECPoints, Nums
  <2> QED
    BY <2>1, BytesFieldIs
<1>3. Sized(f1 \o f2, n1 + n2)
  BY <1>2, <1>1, SizedConcat
<1> QED
  BY <1>1, <1>2, <1>3, Zenon DEF ECPoint_Marshal, ECPoint_Size

LEMMA ECPointListIs ==
    ASSUME NEW num \in Nums, NEW list \in Seq(ECPoints)
    PROVE  Sized(ListField(num, Each(ECPoint_Marshal, list)), ListSize(Each(ECPoint_Size, list)))
<1>1. PICK n \in Nat : n = Len(list) /\ DOMAIN list = 1..n /\ list \in [1..n -> ECPoints]
  BY LenProperties
<1>2. PICK contents : contents = Each(ECPoint_Marshal, list)
  OBVIOUS
<1>3. contents = [i \in 1..n |-> ECPoint_Marshal(list[i])]
  BY <1>1, <1>2 DEF Each
<1>4. contents \in Seq(ByteSeqs)
  BY <1>1, <1>3, ECPointIs DEF Sized
<1>5. Lengths(contents) = Each(ECPoint_Size, list)
  <2>1. DOMAIN contents = 1..n /\ \A i \in 1..n : Len(contents[i]) = ECPoint_Size(list[i])
    BY <1>1, <1>3, ECPointIs DEF Sized
  <2> QED
    BY <1>1, <2>1 DEF Lengths, Each
<1> QED
  BY <1>2, <1>4, <1>5, ListFieldIs

LEMMA LocalPartySaveDataIs ==
    ASSUME NEW m \in SaveData
    PROVE  Sized(LocalPartySaveData_Marshal(m), LocalPartySaveData_Size(m))
<1>1. PICK f1, n1 : f1 = ListField(1, Each(LocalPreParams_Marshal, m.LocalPreParams)) /\ n1 = ListSize(Each(LocalPreParams_Size, m.LocalPreParams)) /\ Sized(f1, n1)
  <2>1. m.LocalPreParams \in Seq(PreParams) /\ 1 \in Nums
    BY DEF SaveData, Nums
  <2> QED
    BY <2>1, LocalPreParamsListIs
<1>2. PICK f2, n2 : f2 = ListField(2, Each(LocalSecrets_Marshal, m.LocalSecrets)) /\ n2 = ListSize(Each(LocalSecrets_Size, m.LocalSecrets)) /\ Sized(f2, n2)
  <2>1. m.LocalSecrets \in Seq(Secrets) /\ 2 \in Nums
    BY DEF SaveData, Nums
  <2> QED
    BY <2>1, LocalSecretsListIs
<1>3. PICK f3, n3 : f3 = ListField(3, m.Ks) /\ n3 = ListSize(Lengths(m.Ks)) /\ Sized(f3, n3)
  <2>1. m.Ks \in Seq(ByteSeqs) /\ 3 \in Nums
    BY DEF SaveData, Nums
  <2> QED
    BY <2>1, ListFieldIs
<1>4. PICK f4, n4 : f4 = ListField(4, m.NTildej) /\ n4 = ListSize(Lengths(m.NTildej)) /\ Sized(f4, n4)
  <2>1. m.NTildej \in Seq(ByteSeqs) /\ 4 \in Nums
    BY DEF SaveData, Nums
  <2> QED
    BY <2>1, ListFieldIs
<1>5. PICK f5, n5 : f5 = ListField(5, m.H1J) /\ n5 = ListSize(Lengths(m.H1J)) /\ Sized(f5, n5)
  <2>1. m.H1J \in Seq(ByteSeqs) /\ 5 \in Nums
    BY DEF SaveData, Nums
  <2> QED
    BY <2>1, ListFieldIs
<1>6. PICK f6, n6 : f6 = ListField(6, m.H2J) /\ n6 = ListSize(Lengths(m.H2J)) /\ Sized(f6, n6)
  <2>1. m.H2J \in Seq(ByteSeqs) /\ 6 \in Nums
    BY DEF SaveData, Nums
  <2> QED
    BY <2>1, ListFieldIs
<1>7. PICK f7, n7 : f7 = ListField(7, Each(ECPoint_Marshal, m.BigXj)) /\ n7 = ListSize(Each(ECPoint_Size, m.BigXj)) /\ Sized(f7, n7)
  <2>1. m.BigXj \in Seq(ECPoints) /\ 7 \in Nums
    BY DEF SaveData, Nums
  <2> QED
    BY <2>1, ECPointListIs
<1>8. PICK f8, n8 : f8 = ListField(8, m.PaillierPKs) /\ n8 = ListSize(Lengths(m.PaillierPKs)) /\ Sized(f8, n8)
  <2>1. m.PaillierPKs \in Seq(ByteSeqs) /\ 8 \in Nums
    BY DEF SaveData, Nums
  <2> QED
    BY <2>1, ListFieldIs
<1>9. PICK f9, n9 : f9 = ListField(9, Each(ECPoint_Marshal, m.EcdsaPub)) /\ n9 = ListSize(Each(ECPoint_Size, m.EcdsaPub)) /\ Sized(f9, n9)
  <2>1. m.EcdsaPub \in Seq(ECPoints) /\ 9 \in Nums
    BY DEF SaveData, Nums
  <2> QED
    BY <2>1, ECPointListIs
<1>10. Sized(f1 \o f2, n1 + n2)
  BY <1>2, <1>1, SizedConcat
<1>11. Sized(((f1 \o f2) \o f3), ((n1 + n2) + n3))
  BY <1>3, <1>10, SizedConcat
<1>12. Sized((((f1 \o f2) \o f3) \o f4), (((n1 + n2) + n3) + n4))
  BY <1>4, <1>11, SizedConcat
<1>13. Sized(((((f1 \o f2) \o f3) \o f4) \o f5), ((((n1 + n2) + n3) + n4) + n5))
  BY <1>5, <1>12, SizedConcat
<1>14. Sized((((((f1 \o f2) \o f3) \o f4) \o f5) \o f6), (((((n1 + n2) + n3) + n4) + n5) + n6))
  BY <1>6, <1>13, SizedConcat
<1>15. Sized(((((((f1 \o f2) \o f3) \o f4) \o f5) \o f6) \o f7), ((((((n1 + n2) + n3) + n4) + n5) + n6) + n7))
  BY <1>7, <1>14, SizedConcat
<1>16. Sized((((((((f1 \o f2) \o f3) \o f4) \o f5) \o f6) \o f7) \o f8), (((((((n1 + n2) + n3) + n4) + n5) + n6) + n7) + n8))
  BY <1>8, <1>15, SizedConcat
<1>17. Sized((((((((f1 \o f2) \o f3) \o f4) \o f5) \o f6) \o f7) \o f8) \o f9, (((((((n1 + n2) + n3) + n4) + n5) + n6) + n7) + n8) + n9)
  BY <1>9, <1>16, SizedConcat
<1> QED
  BY <1>1, <1>2, <1>3, <1>4, <1>5, <1>6, <1>7, <1>8, <1>9, <1>17, Zenon DEF LocalPartySaveData_Marshal, LocalPartySaveData_Size

-----------------------------------------------------------------------------
(* The tables of fields: what a field holds, and that setting it leaves a   *)
(* message of its type.                                                    *)

MsgOf ==
    [ReadyMessage |-> ReadyMsgs,
     AnnounceMessage |-> AnnounceMsgs,
     TSSProtocolMessage |-> TSSMsgs,
     RecoveryMessage |-> RecoveryMsgs,
     GroupInfo |-> GroupInfos,
     ThresholdSigner |-> SignerMsgs,
     PrivateKey |-> PrivateKeys,
     LocalPreParams |-> PreParams,
     LocalSecrets |-> Secrets,
     ECPoint |-> ECPoints,
     LocalPartySaveData |-> SaveData]
Kinds == {"ReadyMessage", "AnnounceMessage", "TSSProtocolMessage", "RecoveryMessage", "GroupInfo", "ThresholdSigner", "PrivateKey", "LocalPreParams", "LocalSecrets", "ECPoint", "LocalPartySaveData"}
TypeOf(f) ==
    CASE f.type = "bytes" -> ByteSeqs
      [] f.type = "bool" -> BOOLEAN
      [] f.type = "int32" -> Int
      [] f.type = "list" -> Seq(ByteSeqs)
      [] f.type \in {"message", "messages"} -> Seq(MsgOf[f.of])

\* Field n can be read and set in message m, and its name tells it apart.
Holds(kind, n, m) ==
    LET f == FieldsOf[kind][n] IN
    /\ f.type \in {"bytes", "bool", "int32", "list", "message", "messages"}
    /\ f.type \in {"message", "messages"} => f.of \in Kinds
    /\ f.name \in DOMAIN m /\ m[f.name] \in TypeOf(f)
    /\ \A v \in TypeOf(f) : [m EXCEPT ![f.name] = v] \in MsgOf[kind]
    /\ (CHOOSE g \in Range(FieldsOf[kind]) : g.name = f.name) = f

LEMMA ReadyMessageFields ==
    /\ "ReadyMessage" \in Kinds /\ MsgOf["ReadyMessage"] = ReadyMsgs /\ DOMAIN FieldsOf["ReadyMessage"] = 1..1
    /\ FieldsOf["ReadyMessage"][1] = Bytes("SenderID")
<1>1. "ReadyMessage" \in Kinds /\ MsgOf["ReadyMessage"] = ReadyMsgs
  BY DEF Kinds, MsgOf
<1> QED
  BY <1>1 DEF FieldsOf, ReadyMessage_Unmarshal

LEMMA ReadyMessageHolds ==
    ASSUME NEW n \in 1..1, NEW m \in ReadyMsgs
    PROVE  Holds("ReadyMessage", n, m)
<1>1. CASE n = 1
  <2> DEFINE f == FieldsOf["ReadyMessage"][1]
  <2>1. f = Bytes("SenderID") /\ f.name = "SenderID" /\ f.type = "bytes"
    BY ReadyMessageFields DEF Bytes
  <2>2. TypeOf(f) = ByteSeqs
    BY <2>1 DEF TypeOf
  <2>3. m["SenderID"] \in ByteSeqs /\ "SenderID" \in DOMAIN m
    BY DEF ReadyMsgs
  <2>4. \A v \in ByteSeqs : [m EXCEPT !["SenderID"] = v] \in ReadyMsgs
    BY DEF ReadyMsgs
  <2>5. (CHOOSE g \in Range(FieldsOf["ReadyMessage"]) : g.name = "SenderID") = f
    BY <2>1, ReadyMessageFields DEF Range, Bytes
  <2> QED
    BY <1>1, <2>1, <2>2, <2>3, <2>4, <2>5, ReadyMessageFields DEF Holds
<1> QED
  BY <1>1

LEMMA AnnounceMessageFields ==
    /\ "AnnounceMessage" \in Kinds /\ MsgOf["AnnounceMessage"] = AnnounceMsgs /\ DOMAIN FieldsOf["AnnounceMessage"] = 1..1
    /\ FieldsOf["AnnounceMessage"][1] = Bytes("SenderID")
<1>1. "AnnounceMessage" \in Kinds /\ MsgOf["AnnounceMessage"] = AnnounceMsgs
  BY DEF Kinds, MsgOf
<1> QED
  BY <1>1 DEF FieldsOf, AnnounceMessage_Unmarshal

LEMMA AnnounceMessageHolds ==
    ASSUME NEW n \in 1..1, NEW m \in AnnounceMsgs
    PROVE  Holds("AnnounceMessage", n, m)
<1>1. CASE n = 1
  <2> DEFINE f == FieldsOf["AnnounceMessage"][1]
  <2>1. f = Bytes("SenderID") /\ f.name = "SenderID" /\ f.type = "bytes"
    BY AnnounceMessageFields DEF Bytes
  <2>2. TypeOf(f) = ByteSeqs
    BY <2>1 DEF TypeOf
  <2>3. m["SenderID"] \in ByteSeqs /\ "SenderID" \in DOMAIN m
    BY DEF AnnounceMsgs
  <2>4. \A v \in ByteSeqs : [m EXCEPT !["SenderID"] = v] \in AnnounceMsgs
    BY DEF AnnounceMsgs
  <2>5. (CHOOSE g \in Range(FieldsOf["AnnounceMessage"]) : g.name = "SenderID") = f
    BY <2>1, AnnounceMessageFields DEF Range, Bytes
  <2> QED
    BY <1>1, <2>1, <2>2, <2>3, <2>4, <2>5, AnnounceMessageFields DEF Holds
<1> QED
  BY <1>1

LEMMA TSSProtocolMessageFields ==
    /\ "TSSProtocolMessage" \in Kinds /\ MsgOf["TSSProtocolMessage"] = TSSMsgs /\ DOMAIN FieldsOf["TSSProtocolMessage"] = 1..4
    /\ FieldsOf["TSSProtocolMessage"][1] = Bytes("SenderID")
    /\ FieldsOf["TSSProtocolMessage"][2] = Bytes("Payload")
    /\ FieldsOf["TSSProtocolMessage"][3] = Bool("IsBroadcast")
    /\ FieldsOf["TSSProtocolMessage"][4] = Bytes("SessionID")
<1>1. "TSSProtocolMessage" \in Kinds /\ MsgOf["TSSProtocolMessage"] = TSSMsgs
  BY DEF Kinds, MsgOf
<1> QED
  BY <1>1 DEF FieldsOf, TSSProtocolMessage_Unmarshal

LEMMA TSSProtocolMessageHolds ==
    ASSUME NEW n \in 1..4, NEW m \in TSSMsgs
    PROVE  Holds("TSSProtocolMessage", n, m)
<1>1. CASE n = 1
  <2> DEFINE f == FieldsOf["TSSProtocolMessage"][1]
  <2>1. f = Bytes("SenderID") /\ f.name = "SenderID" /\ f.type = "bytes"
    BY TSSProtocolMessageFields DEF Bytes
  <2>2. TypeOf(f) = ByteSeqs
    BY <2>1 DEF TypeOf
  <2>3. m["SenderID"] \in ByteSeqs /\ "SenderID" \in DOMAIN m
    BY DEF TSSMsgs
  <2>4. \A v \in ByteSeqs : [m EXCEPT !["SenderID"] = v] \in TSSMsgs
    BY DEF TSSMsgs
  <2>5. (CHOOSE g \in Range(FieldsOf["TSSProtocolMessage"]) : g.name = "SenderID") = f
    BY <2>1, TSSProtocolMessageFields DEF Range, Bool, Bytes
  <2> QED
    BY <1>1, <2>1, <2>2, <2>3, <2>4, <2>5, TSSProtocolMessageFields DEF Holds
<1>2. CASE n = 2
  <2> DEFINE f == FieldsOf["TSSProtocolMessage"][2]
  <2>1. f = Bytes("Payload") /\ f.name = "Payload" /\ f.type = "bytes"
    BY TSSProtocolMessageFields DEF Bytes
  <2>2. TypeOf(f) = ByteSeqs
    BY <2>1 DEF TypeOf
  <2>3. m["Payload"] \in ByteSeqs /\ "Payload" \in DOMAIN m
    BY DEF TSSMsgs
  <2>4. \A v \in ByteSeqs : [m EXCEPT !["Payload"] = v] \in TSSMsgs
    BY DEF TSSMsgs
  <2>5. (CHOOSE g \in Range(FieldsOf["TSSProtocolMessage"]) : g.name = "Payload") = f
    BY <2>1, TSSProtocolMessageFields DEF Range, Bool, Bytes
  <2> QED
    BY <1>2, <2>1, <2>2, <2>3, <2>4, <2>5, TSSProtocolMessageFields DEF Holds
<1>3. CASE n = 3
  <2> DEFINE f == FieldsOf["TSSProtocolMessage"][3]
  <2>1. f = Bool("IsBroadcast") /\ f.name = "IsBroadcast" /\ f.type = "bool"
    BY TSSProtocolMessageFields DEF Bool
  <2>2. TypeOf(f) = BOOLEAN
    BY <2>1 DEF TypeOf
  <2>3. m["IsBroadcast"] \in BOOLEAN /\ "IsBroadcast" \in DOMAIN m
    BY DEF TSSMsgs
  <2>4. \A v \in BOOLEAN : [m EXCEPT !["IsBroadcast"] = v] \in TSSMsgs
    BY DEF TSSMsgs
  <2>5. (CHOOSE g \in Range(FieldsOf["TSSProtocolMessage"]) : g.name = "IsBroadcast") = f
    BY <2>1, TSSProtocolMessageFields DEF Range, Bool, Bytes
  <2> QED
    BY <1>3, <2>1, <2>2, <2>3, <2>4, <2>5, TSSProtocolMessageFields DEF Holds
<1>4. CASE n = 4
  <2> DEFINE f == FieldsOf["TSSProtocolMessage"][4]
  <2>1. f = Bytes("SessionID") /\ f.name = "SessionID" /\ f.type = "bytes"
    BY TSSProtocolMessageFields DEF Bytes
  <2>2. TypeOf(f) = ByteSeqs
    BY <2>1 DEF TypeOf
  <2>3. m["SessionID"] \in ByteSeqs /\ "SessionID" \in DOMAIN m
    BY DEF TSSMsgs
  <2>4. \A v \in ByteSeqs : [m EXCEPT !["SessionID"] = v] \in TSSMsgs
    BY DEF TSSMsgs
  <2>5. (CHOOSE g \in Range(FieldsOf["TSSProtocolMessage"]) : g.name = "SessionID") = f
    BY <2>1, TSSProtocolMessageFields DEF Range, Bool, Bytes
  <2> QED
    BY <1>4, <2>1, <2>2, <2>3, <2>4, <2>5, TSSProtocolMessageFields DEF Holds
<1> QED
  BY <1>1, <1>2, <1>3, <1>4

LEMMA RecoveryMessageFields ==
    /\ "RecoveryMessage" \in Kinds /\ MsgOf["RecoveryMessage"] = RecoveryMsgs /\ DOMAIN FieldsOf["RecoveryMessage"] = 1..3
    /\ FieldsOf["RecoveryMessage"][1] = Bytes("SenderID")
    /\ FieldsOf["RecoveryMessage"][2] = Bytes("BtcRecoveryAddress")
    /\ FieldsOf["RecoveryMessage"][3] = Int32("MaxFeePerVByte")
<1>1. "RecoveryMessage" \in Kinds /\ MsgOf["RecoveryMessage"] = RecoveryMsgs
  BY DEF Kinds, MsgOf
<1> QED
  BY <1>1 DEF FieldsOf, RecoveryMessage_Unmarshal

LEMMA RecoveryMessageHolds ==
    ASSUME NEW n \in 1..3, NEW m \in RecoveryMsgs
    PROVE  Holds("RecoveryMessage", n, m)
<1>1. CASE n = 1
  <2> DEFINE f == FieldsOf["RecoveryMessage"][1]
  <2>1. f = Bytes("SenderID") /\ f.name = "SenderID" /\ f.type = "bytes"
    BY RecoveryMessageFields DEF Bytes
  <2>2. TypeOf(f) = ByteSeqs
    BY <2>1 DEF TypeOf
  <2>3. m["SenderID"] \in ByteSeqs /\ "SenderID" \in DOMAIN m
    BY DEF RecoveryMsgs
  <2>4. \A v \in ByteSeqs : [m EXCEPT !["SenderID"] = v] \in RecoveryMsgs
    BY DEF RecoveryMsgs
  <2>5. (CHOOSE g \in Range(FieldsOf["RecoveryMessage"]) : g.name = "SenderID") = f
    BY <2>1, RecoveryMessageFields DEF Range, Bytes, Int32
  <2> QED
    BY <1>1, <2>1, <2>2, <2>3, <2>4, <2>5, RecoveryMessageFields DEF Holds
<1>2. CASE n = 2
  <2> DEFINE f == FieldsOf["RecoveryMessage"][2]
  <2>1. f = Bytes("BtcRecoveryAddress") /\ f.name = "BtcRecoveryAddress" /\ f.type = "bytes"
    BY RecoveryMessageFields DEF Bytes
  <2>2. TypeOf(f) = ByteSeqs
    BY <2>1 DEF TypeOf
  <2>3. m["BtcRecoveryAddress"] \in ByteSeqs /\ "BtcRecoveryAddress" \in DOMAIN m
    BY DEF RecoveryMsgs
  <2>4. \A v \in ByteSeqs : [m EXCEPT !["BtcRecoveryAddress"] = v] \in RecoveryMsgs
    BY DEF RecoveryMsgs
  <2>5. (CHOOSE g \in Range(FieldsOf["RecoveryMessage"]) : g.name = "BtcRecoveryAddress") = f
    BY <2>1, RecoveryMessageFields DEF Range, Bytes, Int32
  <2> QED
    BY <1>2, <2>1, <2>2, <2>3, <2>4, <2>5, RecoveryMessageFields DEF Holds
<1>3. CASE n = 3
  <2> DEFINE f == FieldsOf["RecoveryMessage"][3]
  <2>1. f = Int32("MaxFeePerVByte") /\ f.name = "MaxFeePerVByte" /\ f.type = "int32"
    BY RecoveryMessageFields DEF Int32
  <2>2. TypeOf(f) = Int
    BY <2>1 DEF TypeOf
  <2>3. m["MaxFeePerVByte"] \in Int /\ "MaxFeePerVByte" \in DOMAIN m
    BY DEF RecoveryMsgs
  <2>4. \A v \in Int : [m EXCEPT !["MaxFeePerVByte"] = v] \in RecoveryMsgs
    BY DEF RecoveryMsgs
  <2>5. (CHOOSE g \in Range(FieldsOf["RecoveryMessage"]) : g.name = "MaxFeePerVByte") = f
    BY <2>1, RecoveryMessageFields DEF Range, Bytes, Int32
  <2> QED
    BY <1>3, <2>1, <2>2, <2>3, <2>4, <2>5, RecoveryMessageFields DEF Holds
<1> QED
  BY <1>1, <1>2, <1>3

LEMMA GroupInfoFields ==
    /\ "GroupInfo" \in Kinds /\ MsgOf["GroupInfo"] = GroupInfos /\ DOMAIN FieldsOf["GroupInfo"] = 1..4
    /\ FieldsOf["GroupInfo"][1] = Bytes("GroupID")
    /\ FieldsOf["GroupInfo"][2] = Bytes("MemberID")
    /\ FieldsOf["GroupInfo"][3] = BytesList("GroupMemberIDs")
    /\ FieldsOf["GroupInfo"][4] = Int32("DishonestThreshold")
<1>1. "GroupInfo" \in Kinds /\ MsgOf["GroupInfo"] = GroupInfos
  BY DEF Kinds, MsgOf
<1> QED
  BY <1>1 DEF FieldsOf, GroupInfo_Unmarshal

LEMMA GroupInfoHolds ==
    ASSUME NEW n \in 1..4, NEW m \in GroupInfos
    PROVE  Holds("GroupInfo", n, m)
<1>1. CASE n = 1
  <2> DEFINE f == FieldsOf["GroupInfo"][1]
  <2>1. f = Bytes("GroupID") /\ f.name = "GroupID" /\ f.type = "bytes"
    BY GroupInfoFields DEF Bytes
  <2>2. TypeOf(f) = ByteSeqs
    BY <2>1 DEF TypeOf
  <2>3. m["GroupID"] \in ByteSeqs /\ "GroupID" \in DOMAIN m
    BY DEF GroupInfos
  <2>4. \A v \in ByteSeqs : [m EXCEPT !["GroupID"] = v] \in GroupInfos
    BY DEF GroupInfos
  <2>5. (CHOOSE g \in Range(FieldsOf["GroupInfo"]) : g.name = "GroupID") = f
    BY <2>1, GroupInfoFields DEF Range, Bytes, BytesList, Int32
  <2> QED
    BY <1>1, <2>1, <2>2, <2>3, <2>4, <2>5, GroupInfoFields DEF Holds
<1>2. CASE n = 2
  <2> DEFINE f == FieldsOf["GroupInfo"][2]
  <2>1. f = Bytes("MemberID") /\ f.name = "MemberID" /\ f.type = "bytes"
    BY GroupInfoFields DEF Bytes
  <2>2. TypeOf(f) = ByteSeqs
    BY <2>1 DEF TypeOf
  <2>3. m["MemberID"] \in ByteSeqs /\ "MemberID" \in DOMAIN m
    BY DEF GroupInfos
  <2>4. \A v \in ByteSeqs : [m EXCEPT !["MemberID"] = v] \in GroupInfos
    BY DEF GroupInfos
  <2>5. (CHOOSE g \in Range(FieldsOf["GroupInfo"]) : g.name = "MemberID") = f
    BY <2>1, GroupInfoFields DEF Range, Bytes, BytesList, Int32
  <2> QED
    BY <1>2, <2>1, <2>2, <2>3, <2>4, <2>5, GroupInfoFields DEF Holds
<1>3. CASE n = 3
  <2> DEFINE f == FieldsOf["GroupInfo"][3]
  <2>1. f = BytesList("GroupMemberIDs") /\ f.name = "GroupMemberIDs" /\ f.type = "list"
    BY GroupInfoFields DEF BytesList
  <2>2. TypeOf(f) = Seq(ByteSeqs)
    BY <2>1 DEF TypeOf
  <2>3. m["GroupMemberIDs"] \in Seq(ByteSeqs) /\ "GroupMemberIDs" \in DOMAIN m
    BY DEF GroupInfos
  <2>4. \A v \in Seq(ByteSeqs) : [m EXCEPT !["GroupMemberIDs"] = v] \in GroupInfos
    BY DEF GroupInfos
  <2>5. (CHOOSE g \in Range(FieldsOf["GroupInfo"]) : g.name = "GroupMemberIDs") = f
    BY <2>1, GroupInfoFields DEF Range, Bytes, BytesList, Int32
  <2> QED
    BY <1>3, <2>1, <2>2, <2>3, <2>4, <2>5, GroupInfoFields DEF Holds
<1>4. CASE n = 4
  <2> DEFINE f == FieldsOf["GroupInfo"][4]
  <2>1. f = Int32("DishonestThreshold") /\ f.name = "DishonestThreshold" /\ f.type = "int32"
    BY GroupInfoFields DEF Int32
  <2>2. TypeOf(f) = Int
    BY <2>1 DEF TypeOf
  <2>3. m["DishonestThreshold"] \in Int /\ "DishonestThreshold" \in DOMAIN m
    BY DEF GroupInfos
  <2>4. \A v \in Int : [m EXCEPT !["DishonestThreshold"] = v] \in GroupInfos
    BY DEF GroupInfos
  <2>5. (CHOOSE g \in Range(FieldsOf["GroupInfo"]) : g.name = "DishonestThreshold") = f
    BY <2>1, GroupInfoFields DEF Range, Bytes, BytesList, Int32
  <2> QED
    BY <1>4, <2>1, <2>2, <2>3, <2>4, <2>5, GroupInfoFields DEF Holds
<1> QED
  BY <1>1, <1>2, <1>3, <1>4

LEMMA ThresholdSignerFields ==
    /\ "ThresholdSigner" \in Kinds /\ MsgOf["ThresholdSigner"] = SignerMsgs /\ DOMAIN FieldsOf["ThresholdSigner"] = 1..2
    /\ FieldsOf["ThresholdSigner"][1] = Message("GroupInfo", "GroupInfo")
    /\ FieldsOf["ThresholdSigner"][2] = Bytes("ThresholdKey")
<1>1. "ThresholdSigner" \in Kinds /\ MsgOf["ThresholdSigner"] = SignerMsgs
  BY DEF Kinds, MsgOf
<1> QED
  BY <1>1 DEF FieldsOf, ThresholdSigner_Unmarshal

LEMMA ThresholdSignerHolds ==
    ASSUME NEW n \in 1..2, NEW m \in SignerMsgs
    PROVE  Holds("ThresholdSigner", n, m)
<1>1. CASE n = 1
  <2> DEFINE f == FieldsOf["ThresholdSigner"][1]
  <2>1. f = Message("GroupInfo", "GroupInfo") /\ f.name = "GroupInfo" /\ f.type = "message" /\ f.of = "GroupInfo"
    BY ThresholdSignerFields DEF Message
  <2>2. TypeOf(f) = Seq(GroupInfos)
    BY <2>1, GroupInfoFields DEF TypeOf
  <2>3. m["GroupInfo"] \in Seq(GroupInfos) /\ "GroupInfo" \in DOMAIN m
    BY DEF SignerMsgs
  <2>4. \A v \in Seq(GroupInfos) : [m EXCEPT !["GroupInfo"] = v] \in SignerMsgs
    BY DEF SignerMsgs
  <2>5. (CHOOSE g \in Range(FieldsOf["ThresholdSigner"]) : g.name = "GroupInfo") = f
    BY <2>1, ThresholdSignerFields DEF Range, Bytes, Message
  <2> QED
    BY <1>1, <2>1, <2>2, <2>3, <2>4, <2>5, ThresholdSignerFields, GroupInfoFields DEF Holds
<1>2. CASE n = 2
  <2> DEFINE f == FieldsOf["ThresholdSigner"][2]
  <2>1. f = Bytes("ThresholdKey") /\ f.name = "ThresholdKey" /\ f.type = "bytes"
    BY ThresholdSignerFields DEF Bytes
  <2>2. TypeOf(f) = ByteSeqs
    BY <2>1 DEF TypeOf
  <2>3. m["ThresholdKey"] \in ByteSeqs /\ "ThresholdKey" \in DOMAIN m
    BY DEF SignerMsgs
  <2>4. \A v \in ByteSeqs : [m EXCEPT !["ThresholdKey"] = v] \in SignerMsgs
    BY DEF SignerMsgs
  <2>5. (CHOOSE g \in Range(FieldsOf["ThresholdSigner"]) : g.name = "ThresholdKey") = f
    BY <2>1, ThresholdSignerFields DEF Range, Bytes, Message
  <2> QED
    BY <1>2, <2>1, <2>2, <2>3, <2>4, <2>5, ThresholdSignerFields DEF Holds
<1> QED
  BY <1>1, <1>2

LEMMA PrivateKeyFields ==
    /\ "PrivateKey" \in Kinds /\ MsgOf["PrivateKey"] = PrivateKeys /\ DOMAIN FieldsOf["PrivateKey"] = 1..3
    /\ FieldsOf["PrivateKey"][1] = Bytes("PublicKey")
    /\ FieldsOf["PrivateKey"][2] = Bytes("LambdaN")
    /\ FieldsOf["PrivateKey"][3] = Bytes("PhiN")
<1>1. "PrivateKey" \in Kinds /\ MsgOf["PrivateKey"] = PrivateKeys
  BY DEF Kinds, MsgOf
<1> QED
  BY <1>1 DEF FieldsOf, PrivateKey_Unmarshal

LEMMA PrivateKeyHolds ==
    ASSUME NEW n \in 1..3, NEW m \in PrivateKeys
    PROVE  Holds("PrivateKey", n, m)
<1>1. CASE n = 1
  <2> DEFINE f == FieldsOf["PrivateKey"][1]
  <2>1. f = Bytes("PublicKey") /\ f.name = "PublicKey" /\ f.type = "bytes"
    BY PrivateKeyFields DEF Bytes
  <2>2. TypeOf(f) = ByteSeqs
    BY <2>1 DEF TypeOf
  <2>3. m["PublicKey"] \in ByteSeqs /\ "PublicKey" \in DOMAIN m
    BY DEF PrivateKeys
  <2>4. \A v \in ByteSeqs : [m EXCEPT !["PublicKey"] = v] \in PrivateKeys
    BY DEF PrivateKeys
  <2>5. (CHOOSE g \in Range(FieldsOf["PrivateKey"]) : g.name = "PublicKey") = f
    BY <2>1, PrivateKeyFields DEF Range, Bytes
  <2> QED
    BY <1>1, <2>1, <2>2, <2>3, <2>4, <2>5, PrivateKeyFields DEF Holds
<1>2. CASE n = 2
  <2> DEFINE f == FieldsOf["PrivateKey"][2]
  <2>1. f = Bytes("LambdaN") /\ f.name = "LambdaN" /\ f.type = "bytes"
    BY PrivateKeyFields DEF Bytes
  <2>2. TypeOf(f) = ByteSeqs
    BY <2>1 DEF TypeOf
  <2>3. m["LambdaN"] \in ByteSeqs /\ "LambdaN" \in DOMAIN m
    BY DEF PrivateKeys
  <2>4. \A v \in ByteSeqs : [m EXCEPT !["LambdaN"] = v] \in PrivateKeys
    BY DEF PrivateKeys
  <2>5. (CHOOSE g \in Range(FieldsOf["PrivateKey"]) : g.name = "LambdaN") = f
    BY <2>1, PrivateKeyFields DEF Range, Bytes
  <2> QED
    BY <1>2, <2>1, <2>2, <2>3, <2>4, <2>5, PrivateKeyFields DEF Holds
<1>3. CASE n = 3
  <2> DEFINE f == FieldsOf["PrivateKey"][3]
  <2>1. f = Bytes("PhiN") /\ f.name = "PhiN" /\ f.type = "bytes"
    BY PrivateKeyFields DEF Bytes
  <2>2. TypeOf(f) = ByteSeqs
    BY <2>1 DEF TypeOf
  <2>3. m["PhiN"] \in ByteSeqs /\ "PhiN" \in DOMAIN m
    BY DEF PrivateKeys
  <2>4. \A v \in ByteSeqs : [m EXCEPT !["PhiN"] = v] \in PrivateKeys
    BY DEF PrivateKeys
  <2>5. (CHOOSE g \in Range(FieldsOf["PrivateKey"]) : g.name = "PhiN") = f
    BY <2>1, PrivateKeyFields DEF Range, Bytes
  <2> QED
    BY <1>3, <2>1, <2>2, <2>3, <2>4, <2>5, PrivateKeyFields DEF Holds
<1> QED
  BY <1>1, <1>2, <1>3

LEMMA LocalPreParamsFields ==
    /\ "LocalPreParams" \in Kinds /\ MsgOf["LocalPreParams"] = PreParams /\ DOMAIN FieldsOf["LocalPreParams"] = 1..8
    /\ FieldsOf["LocalPreParams"][1] = Message("PaillierSK", "PrivateKey")
    /\ FieldsOf["LocalPreParams"][2] = Bytes("NTilde")
    /\ FieldsOf["LocalPreParams"][3] = Bytes("H1I")
    /\ FieldsOf["LocalPreParams"][4] = Bytes("H2I")
    /\ FieldsOf["LocalPreParams"][5] = Bytes("Alpha")
    /\ FieldsOf["LocalPreParams"][6] = Bytes("Beta")
    /\ FieldsOf["LocalPreParams"][7] = Bytes("P")
    /\ FieldsOf["LocalPreParams"][8] = Bytes("Q")
<1>1. "LocalPreParams" \in Kinds /\ MsgOf["LocalPreParams"] = PreParams
  BY DEF Kinds, MsgOf
<1> QED
  BY <1>1 DEF FieldsOf, LocalPreParams_UnmarshalParams, LocalPreParams_UnmarshalProofs

LEMMA LocalPreParamsHolds ==
    ASSUME NEW n \in 1..8, NEW m \in PreParams
    PROVE  Holds("LocalPreParams", n, m)
<1>1. CASE n = 1
  <2> DEFINE f == FieldsOf["LocalPreParams"][1]
  <2>1. f = Message("PaillierSK", "PrivateKey") /\ f.name = "PaillierSK" /\ f.type = "message" /\ f.of = "PrivateKey"
    BY LocalPreParamsFields DEF Message
  <2>2. TypeOf(f) = Seq(PrivateKeys)
    BY <2>1, PrivateKeyFields DEF TypeOf
  <2>3. m["PaillierSK"] \in Seq(PrivateKeys) /\ "PaillierSK" \in DOMAIN m
    BY DEF PreParams
  <2>4. \A v \in Seq(PrivateKeys) : [m EXCEPT !["PaillierSK"] = v] \in PreParams
    BY DEF PreParams
  <2>5. (CHOOSE g \in Range(FieldsOf["LocalPreParams"]) : g.name = "PaillierSK") = f
    BY <2>1, LocalPreParamsFields DEF Range, Bytes, Message
  <2> QED
    BY <1>1, <2>1, <2>2, <2>3, <2>4, <2>5, LocalPreParamsFields, PrivateKeyFields DEF Holds
<1>2. CASE n = 2
  <2> DEFINE f == FieldsOf["LocalPreParams"][2]
  <2>1. f = Bytes("NTilde") /\ f.name = "NTilde" /\ f.type = "bytes"
    BY LocalPreParamsFields DEF Bytes
  <2>2. TypeOf(f) = ByteSeqs
    BY <2>1 DEF TypeOf
  <2>3. m["NTilde"] \in ByteSeqs /\ "NTilde" \in DOMAIN m
    BY DEF PreParams
  <2>4. \A v \in ByteSeqs : [m EXCEPT !["NTilde"] = v] \in PreParams
    BY DEF PreParams
  <2>5. (CHOOSE g \in Range(FieldsOf["LocalPreParams"]) : g.name = "NTilde") = f
    BY <2>1, LocalPreParamsFields DEF Range, Bytes, Message
  <2> QED
    BY <1>2, <2>1, <2>2, <2>3, <2>4, <2>5, LocalPreParamsFields DEF Holds
<1>3. CASE n = 3
  <2> DEFINE f == FieldsOf["LocalPreParams"][3]
  <2>1. f = Bytes("H1I") /\ f.name = "H1I" /\ f.type = "bytes"
    BY LocalPreParamsFields DEF Bytes
  <2>2. TypeOf(f) = ByteSeqs
    BY <2>1 DEF TypeOf
  <2>3. m["H1I"] \in ByteSeqs /\ "H1I" \in DOMAIN m
    BY DEF PreParams
  <2>4. \A v \in ByteSeqs : [m EXCEPT !["H1I"] = v] \in PreParams
    BY DEF PreParams
  <2>5. (CHOOSE g \in Range(FieldsOf["LocalPreParams"]) : g.name = "H1I") = f
    BY <2>1, LocalPreParamsFields DEF Range, Bytes, Message
  <2> QED
    BY <1>3, <2>1, <2>2, <2>3, <2>4, <2>5, LocalPreParamsFields DEF Holds
<1>4. CASE n = 4
  <2> DEFINE f == FieldsOf["LocalPreParams"][4]
  <2>1. f = Bytes("H2I") /\ f.name = "H2I" /\ f.type = "bytes"
    BY LocalPreParamsFields DEF Bytes
  <2>2. TypeOf(f) = ByteSeqs
    BY <2>1 DEF TypeOf
  <2>3. m["H2I"] \in ByteSeqs /\ "H2I" \in DOMAIN m
    BY DEF PreParams
  <2>4. \A v \in ByteSeqs : [m EXCEPT !["H2I"] = v] \in PreParams
    BY DEF PreParams
  <2>5. (CHOOSE g \in Range(FieldsOf["LocalPreParams"]) : g.name = "H2I") = f
    BY <2>1, LocalPreParamsFields DEF Range, Bytes, Message
  <2> QED
    BY <1>4, <2>1, <2>2, <2>3, <2>4, <2>5, LocalPreParamsFields DEF Holds
<1>5. CASE n = 5
  <2> DEFINE f == FieldsOf["LocalPreParams"][5]
  <2>1. f = Bytes("Alpha") /\ f.name = "Alpha" /\ f.type = "bytes"
    BY LocalPreParamsFields DEF Bytes
  <2>2. TypeOf(f) = ByteSeqs
    BY <2>1 DEF TypeOf
  <2>3. m["Alpha"] \in ByteSeqs /\ "Alpha" \in DOMAIN m
    BY DEF PreParams
  <2>4. \A v \in ByteSeqs : [m EXCEPT !["Alpha"] = v] \in PreParams
    BY DEF PreParams
  <2>5. (CHOOSE g \in Range(FieldsOf["LocalPreParams"]) : g.name = "Alpha") = f
    BY <2>1, LocalPreParamsFields DEF Range, Bytes, Message
  <2> QED
    BY <1>5, <2>1, <2>2, <2>3, <2>4, <2>5, LocalPreParamsFields DEF Holds
<1>6. CASE n = 6
  <2> DEFINE f == FieldsOf["LocalPreParams"][6]
  <2>1. f = Bytes("Beta") /\ f.name = "Beta" /\ f.type = "bytes"
    BY LocalPreParamsFields DEF Bytes
  <2>2. TypeOf(f) = ByteSeqs
    BY <2>1 DEF TypeOf
  <2>3. m["Beta"] \in ByteSeqs /\ "Beta" \in DOMAIN m
    BY DEF PreParams
  <2>4. \A v \in ByteSeqs : [m EXCEPT !["Beta"] = v] \in PreParams
    BY DEF PreParams
  <2>5. (CHOOSE g \in Range(FieldsOf["LocalPreParams"]) : g.name = "Beta") = f
    BY <2>1, LocalPreParamsFields DEF Range, Bytes, Message
  <2> QED
    BY <1>6, <2>1, <2>2, <2>3, <2>4, <2>5, LocalPreParamsFields DEF Holds
<1>7. CASE n = 7
  <2> DEFINE f == FieldsOf["LocalPreParams"][7]
  <2>1. f = Bytes("P") /\ f.name = "P" /\ f.type = "bytes"
    BY LocalPreParamsFields DEF Bytes
  <2>2. TypeOf(f) = ByteSeqs
    BY <2>1 DEF TypeOf
  <2>3. m["P"] \in ByteSeqs /\ "P" \in DOMAIN m
    BY DEF PreParams
  <2>4. \A v \in ByteSeqs : [m EXCEPT !["P"] = v] \in PreParams
    BY DEF PreParams
  <2>5. (CHOOSE g \in Range(FieldsOf["LocalPreParams"]) : g.name = "P") = f
    BY <2>1, LocalPreParamsFields DEF Range, Bytes, Message
  <2> QED
    BY <1>7, <2>1, <2>2, <2>3, <2>4, <2>5, LocalPreParamsFields DEF Holds
<1>8. CASE n = 8
  <2> DEFINE f == FieldsOf["LocalPreParams"][8]
  <2>1. f = Bytes("Q") /\ f.name = "Q" /\ f.type = "bytes"
    BY LocalPreParamsFields DEF Bytes
  <2>2. TypeOf(f) = ByteSeqs
    BY <2>1 DEF TypeOf
  <2>3. m["Q"] \in ByteSeqs /\ "Q" \in DOMAIN m
    BY DEF PreParams
  <2>4. \A v \in ByteSeqs : [m EXCEPT !["Q"] = v] \in PreParams
    BY DEF PreParams
  <2>5. (CHOOSE g \in Range(FieldsOf["LocalPreParams"]) : g.name = "Q") = f
    BY <2>1, LocalPreParamsFields DEF Range, Bytes, Message
  <2> QED
    BY <1>8, <2>1, <2>2, <2>3, <2>4, <2>5, LocalPreParamsFields DEF Holds
<1> QED
  BY <1>1, <1>2, <1>3, <1>4, <1>5, <1>6, <1>7, <1>8

LEMMA LocalSecretsFields ==
    /\ "LocalSecrets" \in Kinds /\ MsgOf["LocalSecrets"] = Secrets /\ DOMAIN FieldsOf["LocalSecrets"] = 1..2
    /\ FieldsOf["LocalSecrets"][1] = Bytes("Xi")
    /\ FieldsOf["LocalSecrets"][2] = Bytes("ShareID")
<1>1. "LocalSecrets" \in Kinds /\ MsgOf["LocalSecrets"] = Secrets
  BY DEF Kinds, MsgOf
<1> QED
  BY <1>1 DEF FieldsOf, LocalSecrets_Unmarshal

LEMMA LocalSecretsHolds ==
    ASSUME NEW n \in 1..2, NEW m \in Secrets
    PROVE  Holds("LocalSecrets", n, m)
<1>1. CASE n = 1
  <2> DEFINE f == FieldsOf["LocalSecrets"][1]
  <2>1. f = Bytes("Xi") /\ f.name = "Xi" /\ f.type = "bytes"
    BY LocalSecretsFields DEF Bytes
  <2>2. TypeOf(f) = ByteSeqs
    BY <2>1 DEF TypeOf
  <2>3. m["Xi"] \in ByteSeqs /\ "Xi" \in DOMAIN m
    BY DEF Secrets
  <2>4. \A v \in ByteSeqs : [m EXCEPT !["Xi"] = v] \in Secrets
    BY DEF Secrets
  <2>5. (CHOOSE g \in Range(FieldsOf["LocalSecrets"]) : g.name = "Xi") = f
    BY <2>1, LocalSecretsFields DEF Range, Bytes
  <2> QED
    BY <1>1, <2>1, <2>2, <2>3, <2>4, <2>5, LocalSecretsFields DEF Holds
<1>2. CASE n = 2
  <2> DEFINE f == FieldsOf["LocalSecrets"][2]
  <2>1. f = Bytes("ShareID") /\ f.name = "ShareID" /\ f.type = "bytes"
    BY LocalSecretsFields DEF Bytes
  <2>2. TypeOf(f) = ByteSeqs
    BY <2>1 DEF TypeOf
  <2>3. m["ShareID"] \in ByteSeqs /\ "ShareID" \in DOMAIN m
    BY DEF Secrets
  <2>4. \A v \in ByteSeqs : [m EXCEPT !["ShareID"] = v] \in Secrets
    BY DEF Secrets
  <2>5. (CHOOSE g \in Range(FieldsOf["LocalSecrets"]) : g.name = "ShareID") = f
    BY <2>1, LocalSecretsFields DEF Range, Bytes
  <2> QED
    BY <1>2, <2>1, <2>2, <2>3, <2>4, <2>5, LocalSecretsFields DEF Holds
<1> QED
  BY <1>1, <1>2

LEMMA ECPointFields ==
    /\ "ECPoint" \in Kinds /\ MsgOf["ECPoint"] = ECPoints /\ DOMAIN FieldsOf["ECPoint"] = 1..2
    /\ FieldsOf["ECPoint"][1] = Bytes("X")
    /\ FieldsOf["ECPoint"][2] = Bytes("Y")
<1>1. "ECPoint" \in Kinds /\ MsgOf["ECPoint"] = ECPoints
  BY DEF Kinds, MsgOf
<1> QED
  BY <1>1 DEF FieldsOf, ECPoint_Unmarshal

LEMMA ECPointHolds ==
    ASSUME NEW n \in 1..2, NEW m \in ECPoints
    PROVE  Holds("ECPoint", n, m)
<1>1. CASE n = 1
  <2> DEFINE f == FieldsOf["ECPoint"][1]
  <2>1. f = Bytes("X") /\ f.name = "X" /\ f.type = "bytes"
    BY ECPointFields DEF Bytes
  <2>2. TypeOf(f) = ByteSeqs
    BY <2>1 DEF TypeOf
  <2>3. m["X"] \in ByteSeqs /\ "X" \in DOMAIN m
    BY DEF ECPoints
  <2>4. \A v \in ByteSeqs : [m EXCEPT !["X"] = v] \in ECPoints
    BY DEF ECPoints
  <2>5. (CHOOSE g \in Range(FieldsOf["ECPoint"]) : g.name = "X") = f
    BY <2>1, ECPointFields DEF Range, Bytes
  <2> QED
    BY <1>1, <2>1, <2>2, <2>3, <2>4, <2>5, ECPointFields DEF Holds
<1>2. CASE n = 2
  <2> DEFINE f == FieldsOf["ECPoint"][2]
  <2>1. f = Bytes("Y") /\ f.name = "Y" /\ f.type = "bytes"
    BY ECPointFields DEF Bytes
  <2>2. TypeOf(f) = ByteSeqs
    BY <2>1 DEF TypeOf
  <2>3. m["Y"] \in ByteSeqs /\ "Y" \in DOMAIN m
    BY DEF ECPoints
  <2>4. \A v \in ByteSeqs : [m EXCEPT !["Y"] = v] \in ECPoints
    BY DEF ECPoints
  <2>5. (CHOOSE g \in Range(FieldsOf["ECPoint"]) : g.name = "Y") = f
    BY <2>1, ECPointFields DEF Range, Bytes
  <2> QED
    BY <1>2, <2>1, <2>2, <2>3, <2>4, <2>5, ECPointFields DEF Holds
<1> QED
  BY <1>1, <1>2

LEMMA LocalPartySaveDataFields ==
    /\ "LocalPartySaveData" \in Kinds /\ MsgOf["LocalPartySaveData"] = SaveData /\ DOMAIN FieldsOf["LocalPartySaveData"] = 1..9
    /\ FieldsOf["LocalPartySaveData"][1] = Message("LocalPreParams", "LocalPreParams")
    /\ FieldsOf["LocalPartySaveData"][2] = Message("LocalSecrets", "LocalSecrets")
    /\ FieldsOf["LocalPartySaveData"][3] = BytesList("Ks")
    /\ FieldsOf["LocalPartySaveData"][4] = BytesList("NTildej")
    /\ FieldsOf["LocalPartySaveData"][5] = BytesList("H1J")
    /\ FieldsOf["LocalPartySaveData"][6] = BytesList("H2J")
    /\ FieldsOf["LocalPartySaveData"][7] = MessageList("BigXj", "ECPoint")
    /\ FieldsOf["LocalPartySaveData"][8] = BytesList("PaillierPKs")
    /\ FieldsOf["LocalPartySaveData"][9] = Message("EcdsaPub", "ECPoint")
<1>1. "LocalPartySaveData" \in Kinds /\ MsgOf["LocalPartySaveData"] = SaveData
  BY DEF Kinds, MsgOf
<1> QED
  BY <1>1 DEF FieldsOf, LocalPartySaveData_UnmarshalOwn, LocalPartySaveData_UnmarshalParameters, LocalPartySaveData_UnmarshalKeys

LEMMA LocalPartySaveDataHolds ==
    ASSUME NEW n \in 1..9, NEW m \in SaveData
    PROVE  Holds("LocalPartySaveData", n, m)
<1>1. CASE n = 1
  <2> DEFINE f == FieldsOf["LocalPartySaveData"][1]
  <2>1. f = Message("LocalPreParams", "LocalPreParams") /\ f.name = "LocalPreParams" /\ f.type = "message" /\ f.of = "LocalPreParams"
    BY LocalPartySaveDataFields DEF Message
  <2>2. TypeOf(f) = Seq(PreParams)
    BY <2>1, LocalPreParamsFields DEF TypeOf
  <2>3. m["LocalPreParams"] \in Seq(PreParams) /\ "LocalPreParams" \in DOMAIN m
    BY DEF SaveData
  <2>4. \A v \in Seq(PreParams) : [m EXCEPT !["LocalPreParams"] = v] \in SaveData
    BY DEF SaveData
  <2>5. (CHOOSE g \in Range(FieldsOf["LocalPartySaveData"]) : g.name = "LocalPreParams") = f
    BY <2>1, LocalPartySaveDataFields DEF Range, BytesList, Message, MessageList
  <2> QED
    BY <1>1, <2>1, <2>2, <2>3, <2>4, <2>5, LocalPartySaveDataFields, LocalPreParamsFields DEF Holds
<1>2. CASE n = 2
  <2> DEFINE f == FieldsOf["LocalPartySaveData"][2]
  <2>1. f = Message("LocalSecrets", "LocalSecrets") /\ f.name = "LocalSecrets" /\ f.type = "message" /\ f.of = "LocalSecrets"
    BY LocalPartySaveDataFields DEF Message
  <2>2. TypeOf(f) = Seq(Secrets)
    BY <2>1, LocalSecretsFields DEF TypeOf
  <2>3. m["LocalSecrets"] \in Seq(Secrets) /\ "LocalSecrets" \in DOMAIN m
    BY DEF SaveData
  <2>4. \A v \in Seq(Secrets) : [m EXCEPT !["LocalSecrets"] = v] \in SaveData
    BY DEF SaveData
  <2>5. (CHOOSE g \in Range(FieldsOf["LocalPartySaveData"]) : g.name = "LocalSecrets") = f
    BY <2>1, LocalPartySaveDataFields DEF Range, BytesList, Message, MessageList
  <2> QED
    BY <1>2, <2>1, <2>2, <2>3, <2>4, <2>5, LocalPartySaveDataFields, LocalSecretsFields DEF Holds
<1>3. CASE n = 3
  <2> DEFINE f == FieldsOf["LocalPartySaveData"][3]
  <2>1. f = BytesList("Ks") /\ f.name = "Ks" /\ f.type = "list"
    BY LocalPartySaveDataFields DEF BytesList
  <2>2. TypeOf(f) = Seq(ByteSeqs)
    BY <2>1 DEF TypeOf
  <2>3. m["Ks"] \in Seq(ByteSeqs) /\ "Ks" \in DOMAIN m
    BY DEF SaveData
  <2>4. \A v \in Seq(ByteSeqs) : [m EXCEPT !["Ks"] = v] \in SaveData
    BY DEF SaveData
  <2>5. (CHOOSE g \in Range(FieldsOf["LocalPartySaveData"]) : g.name = "Ks") = f
    BY <2>1, LocalPartySaveDataFields DEF Range, BytesList, Message, MessageList
  <2> QED
    BY <1>3, <2>1, <2>2, <2>3, <2>4, <2>5, LocalPartySaveDataFields DEF Holds
<1>4. CASE n = 4
  <2> DEFINE f == FieldsOf["LocalPartySaveData"][4]
  <2>1. f = BytesList("NTildej") /\ f.name = "NTildej" /\ f.type = "list"
    BY LocalPartySaveDataFields DEF BytesList
  <2>2. TypeOf(f) = Seq(ByteSeqs)
    BY <2>1 DEF TypeOf
  <2>3. m["NTildej"] \in Seq(ByteSeqs) /\ "NTildej" \in DOMAIN m
    BY DEF SaveData
  <2>4. \A v \in Seq(ByteSeqs) : [m EXCEPT !["NTildej"] = v] \in SaveData
    BY DEF SaveData
  <2>5. (CHOOSE g \in Range(FieldsOf["LocalPartySaveData"]) : g.name = "NTildej") = f
    BY <2>1, LocalPartySaveDataFields DEF Range, BytesList, Message, MessageList
  <2> QED
    BY <1>4, <2>1, <2>2, <2>3, <2>4, <2>5, LocalPartySaveDataFields DEF Holds
<1>5. CASE n = 5
  <2> DEFINE f == FieldsOf["LocalPartySaveData"][5]
  <2>1. f = BytesList("H1J") /\ f.name = "H1J" /\ f.type = "list"
    BY LocalPartySaveDataFields DEF BytesList
  <2>2. TypeOf(f) = Seq(ByteSeqs)
    BY <2>1 DEF TypeOf
  <2>3. m["H1J"] \in Seq(ByteSeqs) /\ "H1J" \in DOMAIN m
    BY DEF SaveData
  <2>4. \A v \in Seq(ByteSeqs) : [m EXCEPT !["H1J"] = v] \in SaveData
    BY DEF SaveData
  <2>5. (CHOOSE g \in Range(FieldsOf["LocalPartySaveData"]) : g.name = "H1J") = f
    BY <2>1, LocalPartySaveDataFields DEF Range, BytesList, Message, MessageList
  <2> QED
    BY <1>5, <2>1, <2>2, <2>3, <2>4, <2>5, LocalPartySaveDataFields DEF Holds
<1>6. CASE n = 6
  <2> DEFINE f == FieldsOf["LocalPartySaveData"][6]
  <2>1. f = BytesList("H2J") /\ f.name = "H2J" /\ f.type = "list"
    BY LocalPartySaveDataFields DEF BytesList
  <2>2. TypeOf(f) = Seq(ByteSeqs)
    BY <2>1 DEF TypeOf
  <2>3. m["H2J"] \in Seq(ByteSeqs) /\ "H2J" \in DOMAIN m
    BY DEF SaveData
  <2>4. \A v \in Seq(ByteSeqs) : [m EXCEPT !["H2J"] = v] \in SaveData
    BY DEF SaveData
  <2>5. (CHOOSE g \in Range(FieldsOf["LocalPartySaveData"]) : g.name = "H2J") = f
    BY <2>1, LocalPartySaveDataFields DEF Range, BytesList, Message, MessageList
  <2> QED
    BY <1>6, <2>1, <2>2, <2>3, <2>4, <2>5, LocalPartySaveDataFields DEF Holds
<1>7. CASE n = 7
  <2> DEFINE f == FieldsOf["LocalPartySaveData"][7]
  <2>1. f = MessageList("BigXj", "ECPoint") /\ f.name = "BigXj" /\ f.type = "messages" /\ f.of = "ECPoint"
    BY LocalPartySaveDataFields DEF MessageList
  <2>2. TypeOf(f) = Seq(ECPoints)
    BY <2>1, ECPointFields DEF TypeOf
  <2>3. m["BigXj"] \in Seq(ECPoints) /\ "BigXj" \in DOMAIN m
    BY DEF SaveData
  <2>4. \A v \in Seq(ECPoints) : [m EXCEPT !["BigXj"] = v] \in SaveData
    BY DEF SaveData
  <2>5. (CHOOSE g \in Range(FieldsOf["LocalPartySaveData"]) : g.name = "BigXj") = f
    BY <2>1, LocalPartySaveDataFields DEF Range, BytesList, Message, MessageList
  <2> QED
    BY <1>7, <2>1, <2>2, <2>3, <2>4, <2>5, LocalPartySaveDataFields, ECPointFields DEF Holds
<1>8. CASE n = 8
  <2> DEFINE f == FieldsOf["LocalPartySaveData"][8]
  <2>1. f = BytesList("PaillierPKs") /\ f.name = "PaillierPKs" /\ f.type = "list"
    BY LocalPartySaveDataFields DEF BytesList
  <2>2. TypeOf(f) = Seq(ByteSeqs)
    BY <2>1 DEF TypeOf
  <2>3. m["PaillierPKs"] \in Seq(ByteSeqs) /\ "PaillierPKs" \in DOMAIN m
    BY DEF SaveData
  <2>4. \A v \in Seq(ByteSeqs) : [m EXCEPT !["PaillierPKs"] = v] \in SaveData
    BY DEF SaveData
  <2>5. (CHOOSE g \in Range(FieldsOf["LocalPartySaveData"]) : g.name = "PaillierPKs") = f
    BY <2>1, LocalPartySaveDataFields DEF Range, BytesList, Message, MessageList
  <2> QED
    BY <1>8, <2>1, <2>2, <2>3, <2>4, <2>5, LocalPartySaveDataFields DEF Holds
<1>9. CASE n = 9
  <2> DEFINE f == FieldsOf["LocalPartySaveData"][9]
  <2>1. f = Message("EcdsaPub", "ECPoint") /\ f.name = "EcdsaPub" /\ f.type = "message" /\ f.of = "ECPoint"
    BY LocalPartySaveDataFields DEF Message
  <2>2. TypeOf(f) = Seq(ECPoints)
    BY <2>1, ECPointFields DEF TypeOf
  <2>3. m["EcdsaPub"] \in Seq(ECPoints) /\ "EcdsaPub" \in DOMAIN m
    BY DEF SaveData
  <2>4. \A v \in Seq(ECPoints) : [m EXCEPT !["EcdsaPub"] = v] \in SaveData
    BY DEF SaveData
  <2>5. (CHOOSE g \in Range(FieldsOf["LocalPartySaveData"]) : g.name = "EcdsaPub") = f
    BY <2>1, LocalPartySaveDataFields DEF Range, BytesList, Message, MessageList
  <2> QED
    BY <1>9, <2>1, <2>2, <2>3, <2>4, <2>5, LocalPartySaveDataFields, ECPointFields DEF Holds
<1> QED
  BY <1>1, <1>2, <1>3, <1>4, <1>5, <1>6, <1>7, <1>8, <1>9

\* Division by b, and by 256 times b.
ByteStep(v, b, c) == \E q, p, t \in Nat : q = v \div b /\ p = v \div c /\ t = q % 256 /\ q = 256 * p + t

LEMMA ByteSteps ==
    ASSUME NEW v \in Nat, NEW b \in Nat, b > 0, NEW c \in Nat, c = 256 * b
    PROVE  ByteStep(v, b, c)
<1>1. PICK q \in Int, r \in Int : q = v \div b /\ r = v % b /\ 0 <= r /\ r < b /\ v = b * q + r
  BY Division
<1>2. q \in Nat
  BY <1>1
<1>3. PICK p \in Int, t \in Int : p = q \div 256 /\ t = q % 256 /\ 0 <= t /\ t < 256 /\ q = 256 * p + t
  BY Division
<1>4. PICK u \in Int : u = b * t
  OBVIOUS
<1>5. 0 <= u + r /\ u + r < 256 * b
  <2>1. u >= 0 /\ u <= 255 * b
    BY <1>3, <1>4
  <2> QED
    BY <1>1, <2>1
<1>6. v = (256 * b) * p + (u + r)
  <2>1. b * (256 * p + t) = (256 * b) * p + b * t
    BY ONLY b \in Nat, p \in Int, t \in Int
  <2> QED
    BY <1>1, <1>3, <1>4, <2>1
<1>7. v \div c = p
  <2>1. (c * p + (u + r)) \div c = p
    BY <1>5, DivisionUnique
  <2> QED
    BY <1>6, <2>1
<1>8. p \in Nat /\ t \in Nat
  BY <1>2, <1>3
<1> QED
  BY <1>1, <1>2, <1>3, <1>7, <1>8 DEF ByteStep

LEMMA BytePow ==
    ASSUME NEW i \in Nat
    PROVE  2^(8 * i) \in Nat /\ 2^(8 * i) > 0 /\ 2^(8 * (i + 1)) = 256 * 2^(8 * i)
<1>1. PICK a \in Nat : a = 8 * i
  OBVIOUS
<1>2. 2^(a + 8) = 2^a * 2^8
  BY PowSum
<1>3. 2^8 = 256
  OBVIOUS
<1>4. 8 * (i + 1) = a + 8
  BY <1>1
<1> QED
  BY <1>1, <1>2, <1>3, <1>4, PowType

\* The bytes of a number: as many as it needs.
LEMMA BigBytesIs ==
    ASSUME NEW n \in Nat
    PROVE  \E k \in Nat : /\ n < 2^(8 * k) /\ (k = 0 \/ n >= 2^(8 * (k - 1)))
                          /\ BigBytes(n) = [i \in 1..k |-> (n \div 2^(8 * (k - i))) % 256]
<1> DEFINE T == {l \in Nat : n < 2^(8 * l)}
<1>1. n \in T
  <2>1. n < 2^n
    BY PowAbove
  <2>2. PICK a \in Nat : a = 8 * n /\ n <= a
    OBVIOUS
  <2>3. 2^n <= 2^a
    BY <2>2, PowMonotone
  <2> QED
    BY <2>1, <2>2, <2>3, PowType
<1>2. PICK l \in T : \A r \in T : l <= r
  <2> HIDE DEF T
  <2>1. T \subseteq Nat
    BY DEF T
  <2> QED
    BY <1>1, <2>1, Least
<1>3. l \in 0..n /\ n < 2^(8 * l)
  BY <1>1, <1>2
<1>4. l = 0 \/ n >= 2^(8 * (l - 1))
  <2>1. CASE l # 0
    <3>1. l - 1 \in Nat /\ l - 1 \notin T
      BY <1>2, <2>1
    <3> QED
      BY <3>1, BytePow
  <2> QED
    BY <2>1
<1> DEFINE Fits(j) == n < 2^(8 * j) /\ (j = 0 \/ n >= 2^(8 * (j - 1)))
<1>5. \E j \in 0..n : Fits(j)
  BY <1>3, <1>4
<1>6. PICK k : k = CHOOSE j \in 0..n : Fits(j)
  OBVIOUS
<1> HIDE DEF Fits
<1>7. k \in 0..n /\ Fits(k)
  BY <1>5, <1>6, Zenon
<1>8. BigBytes(n) = [i \in 1..k |-> (n \div 2^(8 * (k - i))) % 256]
  <2>1. BigBytes(n) = [i \in 1..(CHOOSE j \in 0..n : Fits(j)) |->
                          (n \div 2^(8 * ((CHOOSE j \in 0..n : Fits(j)) - i))) % 256]
    BY DEF BigBytes, Fits
  <2> QED
    BY <1>6, <2>1, Zenon
<1>9. k \in Nat /\ n < 2^(8 * k) /\ (k = 0 \/ n >= 2^(8 * (k - 1)))
  BY <1>7 DEF Fits
<1> QED
  BY <1>8, <1>9

LEMMA BigBytesType ==
    ASSUME NEW n \in Nat
    PROVE  BigBytes(n) \in ByteSeqs
<1>1. PICK k \in Nat : BigBytes(n) = [i \in 1..k |-> (n \div 2^(8 * (k - i))) % 256]
  BY BigBytesIs
<1>2. ASSUME NEW i \in 1..k PROVE (n \div 2^(8 * (k - i))) % 256 \in Byte
  <2>1. PICK b \in Nat : b = 2^(8 * (k - i)) /\ b > 0
    <3>1. k - i \in Nat
      OBVIOUS
    <3> QED
      BY <3>1, BytePow
  <2>2. n \div b \in Nat
    <3>1. PICK c \in Nat : c = 256 * b
      OBVIOUS
    <3> QED
      BY <2>1, <3>1, ByteSteps DEF ByteStep
  <2>3. PICK q \in Nat : q = n \div b
    BY <2>2
  <2>4. q % 256 \in 0..255
    OBVIOUS
  <2> QED
    BY <2>1, <2>3, <2>4 DEF Byte
<1>3. [i \in 1..k |-> (n \div 2^(8 * (k - i))) % 256] \in [1..k -> Byte]
  BY <1>2
<1> QED
  BY <1>1, <1>3 DEF ByteSeqs

\* SetBytes reads what Bytes wrote.
LEMMA BigBytesRead ==
    ASSUME NEW n \in Nat
    PROVE  SetBytes(BigBytes(n)) = n
<1>1. PICK k \in Nat : /\ n < 2^(8 * k)
                       /\ BigBytes(n) = [i \in 1..k |-> (n \div 2^(8 * (k - i))) % 256]
  BY BigBytesIs
<1>2. PICK d : d = BigBytes(n)
  OBVIOUS
<1>3. d \in [1..k -> Nat]
  <2>1. d \in ByteSeqs /\ DOMAIN d = 1..k
    BY <1>1, <1>2, BigBytesType
  <2>2. Len(d) = k /\ \A i \in 1..Len(d) : d[i] \in Byte
    BY <2>1 DEF ByteSeqs
  <2>3. d = [i \in 1..k |-> d[i]]
    BY <1>1, <1>2
  <2>4. ASSUME NEW i \in 1..k PROVE d[i] \in Nat
    <3>1. d[i] \in Byte
      BY <2>2
    <3> QED
      BY <3>1 DEF Byte
  <2> QED
    BY <2>3, <2>4
<1>4. \A i \in 1..k : d[i] = (n \div 2^(8 * (k - i))) % 256
  BY <1>1, <1>2
<1>5. PICK F \in [0..k -> Nat] :
              /\ F[0] = 0 /\ \A i \in 1..k : F[i] = 256 * F[i - 1] + d[i]
              /\ SetBytes(d) = F[k]
  BY <1>3, NumberSteps
<1> DEFINE T == {i \in Nat : i <= k => F[i] = n \div 2^(8 * (k - i))}
<1>6. 0 \in T
  <2>1. PICK b \in Nat : b = 2^(8 * k) /\ b > 0
    BY BytePow
  <2>2. n \div b = 0
    <3>1. 0 \in Int /\ n \in Int /\ 0 <= n /\ n < b /\ b * 0 + n = n
      BY <1>1, <2>1
    <3>2. (b * 0 + n) \div b = 0
      BY <2>1, <3>1, DivisionUnique
    <3> QED
      BY <3>1, <3>2
  <2> QED
    BY <1>5, <2>1, <2>2
<1>7. ASSUME NEW i \in Nat, i \in T PROVE i + 1 \in T
  <2> SUFFICES ASSUME i + 1 <= k PROVE F[i + 1] = n \div 2^(8 * (k - (i + 1)))
    OBVIOUS
  <2>1. PICK j \in Nat : j = k - (i + 1) /\ j + 1 = k - i
    OBVIOUS
  <2>2. PICK b \in Nat, c \in Nat : b = 2^(8 * j) /\ b > 0 /\ c = 256 * b /\ 2^(8 * (j + 1)) = c
    BY BytePow
  <2>3. F[i] = n \div c
    BY <1>7, <2>1, <2>2
  <2>4. i + 1 \in 1..k /\ (i + 1) - 1 = i
    OBVIOUS
  <2>5. PICK q \in Nat, p \in Nat, t \in Nat :
                 q = n \div b /\ p = n \div c /\ t = q % 256 /\ q = 256 * p + t
    <3>1. b > 0 /\ c = 256 * b
      BY <2>2
    <3>2. ByteStep(n, b, c)
      BY <3>1, ByteSteps
    <3> QED
      BY <3>2, Zenon DEF ByteStep
  <2>6. d[i + 1] = t
    BY <1>4, <2>1, <2>2, <2>4, <2>5
  <2>7. F[i + 1] = 256 * F[i] + d[i + 1] /\ F[i] = p
    BY <1>5, <2>3, <2>4, <2>5, Zenon
  <2>8. F[i + 1] = n \div b
    BY <2>5, <2>6, <2>7
  <2> QED
    BY <2>1, <2>2, <2>8, Zenon
<1> HIDE DEF T
<1>8. Nat \subseteq T
  BY <1>6, <1>7, Induction
<1>9. F[k] = n \div 2^(8 * (k - k))
  <2>1. k \in T /\ k <= k
    BY <1>8
  <2> QED
    BY <2>1, Zenon DEF T
<1>10. 2^(8 * (k - k)) = 1 /\ n \div 1 = n
  BY PowZero
<1> QED
  BY <1>2, <1>5, <1>9, <1>10

LEMMA SignedType ==
    ASSUME NEW n \in Int, NEW bits \in Nat, bits > 0
    PROVE  Signed(n, bits) \in Int
<1>1. PICK p \in Nat : p = 2^bits /\ p > 0
  BY PowType
<1>2. PICK u \in Int : u = n % p
  BY <1>1
<1>3. PICK h \in Nat : h = 2^(bits - 1)
  <2>1. bits - 1 \in Nat
    OBVIOUS
  <2> QED
    BY <2>1, PowType
<1>4. Signed(n, bits) = IF u >= h THEN u - p ELSE u
  BY <1>1, <1>2, <1>3 DEF Signed
<1> QED
  BY <1>4

LEMMA WidthsAre == WordBits \in Nat /\ WordBits > 0 /\ IntBits \in Nat /\ IntBits > 0
BY WidthAssumption

\* The buffer is filled exactly.
LEMMA BufferIs ==
    ASSUME NEW c, NEW n, Sized(c, n)
    PROVE  Buffer(n, c) = c
<1>1. c \in Seq(Byte) /\ n \in Nat /\ Len(c) = n
  BY DEF Sized, ByteSeqs
<1>2. n - Len(c) = 0
  BY <1>1
<1>3. [i \in 1..0 |-> 0] = <<>>
  OBVIOUS
<1>4. <<>> \o c = c
  BY <1>1
<1>5. SubSeq(c, 1, Len(c)) = c
  BY <1>1, SubSeqFull
<1> QED
  BY <1>2, <1>3, <1>4, <1>5, Zenon DEF Buffer

LEMMA EachBytes ==
    ASSUME NEW list \in Seq(Nat)
    PROVE  Each(BigBytes, list) \in Seq(ByteSeqs)
<1>1. PICK n \in Nat : n = Len(list) /\ DOMAIN list = 1..n
  OBVIOUS
<1>2. ASSUME NEW i \in 1..n PROVE BigBytes(list[i]) \in ByteSeqs
  <2>1. list[i] \in Nat
    BY <1>1
  <2> QED
    BY <2>1, BigBytesType
<1>3. [i \in 1..n |-> BigBytes(list[i])] \in [1..n -> ByteSeqs]
  BY <1>2
<1>4. Each(BigBytes, list) = [i \in 1..n |-> BigBytes(list[i])]
  BY <1>1 DEF Each
<1> QED
  BY <1>3, <1>4

LEMMA PointBytes ==
    ASSUME NEW p \in Points
    PROVE  [X |-> BigBytes(p.x), Y |-> BigBytes(p.y)] \in ECPoints
<1>1. p.x \in Nat /\ p.y \in Nat
  BY DEF Points
<1> QED
  BY <1>1, BigBytesType DEF ECPoints

LEMMA PointsBytes ==
    ASSUME NEW list \in Seq(Points)
    PROVE  [i \in DOMAIN list |-> [X |-> BigBytes(list[i].x), Y |-> BigBytes(list[i].y)]] \in Seq(ECPoints)
<1>1. PICK n \in Nat : n = Len(list) /\ DOMAIN list = 1..n
  OBVIOUS
<1>2. ASSUME NEW i \in 1..n PROVE [X |-> BigBytes(list[i].x), Y |-> BigBytes(list[i].y)] \in ECPoints
  <2>1. list[i] \in Points
    BY <1>1
  <2> QED
    BY <2>1, PointBytes
<1>3. [i \in 1..n |-> [X |-> BigBytes(list[i].x), Y |-> BigBytes(list[i].y)]] \in [1..n -> ECPoints]
  BY <1>2
<1> QED
  BY <1>1, <1>3

LEMMA OneOf == ASSUME NEW S, NEW e \in S PROVE <<e>> \in Seq(S)
OBVIOUS

LEMMA ThresholdKeyType ==
    ASSUME NEW tk \in Keys
    PROVE  ThresholdKey_Marshal(tk) \in SaveData
<1>1. \A x \in {tk.N, tk.LambdaN, tk.PhiN, tk.NTildei, tk.H1i, tk.H2i, tk.Alpha, tk.Beta, tk.P, tk.Q,
                tk.Xi, tk.ShareID} : BigBytes(x) \in ByteSeqs
  BY BigBytesType DEF Keys
<1>2. \A l \in {tk.Ks, tk.NTildej, tk.H1j, tk.H2j, tk.PaillierPKs} : Each(BigBytes, l) \in Seq(ByteSeqs)
  BY EachBytes DEF Keys
<1>3. PICK points : points = [i \in DOMAIN tk.BigXj |-> [X |-> BigBytes(tk.BigXj[i].x), Y |-> BigBytes(tk.BigXj[i].y)]]
  OBVIOUS
<1>4. points \in Seq(ECPoints)
  <2>1. tk.BigXj \in Seq(Points)
    BY DEF Keys
  <2> QED
    BY <1>3, <2>1, PointsBytes
<1>5. PICK pub : pub = <<[X |-> BigBytes(tk.ECDSAPub.x), Y |-> BigBytes(tk.ECDSAPub.y)]>>
  OBVIOUS
<1>6. pub \in Seq(ECPoints)
  <2>1. tk.ECDSAPub \in Points
    BY DEF Keys
  <2> QED
    BY <1>5, <2>1, PointBytes, OneOf
<1>7. PICK sk : sk = [PublicKey |-> BigBytes(tk.N), LambdaN |-> BigBytes(tk.LambdaN), PhiN |-> BigBytes(tk.PhiN)]
  OBVIOUS
<1>8. sk \in PrivateKeys
  BY <1>1, <1>7 DEF PrivateKeys
<1>9. <<sk>> \in Seq(PrivateKeys)
  BY <1>8, OneOf
<1>10. PICK pre : pre = [PaillierSK |-> <<sk>>,
                         NTilde |-> BigBytes(tk.NTildei), H1I |-> BigBytes(tk.H1i), H2I |-> BigBytes(tk.H2i),
                         Alpha |-> BigBytes(tk.Alpha), Beta |-> BigBytes(tk.Beta),
                         P |-> BigBytes(tk.P), Q |-> BigBytes(tk.Q)]
  OBVIOUS
<1>11. pre \in PreParams
  BY <1>1, <1>9, <1>10 DEF PreParams
<1>12. <<pre>> \in Seq(PreParams)
  BY <1>11, OneOf
<1>13. PICK sec : sec = [Xi |-> BigBytes(tk.Xi), ShareID |-> BigBytes(tk.ShareID)]
  OBVIOUS
<1>14. sec \in Secrets
  BY <1>1, <1>13 DEF Secrets
<1>15. <<sec>> \in Seq(Secrets)
  BY <1>14, OneOf
<1>16. ThresholdKey_Marshal(tk) =
          [LocalPreParams |-> <<pre>>, LocalSecrets |-> <<sec>>,
           Ks |-> Each(BigBytes, tk.Ks), NTildej |-> Each(BigBytes, tk.NTildej),
           H1J |-> Each(BigBytes, tk.H1j), H2J |-> Each(BigBytes, tk.H2j),
           BigXj |-> points, PaillierPKs |-> Each(BigBytes, tk.PaillierPKs), EcdsaPub |-> pub]
  BY <1>3, <1>5, <1>7, <1>10, <1>13, Zenon DEF ThresholdKey_Marshal
<1> QED
  BY <1>2, <1>4, <1>6, <1>12, <1>15, <1>16 DEF SaveData

\* The two parts of a signer.
LEMMA SignerType ==
    ASSUME NEW s \in Signers
    PROVE  LET pb == ThresholdKey_Marshal(s.thresholdKey)
               info == [GroupID |-> s.groupID, MemberID |-> s.memberID, GroupMemberIDs |-> s.groupMemberIDs,
                        DishonestThreshold |-> Signed(s.dishonestThreshold, IntBits)]
           IN /\ pb \in SaveData /\ info \in GroupInfos
              /\ Signer_Marshal(s) = [GroupInfo |-> <<info>>, ThresholdKey |-> LocalPartySaveData_Marshal(pb)]
              /\ Signer_Marshal(s) \in SignerMsgs
<1> DEFINE info == [GroupID |-> s.groupID, MemberID |-> s.memberID, GroupMemberIDs |-> s.groupMemberIDs,
                    DishonestThreshold |-> Signed(s.dishonestThreshold, IntBits)]
<1>1. PICK pb : pb = ThresholdKey_Marshal(s.thresholdKey)
  OBVIOUS
<1>2. pb \in SaveData
  <2>1. s.thresholdKey \in Keys
    BY DEF Signers
  <2> QED
    BY <1>1, <2>1, ThresholdKeyType
<1>3. info \in GroupInfos
  <2>1. s.dishonestThreshold \in Int
    <3>1. s.dishonestThreshold \in Int32s
      BY DEF Signers
    <3>2. IntBits - 1 \in Nat
      BY WidthsAre
    <3>3. PICK h \in Nat : h = 2^(IntBits - 1)
      BY <3>2, PowType
    <3> QED
      BY <3>1, <3>3 DEF Int32s
  <2>2. Signed(s.dishonestThreshold, IntBits) \in Int
    BY <2>1, WidthsAre, SignedType
  <2>3. s.groupID \in ByteSeqs /\ s.memberID \in ByteSeqs /\ s.groupMemberIDs \in Seq(ByteSeqs)
    BY DEF Signers, ByteSeqs
  <2> QED
    BY <2>2, <2>3 DEF GroupInfos
<1>4. Sized(LocalPartySaveData_Marshal(pb), LocalPartySaveData_Size(pb))
  BY <1>2, LocalPartySaveDataIs
<1>5. Buffer(LocalPartySaveData_Size(pb), LocalPartySaveData_Marshal(pb)) = LocalPartySaveData_Marshal(pb)
  BY <1>4, BufferIs
<1>6. Signer_Marshal(s) = [GroupInfo |-> <<info>>, ThresholdKey |-> LocalPartySaveData_Marshal(pb)]
  BY <1>1, <1>5, Zenon DEF Signer_Marshal
<1>7. <<info>> \in Seq(GroupInfos) /\ LocalPartySaveData_Marshal(pb) \in ByteSeqs
  <2> HIDE DEF info
  <2> QED
    BY <1>3, <1>4, OneOf DEF Sized
<1>8. Signer_Marshal(s) \in SignerMsgs
  <2> HIDE DEF info
  <2> QED
    BY <1>6, <1>7 DEF SignerMsgs
<1> QED
  BY <1>1, <1>2, <1>3, <1>6, <1>8, Zenon

\* The message that is marshalled for an input.
Sent(in) == IF in.kind = "ThresholdSigner" THEN Signer_Marshal(in.value) ELSE in.value

LEMMA Int32sAre == Int32s \subseteq Int
<1>1. IntBits - 1 \in Nat
  BY WidthsAre
<1>2. PICK h \in Nat : h = 2^(IntBits - 1)
  BY <1>1, PowType
<1> QED
  BY <1>2 DEF Int32s

\* The generated Marshal and Size of a kind of message.
MarshalOf(kind, m) ==
    CASE kind = "ReadyMessage" -> ReadyMessage_Marshal(m)
      [] kind = "AnnounceMessage" -> AnnounceMessage_Marshal(m)
      [] kind = "TSSProtocolMessage" -> TSSProtocolMessage_Marshal(m)
      [] kind = "RecoveryMessage" -> RecoveryMessage_Marshal(m)
      [] kind = "GroupInfo" -> GroupInfo_Marshal(m)
      [] kind = "ThresholdSigner" -> ThresholdSigner_Marshal(m)
      [] kind = "PrivateKey" -> PrivateKey_Marshal(m)
      [] kind = "LocalPreParams" -> LocalPreParams_Marshal(m)
      [] kind = "LocalSecrets" -> LocalSecrets_Marshal(m)
      [] kind = "ECPoint" -> ECPoint_Marshal(m)
      [] kind = "LocalPartySaveData" -> LocalPartySaveData_Marshal(m)
SizeOf(kind, m) ==
    CASE kind = "ReadyMessage" -> ReadyMessage_Size(m)
      [] kind = "AnnounceMessage" -> AnnounceMessage_Size(m)
      [] kind = "TSSProtocolMessage" -> TSSProtocolMessage_Size(m)
      [] kind = "RecoveryMessage" -> RecoveryMessage_Size(m)
      [] kind = "GroupInfo" -> GroupInfo_Size(m)
      [] kind = "ThresholdSigner" -> ThresholdSigner_Size(m)
      [] kind = "PrivateKey" -> PrivateKey_Size(m)
      [] kind = "LocalPreParams" -> LocalPreParams_Size(m)
      [] kind = "LocalSecrets" -> LocalSecrets_Size(m)
      [] kind = "ECPoint" -> ECPoint_Size(m)
      [] kind = "LocalPartySaveData" -> LocalPartySaveData_Size(m)

\* The generated Size counts the bytes the generated Marshal writes, for every
\* message of every kind, lists, nested messages and negative numbers included:
\* the buffer that Marshal fills from its end has no byte too few or too many.
THEOREM SizeIsLength ==
    ASSUME NEW kind \in Kinds, NEW m \in MsgOf[kind]
    PROVE  /\ MarshalOf(kind, m) \in Seq(Byte) /\ Len(MarshalOf(kind, m)) = SizeOf(kind, m)
           /\ Buffer(SizeOf(kind, m), MarshalOf(kind, m)) = MarshalOf(kind, m)
<1>1. Sized(MarshalOf(kind, m), SizeOf(kind, m))
  <2>1. CASE kind = "ReadyMessage"
    <3>1. Sized(ReadyMessage_Marshal(m), ReadyMessage_Size(m))
      BY <2>1, ReadyMessageFields, ReadyMessageIs
    <3>2. MarshalOf(kind, m) = ReadyMessage_Marshal(m) /\ SizeOf(kind, m) = ReadyMessage_Size(m)
      BY <2>1 DEF MarshalOf, SizeOf
    <3> QED
      BY <3>1, <3>2
  <2>2. CASE kind = "AnnounceMessage"
    <3>1. Sized(AnnounceMessage_Marshal(m), AnnounceMessage_Size(m))
      BY <2>2, AnnounceMessageFields, AnnounceMessageIs
    <3>2. MarshalOf(kind, m) = AnnounceMessage_Marshal(m) /\ SizeOf(kind, m) = AnnounceMessage_Size(m)
      BY <2>2 DEF MarshalOf, SizeOf
    <3> QED
      BY <3>1, <3>2
  <2>3. CASE kind = "TSSProtocolMessage"
    <3>1. Sized(TSSProtocolMessage_Marshal(m), TSSProtocolMessage_Size(m))
      BY <2>3, TSSProtocolMessageFields, TSSProtocolMessageIs
    <3>2. MarshalOf(kind, m) = TSSProtocolMessage_Marshal(m) /\ SizeOf(kind, m) = TSSProtocolMessage_Size(m)
      BY <2>3 DEF MarshalOf, SizeOf
    <3> QED
      BY <3>1, <3>2
  <2>4. CASE kind = "RecoveryMessage"
    <3>1. Sized(RecoveryMessage_Marshal(m), RecoveryMessage_Size(m))
      BY <2>4, RecoveryMessageFields, RecoveryMessageIs
    <3>2. MarshalOf(kind, m) = RecoveryMessage_Marshal(m) /\ SizeOf(kind, m) = RecoveryMessage_Size(m)
      BY <2>4 DEF MarshalOf, SizeOf
    <3> QED
      BY <3>1, <3>2
  <2>5. CASE kind = "GroupInfo"
    <3>1. Sized(GroupInfo_Marshal(m), GroupInfo_Size(m))
      BY <2>5, GroupInfoFields, GroupInfoIs
    <3>2. MarshalOf(kind, m) = GroupInfo_Marshal(m) /\ SizeOf(kind, m) = GroupInfo_Size(m)
      BY <2>5 DEF MarshalOf, SizeOf
    <3> QED
      BY <3>1, <3>2
  <2>6. CASE kind = "ThresholdSigner"
    <3>1. Sized(ThresholdSigner_Marshal(m), ThresholdSigner_Size(m))
      BY <2>6, ThresholdSignerFields, ThresholdSignerIs
    <3>2. MarshalOf(kind, m) = ThresholdSigner_Marshal(m) /\ SizeOf(kind, m) = ThresholdSigner_Size(m)
      BY <2>6 DEF MarshalOf, SizeOf
    <3> QED
      BY <3>1, <3>2
  <2>7. CASE kind = "PrivateKey"
    <3>1. Sized(PrivateKey_Marshal(m), PrivateKey_Size(m))
      BY <2>7, PrivateKeyFields, PrivateKeyIs
    <3>2. MarshalOf(kind, m) = PrivateKey_Marshal(m) /\ SizeOf(kind, m) = PrivateKey_Size(m)
      BY <2>7 DEF MarshalOf, SizeOf
    <3> QED
      BY <3>1, <3>2
  <2>8. CASE kind = "LocalPreParams"
    <3>1. Sized(LocalPreParams_Marshal(m), LocalPreParams_Size(m))
      BY <2>8, LocalPreParamsFields, LocalPreParamsIs
    <3>2. MarshalOf(kind, m) = LocalPreParams_Marshal(m) /\ SizeOf(kind, m) = LocalPreParams_Size(m)
      BY <2>8 DEF MarshalOf, SizeOf
    <3> QED
      BY <3>1, <3>2
  <2>9. CASE kind = "LocalSecrets"
    <3>1. Sized(LocalSecrets_Marshal(m), LocalSecrets_Size(m))
      BY <2>9, LocalSecretsFields, LocalSecretsIs
    <3>2. MarshalOf(kind, m) = LocalSecrets_Marshal(m) /\ SizeOf(kind, m) = LocalSecrets_Size(m)
      BY <2>9 DEF MarshalOf, SizeOf
    <3> QED
      BY <3>1, <3>2
  <2>10. CASE kind = "ECPoint"
    <3>1. Sized(ECPoint_Marshal(m), ECPoint_Size(m))
      BY <2>10, ECPointFields, ECPointIs
    <3>2. MarshalOf(kind, m) = ECPoint_Marshal(m) /\ SizeOf(kind, m) = ECPoint_Size(m)
      BY <2>10 DEF MarshalOf, SizeOf
    <3> QED
      BY <3>1, <3>2
  <2>11. CASE kind = "LocalPartySaveData"
    <3>1. Sized(LocalPartySaveData_Marshal(m), LocalPartySaveData_Size(m))
      BY <2>11, LocalPartySaveDataFields, LocalPartySaveDataIs
    <3>2. MarshalOf(kind, m) = LocalPartySaveData_Marshal(m) /\ SizeOf(kind, m) = LocalPartySaveData_Size(m)
      BY <2>11 DEF MarshalOf, SizeOf
    <3> QED
      BY <3>1, <3>2
  <2> QED
    BY <2>1, <2>2, <2>3, <2>4, <2>5, <2>6, <2>7, <2>8, <2>9, <2>10, <2>11 DEF Kinds
<1>2. Buffer(SizeOf(kind, m), MarshalOf(kind, m)) = MarshalOf(kind, m)
  BY <1>1, BufferIs
<1> QED
  BY <1>1, <1>2 DEF Sized, ByteSeqs

\* What an input is encoded to.
LEMMA EncodedIs ==
    ASSUME NEW in \in Inputs
    PROVE  /\ in.kind \in Kinds /\ in.kind \in MessageKinds \cup {"ThresholdSigner"}
           /\ Sent(in) \in MsgOf[in.kind] /\ Encoded(in) = MarshalOf(in.kind, Sent(in))
           /\ Encoded(in) \in ByteSeqs /\ Len(Encoded(in)) < 2^(WordBits - 1)
<1>1. in.kind \in DOMAIN ValuesOf /\ in.value \in ValuesOf[in.kind] /\ Len(Encoded(in)) < 2^(WordBits - 1)
  BY WireAssumption
<1>2. in.kind \in MessageKinds \cup {"ThresholdSigner"}
  BY <1>1 DEF ValuesOf, MessageKinds
<1>3. in.kind \in Kinds
  BY <1>2 DEF MessageKinds, Kinds
<1>4. Sent(in) \in MsgOf[in.kind] /\ Encoded(in) = Buffer(SizeOf(in.kind, Sent(in)), MarshalOf(in.kind, Sent(in)))
  <2>1. CASE in.kind = "TSSProtocolMessage"
    <3>1. Sent(in) = in.value
      BY <2>1 DEF Sent
    <3>2. in.value \in ValuesOf["TSSProtocolMessage"]
      BY <1>1, <2>1
    <3>3. in.value \in TSSMsgs
      BY <3>2 DEF ValuesOf, TSSMsgs, ByteSeqs
    <3>4. Encoded(in) = Buffer(TSSProtocolMessage_Size(in.value), TSSProtocolMessage_Marshal(in.value))
      BY <2>1 DEF Encoded
    <3>5. MarshalOf(in.kind, in.value) = TSSProtocolMessage_Marshal(in.value) /\ SizeOf(in.kind, in.value) = TSSProtocolMessage_Size(in.value)
      BY <2>1 DEF MarshalOf, SizeOf
    <3> QED
      BY <2>1, <3>1, <3>3, <3>4, <3>5, TSSProtocolMessageFields
  <2>2. CASE in.kind = "ReadyMessage"
    <3>1. Sent(in) = in.value
      BY <2>2 DEF Sent
    <3>2. in.value \in ValuesOf["ReadyMessage"]
      BY <1>1, <2>2
    <3>3. in.value \in ReadyMsgs
      BY <3>2 DEF ValuesOf, ReadyMsgs, ByteSeqs
    <3>4. Encoded(in) = Buffer(ReadyMessage_Size(in.value), ReadyMessage_Marshal(in.value))
      BY <2>2 DEF Encoded
    <3>5. MarshalOf(in.kind, in.value) = ReadyMessage_Marshal(in.value) /\ SizeOf(in.kind, in.value) = ReadyMessage_Size(in.value)
      BY <2>2 DEF MarshalOf, SizeOf
    <3> QED
      BY <2>2, <3>1, <3>3, <3>4, <3>5, ReadyMessageFields
  <2>3. CASE in.kind = "AnnounceMessage"
    <3>1. Sent(in) = in.value
      BY <2>3 DEF Sent
    <3>2. in.value \in ValuesOf["AnnounceMessage"]
      BY <1>1, <2>3
    <3>3. in.value \in AnnounceMsgs
      BY <3>2 DEF ValuesOf, AnnounceMsgs, ByteSeqs
    <3>4. Encoded(in) = Buffer(AnnounceMessage_Size(in.value), AnnounceMessage_Marshal(in.value))
      BY <2>3 DEF Encoded
    <3>5. MarshalOf(in.kind, in.value) = AnnounceMessage_Marshal(in.value) /\ SizeOf(in.kind, in.value) = AnnounceMessage_Size(in.value)
      BY <2>3 DEF MarshalOf, SizeOf
    <3> QED
      BY <2>3, <3>1, <3>3, <3>4, <3>5, AnnounceMessageFields
  <2>4. CASE in.kind = "RecoveryMessage"
    <3>1. Sent(in) = in.value
      BY <2>4 DEF Sent
    <3>2. in.value \in ValuesOf["RecoveryMessage"]
      BY <1>1, <2>4
    <3>3. in.value \in RecoveryMsgs
      BY <3>2, Int32sAre DEF ValuesOf, RecoveryMsgs, ByteSeqs
    <3>4. Encoded(in) = Buffer(RecoveryMessage_Size(in.value), RecoveryMessage_Marshal(in.value))
      BY <2>4 DEF Encoded
    <3>5. MarshalOf(in.kind, in.value) = RecoveryMessage_Marshal(in.value) /\ SizeOf(in.kind, in.value) = RecoveryMessage_Size(in.value)
      BY <2>4 DEF MarshalOf, SizeOf
    <3> QED
      BY <2>4, <3>1, <3>3, <3>4, <3>5, RecoveryMessageFields
  <2>5. CASE in.kind = "ThresholdSigner"
    <3>1. PICK pb : pb = Signer_Marshal(in.value)
      OBVIOUS
    <3>2. Sent(in) = pb
      BY <2>5, <3>1 DEF Sent
    <3>3. in.value \in Signers
      BY <1>1, <2>5 DEF ValuesOf
    <3>4. pb \in SignerMsgs
      BY <3>1, <3>3, SignerType
    <3>5. Encoded(in) = Buffer(ThresholdSigner_Size(pb), ThresholdSigner_Marshal(pb))
      BY <2>5, <3>1 DEF Encoded
    <3>6. MarshalOf(in.kind, pb) = ThresholdSigner_Marshal(pb) /\ SizeOf(in.kind, pb) = ThresholdSigner_Size(pb)
      BY <2>5 DEF MarshalOf, SizeOf
    <3> QED
      BY <2>5, <3>2, <3>4, <3>5, <3>6, ThresholdSignerFields
  <2> QED
    BY <1>2, <2>1, <2>2, <2>3, <2>4, <2>5 DEF MessageKinds
<1>5. Encoded(in) = MarshalOf(in.kind, Sent(in)) /\ Encoded(in) \in ByteSeqs
  BY <1>3, <1>4, SizeIsLength DEF ByteSeqs
<1> QED
  BY <1>1, <1>2, <1>3, <1>4, <1>5

-----------------------------------------------------------------------------
(* The calls of Unmarshal that are running: each has a message of its kind  *)
(* and an index into its data, and each but the first was made for a field  *)
(* of the one below it.                                                    *)

Names == {"none"} \cup UNION {{f.name : f \in Range(FieldsOf[k])} : k \in Kinds}
CallsOf(k) ==
    [kind : {k}, m : MsgOf[k], data : ByteSeqs, iNdEx : Nat, skipping : BOOLEAN, depth : Nat,
     into : Names, postIndex : Nat]
Calls == {c \in UNION {CallsOf(k) : k \in Kinds} : c.iNdEx <= Len(c.data)}

Nested(caller, c) ==
    /\ c.postIndex <= Len(caller.data)
    /\ \E n \in DOMAIN FieldsOf[caller.kind] :
          LET f == FieldsOf[caller.kind][n]
          IN f.type \in {"message", "messages"} /\ f.name = c.into /\ f.of = c.kind

StackOk(s) == s \in Seq(Calls) /\ \A j \in 2..Len(s) : Nested(s[j - 1], s[j])

\* A call that goes on with the same data, for the same field of its caller.
SameCall(c, d) == c.kind = d.kind /\ c.data = d.data /\ c.into = d.into /\ c.postIndex = d.postIndex

WireInv ==
    /\ input \in Inputs /\ dAtA \in ByteSeqs /\ damage \subseteq {"added", "cut", "changed"}
    /\ phase \in {"marshal", "transfer", "unmarshal", "done", "failed"}
    /\ StackOk(stack)

LEMMA FrontLast ==
    ASSUME NEW S, NEW s \in Seq(S), s # <<>>
    PROVE  /\ Len(s) \in Nat \ {0} /\ Last(s) = s[Len(s)] /\ Last(s) \in S
           /\ Front(s) \in Seq(S) /\ Len(Front(s)) = Len(s) - 1
           /\ \A j \in 1..(Len(s) - 1) : Front(s)[j] = s[j]
<1>1. PICK n \in Nat : n = Len(s) /\ n > 0 /\ DOMAIN s = 1..n
  OBVIOUS
<1>2. \A i \in 1..(n - 1) : s[i] \in S
  BY <1>1
<1>3. n - 1 \in Int /\ 1 \in Int
  BY <1>1
<1>4. PICK f : f = SubSeq(s, 1, n - 1)
  OBVIOUS
<1>5. /\ f \in Seq(S) /\ Len(f) = IF 1 <= n - 1 THEN (n - 1) - 1 + 1 ELSE 0
      /\ \A i \in 1..((n - 1) - 1 + 1) : f[i] = s[1 + i - 1]
  BY <1>2, <1>3, <1>4, SubSeqProperties
<1>6. Len(f) = n - 1
  BY <1>1, <1>5
<1>7. ASSUME NEW j \in 1..(n - 1) PROVE f[j] = s[j]
  BY <1>1, <1>5
<1>8. Front(s) = f /\ Last(s) = s[n]
  BY <1>1, <1>4 DEF Front, Last
<1>9. s[n] \in S
  BY <1>1
<1> QED
  BY <1>1, <1>5, <1>6, <1>7, <1>8, <1>9

LEMMA ReplaceLast ==
    ASSUME NEW S, NEW s \in Seq(S), s # <<>>, NEW e \in S
    PROVE  LET t == Append(Front(s), e) IN
           /\ t \in Seq(S) /\ Len(t) = Len(s) /\ t[Len(s)] = e
           /\ \A j \in 1..(Len(s) - 1) : t[j] = s[j]
<1>1. PICK n \in Nat, f \in Seq(S) :
            n = Len(s) /\ n > 0 /\ f = Front(s) /\ Len(f) = n - 1 /\ \A j \in 1..(n - 1) : f[j] = s[j]
  BY FrontLast
<1>2. PICK t : t = Append(f, e)
  OBVIOUS
<1>3. /\ t \in Seq(S) /\ Len(t) = Len(f) + 1 /\ t[Len(f) + 1] = e
      /\ \A i \in 1..Len(f) : t[i] = f[i]
  BY <1>2, AppendProperties
<1> QED
  BY <1>1, <1>2, <1>3

LEMMA ReplaceTwo ==
    ASSUME NEW S, NEW s \in Seq(S), Len(s) > 1, NEW e \in S
    PROVE  LET t == Append(Front(Front(s)), e) IN
           /\ t \in Seq(S) /\ Len(t) = Len(s) - 1 /\ t[Len(s) - 1] = e
           /\ \A j \in 1..(Len(s) - 2) : t[j] = s[j]
<1>1. PICK n \in Nat, f \in Seq(S) :
            n = Len(s) /\ n > 1 /\ f = Front(s) /\ Len(f) = n - 1 /\ \A j \in 1..(n - 1) : f[j] = s[j]
  BY FrontLast
<1>2. PICK t : t = Append(Front(f), e)
  OBVIOUS
<1>3. f # <<>>
  BY <1>1
<1>4. /\ t \in Seq(S) /\ Len(t) = Len(f) /\ t[Len(f)] = e
      /\ \A j \in 1..(Len(f) - 1) : t[j] = f[j]
  BY <1>2, <1>3, ReplaceLast
<1> QED
  BY <1>1, <1>2, <1>4

LEMMA StackReplace ==
    ASSUME NEW s, StackOk(s), s # <<>>, NEW c \in Calls, SameCall(c, Last(s))
    PROVE  StackOk(Append(Front(s), c))
<1>1. s \in Seq(Calls) /\ \A j \in 2..Len(s) : Nested(s[j - 1], s[j])
  BY DEF StackOk
<1>2. PICK n \in Nat : n = Len(s) /\ n > 0 /\ Last(s) = s[n]
  <2>1. s \in Seq(Calls)
    BY <1>1
  <2>2. Len(s) \in Nat \ {0}
    BY <2>1
  <2> QED
    BY <2>2 DEF Last
<1>3. PICK t : t = Append(Front(s), c)
  OBVIOUS
<1>4. t \in Seq(Calls) /\ Len(t) = n /\ t[n] = c /\ \A j \in 1..(n - 1) : t[j] = s[j]
  BY <1>1, <1>2, <1>3, ReplaceLast
<1>5. ASSUME NEW j \in 2..n PROVE Nested(t[j - 1], t[j])
  <2>1. Nested(s[j - 1], s[j]) /\ t[j - 1] = s[j - 1]
    BY <1>1, <1>2, <1>4
  <2>2. CASE j = n
    BY <1>2, <1>4, <2>1, <2>2, Zenon DEF Nested, SameCall
  <2>3. CASE j # n
    <3>1. t[j] = s[j]
      BY <1>4, <2>3
    <3> QED
      BY <2>1, <3>1
  <2> QED
    BY <2>2, <2>3
<1> QED
  BY <1>3, <1>4, <1>5 DEF StackOk

LEMMA StackPush ==
    ASSUME NEW s, StackOk(s), s # <<>>, NEW c \in Calls, Nested(Last(s), c)
    PROVE  StackOk(Append(s, c))
<1>1. s \in Seq(Calls) /\ \A j \in 2..Len(s) : Nested(s[j - 1], s[j])
  BY DEF StackOk
<1>2. PICK n \in Nat : n = Len(s) /\ n > 0 /\ Last(s) = s[n]
  <2>1. s \in Seq(Calls)
    BY <1>1
  <2>2. Len(s) \in Nat \ {0}
    BY <2>1
  <2> QED
    BY <2>2 DEF Last
<1>3. PICK t : t = Append(s, c)
  OBVIOUS
<1>4. t \in Seq(Calls) /\ Len(t) = n + 1 /\ t[n + 1] = c /\ \A j \in 1..n : t[j] = s[j]
  BY <1>1, <1>2, <1>3, AppendProperties
<1>5. ASSUME NEW j \in 2..(n + 1) PROVE Nested(t[j - 1], t[j])
  <2>1. CASE j = n + 1
    BY <1>2, <1>4, <2>1
  <2>2. CASE j # n + 1
    BY <1>1, <1>2, <1>4, <2>2
  <2> QED
    BY <2>1, <2>2
<1> QED
  BY <1>3, <1>4, <1>5 DEF StackOk

LEMMA StackPop ==
    ASSUME NEW s, StackOk(s), Len(s) > 1, NEW c \in Calls, SameCall(c, s[Len(s) - 1])
    PROVE  StackOk(Append(Front(Front(s)), c))
<1>1. s \in Seq(Calls) /\ \A j \in 2..Len(s) : Nested(s[j - 1], s[j])
  BY DEF StackOk
<1>2. PICK n \in Nat : n = Len(s) /\ n > 1
  BY <1>1
<1>3. PICK t : t = Append(Front(Front(s)), c)
  OBVIOUS
<1>4. t \in Seq(Calls) /\ Len(t) = n - 1 /\ t[n - 1] = c /\ \A j \in 1..(n - 2) : t[j] = s[j]
  BY <1>1, <1>2, <1>3, ReplaceTwo
<1>5. ASSUME NEW j \in 2..(n - 1) PROVE Nested(t[j - 1], t[j])
  <2>1. Nested(s[j - 1], s[j]) /\ t[j - 1] = s[j - 1]
    BY <1>1, <1>2, <1>4
  <2>2. CASE j = n - 1
    BY <1>2, <1>4, <2>1, <2>2, Zenon DEF Nested, SameCall
  <2>3. CASE j # n - 1
    <3>1. t[j] = s[j]
      BY <1>4, <2>3
    <3> QED
      BY <2>1, <3>1
  <2> QED
    BY <2>2, <2>3
<1> QED
  BY <1>3, <1>4, <1>5 DEF StackOk

LEMMA CallIs ==
    ASSUME NEW c \in Calls
    PROVE  /\ c.kind \in Kinds /\ c.m \in MsgOf[c.kind] /\ c.data \in ByteSeqs /\ Len(c.data) \in Nat
           /\ c.iNdEx \in Nat /\ c.iNdEx <= Len(c.data) /\ c.skipping \in BOOLEAN /\ c.depth \in Nat
           /\ c.into \in Names /\ c.postIndex \in Nat /\ c \in CallsOf(c.kind)
<1>1. PICK k \in Kinds : c \in CallsOf(k) /\ c.iNdEx <= Len(c.data)
  BY DEF Calls
<1>2. c.data \in ByteSeqs /\ c.kind = k
  BY <1>1 DEF CallsOf
<1>3. Len(c.data) \in Nat
  BY <1>2, LenByteSeq
<1> QED
  BY <1>1, <1>2, <1>3 DEF CallsOf

LEMMA CallOf ==
    ASSUME NEW k \in Kinds, NEW c \in CallsOf(k), c.iNdEx <= Len(c.data)
    PROVE  c \in Calls
BY DEF Calls

LEMMA NewCall ==
    ASSUME NEW k \in Kinds, NEW m \in MsgOf[k], NEW data \in ByteSeqs, NEW name \in Names, NEW post \in Nat
    PROVE  Call(k, m, data, name, post) \in Calls
<1>1. Call(k, m, data, name, post) \in CallsOf(k)
  BY DEF Call, CallsOf
<1>2. Call(k, m, data, name, post).iNdEx <= Len(Call(k, m, data, name, post).data)
  BY LenByteSeq DEF Call
<1> QED
  BY <1>1, <1>2, CallOf

LEMMA CallSet ==
    ASSUME NEW c \in Calls, NEW x, NEW v, [c.m EXCEPT ![x] = v] \in MsgOf[c.kind],
           NEW i \in Nat, i <= Len(c.data)
    PROVE  LET d == [c EXCEPT !.m[x] = v, !.iNdEx = i]
           IN d \in Calls /\ SameCall(d, c)
<1>1. PICK d : d = [c EXCEPT !.m[x] = v, !.iNdEx = i]
  OBVIOUS
<1>2. PICK k \in Kinds : k = c.kind /\ c \in CallsOf(k)
  BY CallIs
<1>3. PICK m : m = [c.m EXCEPT ![x] = v] /\ m \in MsgOf[k]
  BY <1>2
<1>4. d = [c EXCEPT !.m = m, !.iNdEx = i]
  BY <1>1, <1>3
<1>5. d \in CallsOf(k) /\ d.iNdEx = i /\ SameCall(d, c)
  BY <1>2, <1>3, <1>4 DEF CallsOf, SameCall
<1>6. d \in Calls
  BY <1>5, CallOf DEF SameCall
<1> QED
  BY <1>1, <1>5, <1>6

LEMMA CallSkips ==
    ASSUME NEW c \in Calls
    PROVE  LET d == [c EXCEPT !.skipping = TRUE]
           IN d \in Calls /\ SameCall(d, c)
<1>1. PICK d : d = [c EXCEPT !.skipping = TRUE]
  OBVIOUS
<1>2. PICK k \in Kinds : k = c.kind /\ c \in CallsOf(k) /\ c.iNdEx <= Len(c.data)
  BY CallIs
<1>3. d \in CallsOf(k) /\ d.iNdEx = c.iNdEx /\ SameCall(d, c)
  BY <1>1, <1>2 DEF CallsOf, SameCall
<1>4. d \in Calls
  BY <1>2, <1>3, CallOf DEF SameCall
<1> QED
  BY <1>1, <1>3, <1>4

LEMMA CallSkipped ==
    ASSUME NEW c \in Calls, NEW i \in Nat, i <= Len(c.data), NEW dp \in Nat
    PROVE  LET d == [c EXCEPT !.iNdEx = i, !.depth = dp, !.skipping = dp > 0]
           IN d \in Calls /\ SameCall(d, c)
<1>1. PICK b \in BOOLEAN : b = (dp > 0)
  <2>1. (dp > 0) \in BOOLEAN
    BY SMT
  <2> QED
    BY <2>1, Zenon
<1>2. PICK d : d = [c EXCEPT !.iNdEx = i, !.depth = dp, !.skipping = b]
  OBVIOUS
<1>3. PICK k \in Kinds : k = c.kind /\ c \in CallsOf(k)
  BY CallIs
<1>4. d \in CallsOf(k) /\ d.iNdEx = i /\ SameCall(d, c)
  BY <1>2, <1>3 DEF CallsOf, SameCall
<1>5. d \in Calls
  BY <1>4, CallOf DEF SameCall
<1>6. d = [c EXCEPT !.iNdEx = i, !.depth = dp, !.skipping = dp > 0]
  BY <1>1, <1>2
<1> QED
  BY <1>4, <1>5, <1>6

LEMMA FieldHolds ==
    ASSUME NEW kind \in Kinds, NEW n \in DOMAIN FieldsOf[kind], NEW m \in MsgOf[kind]
    PROVE  Holds(kind, n, m)
<1>1. CASE kind = "ReadyMessage"
  BY <1>1, ReadyMessageFields, ReadyMessageHolds
<1>2. CASE kind = "AnnounceMessage"
  BY <1>2, AnnounceMessageFields, AnnounceMessageHolds
<1>3. CASE kind = "TSSProtocolMessage"
  BY <1>3, TSSProtocolMessageFields, TSSProtocolMessageHolds
<1>4. CASE kind = "RecoveryMessage"
  BY <1>4, RecoveryMessageFields, RecoveryMessageHolds
<1>5. CASE kind = "GroupInfo"
  BY <1>5, GroupInfoFields, GroupInfoHolds
<1>6. CASE kind = "ThresholdSigner"
  BY <1>6, ThresholdSignerFields, ThresholdSignerHolds
<1>7. CASE kind = "PrivateKey"
  BY <1>7, PrivateKeyFields, PrivateKeyHolds
<1>8. CASE kind = "LocalPreParams"
  BY <1>8, LocalPreParamsFields, LocalPreParamsHolds
<1>9. CASE kind = "LocalSecrets"
  BY <1>9, LocalSecretsFields, LocalSecretsHolds
<1>10. CASE kind = "ECPoint"
  BY <1>10, ECPointFields, ECPointHolds
<1>11. CASE kind = "LocalPartySaveData"
  BY <1>11, LocalPartySaveDataFields, LocalPartySaveDataHolds
<1> QED
  BY <1>1, <1>2, <1>3, <1>4, <1>5, <1>6, <1>7, <1>8, <1>9, <1>10, <1>11 DEF Kinds

LEMMA ZeroType == ASSUME NEW kind \in Kinds PROVE Zero[kind] \in MsgOf[kind]
<1>1. CASE kind = "ReadyMessage"
  <2>1. Zero["ReadyMessage"] = ReadyMessage
    BY DEF Zero
  <2>2. ReadyMessage \in ReadyMsgs
    BY EmptyByteSeq DEF ReadyMessage, ReadyMsgs
  <2> QED
    BY <1>1, <2>1, <2>2, ReadyMessageFields
<1>2. CASE kind = "AnnounceMessage"
  <2>1. Zero["AnnounceMessage"] = AnnounceMessage
    BY DEF Zero
  <2>2. AnnounceMessage \in AnnounceMsgs
    BY EmptyByteSeq DEF AnnounceMessage, AnnounceMsgs
  <2> QED
    BY <1>2, <2>1, <2>2, AnnounceMessageFields
<1>3. CASE kind = "TSSProtocolMessage"
  <2>1. Zero["TSSProtocolMessage"] = TSSProtocolMessage
    BY DEF Zero
  <2>2. TSSProtocolMessage \in TSSMsgs
    BY EmptyByteSeq DEF TSSProtocolMessage, TSSMsgs
  <2> QED
    BY <1>3, <2>1, <2>2, TSSProtocolMessageFields
<1>4. CASE kind = "RecoveryMessage"
  <2>1. Zero["RecoveryMessage"] = RecoveryMessage
    BY DEF Zero
  <2>2. RecoveryMessage \in RecoveryMsgs
    BY EmptyByteSeq DEF RecoveryMessage, RecoveryMsgs
  <2> QED
    BY <1>4, <2>1, <2>2, RecoveryMessageFields
<1>5. CASE kind = "GroupInfo"
  <2>1. Zero["GroupInfo"] = GroupInfo
    BY DEF Zero
  <2>2. GroupInfo \in GroupInfos
    BY EmptyByteSeq DEF GroupInfo, GroupInfos
  <2> QED
    BY <1>5, <2>1, <2>2, GroupInfoFields
<1>6. CASE kind = "ThresholdSigner"
  <2>1. Zero["ThresholdSigner"] = ThresholdSigner
    BY DEF Zero
  <2>2. ThresholdSigner \in SignerMsgs
    BY EmptyByteSeq DEF ThresholdSigner, SignerMsgs
  <2> QED
    BY <1>6, <2>1, <2>2, ThresholdSignerFields
<1>7. CASE kind = "PrivateKey"
  <2>1. Zero["PrivateKey"] = PrivateKey
    BY DEF Zero
  <2>2. PrivateKey \in PrivateKeys
    BY EmptyByteSeq DEF PrivateKey, PrivateKeys
  <2> QED
    BY <1>7, <2>1, <2>2, PrivateKeyFields
<1>8. CASE kind = "LocalPreParams"
  <2>1. Zero["LocalPreParams"] = LocalPreParams
    BY DEF Zero
  <2>2. LocalPreParams \in PreParams
    BY EmptyByteSeq DEF LocalPreParams, PreParams
  <2> QED
    BY <1>8, <2>1, <2>2, LocalPreParamsFields
<1>9. CASE kind = "LocalSecrets"
  <2>1. Zero["LocalSecrets"] = LocalSecrets
    BY DEF Zero
  <2>2. LocalSecrets \in Secrets
    BY EmptyByteSeq DEF LocalSecrets, Secrets
  <2> QED
    BY <1>9, <2>1, <2>2, LocalSecretsFields
<1>10. CASE kind = "ECPoint"
  <2>1. Zero["ECPoint"] = ECPoint
    BY DEF Zero
  <2>2. ECPoint \in ECPoints
    BY EmptyByteSeq DEF ECPoint, ECPoints
  <2> QED
    BY <1>10, <2>1, <2>2, ECPointFields
<1>11. CASE kind = "LocalPartySaveData"
  <2>1. Zero["LocalPartySaveData"] = LocalPartySaveData
    BY DEF Zero
  <2>2. LocalPartySaveData \in SaveData
    BY EmptyByteSeq DEF LocalPartySaveData, SaveData
  <2> QED
    BY <1>11, <2>1, <2>2, LocalPartySaveDataFields
<1> QED
  BY <1>1, <1>2, <1>3, <1>4, <1>5, <1>6, <1>7, <1>8, <1>9, <1>10, <1>11 DEF Kinds

LEMMA TopIs ==
    ASSUME StackOk(stack), stack # <<>>
    PROVE  Top \in Calls /\ Top = stack[Len(stack)] /\ Len(stack) \in Nat \ {0}
<1>1. stack \in Seq(Calls)
  BY DEF StackOk
<1>2. Len(stack) \in Nat \ {0} /\ stack[Len(stack)] \in Calls
  BY <1>1
<1> QED
  BY <1>2 DEF Top, Last

\* A step of the running call keeps the stack in order: it fails, goes on, or calls
\* Unmarshal for a field that holds messages.
Moves == \E d \in Calls : SameCall(d, Top) /\ Replace(d) /\ Goes
Pushes ==
    /\ \E n \in DOMAIN FieldsOf[Top.kind] : FieldsOf[Top.kind][n].type \in {"message", "messages"}
    /\ Goes
Proceeds == StackOk(stack') /\ (Fail \/ Moves \/ Pushes)

LEMMA FailProceeds == ASSUME StackOk(stack), Fail PROVE Proceeds
BY DEF Fail, Proceeds

LEMMA ReplaceProceeds ==
    ASSUME StackOk(stack), stack # <<>>, NEW c, c \in Calls /\ SameCall(c, Top), Replace(c), Goes
    PROVE  Proceeds
<1>1. StackOk(Append(Front(stack), c))
  BY StackReplace DEF Top
<1> QED
  BY <1>1 DEF Replace, Proceeds, Moves

LEMMA ReadVarintProceeds ==
    ASSUME StackOk(stack), stack # <<>>, NEW n \in DOMAIN FieldsOf[Top.kind], NEW i \in Nat,
           FieldsOf[Top.kind][n].type \in {"bool", "int32"},
           ReadVarint(Top, FieldsOf[Top.kind][n], i)
    PROVE  Proceeds
<1>1. PICK c \in Calls : c = Top
  BY TopIs
<1>2. PICK f : f = FieldsOf[c.kind][n]
  OBVIOUS
<1>3. Holds(c.kind, n, c.m)
  BY <1>1, CallIs, FieldHolds
<1>4. PICK bits \in Nat : bits = IF f.type = "bool" THEN WordBits ELSE IntBits
  BY WidthsAre
<1>5. PICK v : v = decodeVarint(c.data, i, bits)
  OBVIOUS
<1>6. /\ v.value \in Nat /\ v.next \in Nat
      /\ v.ok => v.next <= Len(c.data)
  <2>1. c.data \in Seq(Byte)
    BY CallIs DEF ByteSeqs
  <2>2. /\ v \in [ok : BOOLEAN, value : Nat, next : Nat]
        /\ v.ok => i < v.next /\ v.next <= Len(c.data)
    BY <1>5, <2>1, DecodeType
  <2> QED
    BY <2>2
<1>7. PICK value : value = IF f.type = "bool" THEN v.value # 0 ELSE Signed(v.value, IntBits)
  OBVIOUS
<1>8. IF ~v.ok THEN Fail ELSE Replace([c EXCEPT !.m[f.name] = value, !.iNdEx = v.next]) /\ Goes
  BY <1>1, <1>2, <1>4, <1>5, <1>7, Zenon DEF ReadVarint
<1>9. CASE ~v.ok
  BY <1>8, <1>9, FailProceeds
<1>10. CASE v.ok
  <2>1. value \in TypeOf(f)
    <3>1. CASE f.type = "bool"
      <4>1. (v.value # 0) \in BOOLEAN
        OBVIOUS
      <4>2. TypeOf(f) = BOOLEAN
        BY <3>1 DEF TypeOf
      <4> QED
        BY <1>7, <3>1, <4>1, <4>2, Zenon
    <3>2. CASE f.type = "int32"
      <4>1. v.value \in Int
        BY <1>6
      <4>2. Signed(v.value, IntBits) \in Int
        BY <4>1, WidthsAre, SignedType
      <4>3. TypeOf(f) = Int
        BY <3>2 DEF TypeOf
      <4> QED
        BY <1>7, <3>2, <4>2, <4>3
    <3> QED
      BY <1>1, <1>2, <3>1, <3>2
  <2>2. [c.m EXCEPT ![f.name] = value] \in MsgOf[c.kind]
    BY <1>2, <1>3, <2>1 DEF Holds
  <2>3. PICK d : d = [c EXCEPT !.m[f.name] = value, !.iNdEx = v.next]
    OBVIOUS
  <2>4. d \in Calls /\ SameCall(d, c)
    BY <1>6, <1>10, <2>2, <2>3, CallSet, Zenon
  <2>5. Replace(d) /\ Goes
    BY <1>8, <1>10, <2>3
  <2> QED
    BY <1>1, <2>4, <2>5, ReplaceProceeds
<1> QED
  BY <1>9, <1>10

LEMMA ReadDelimitedProceeds ==
    ASSUME StackOk(stack), stack # <<>>, NEW n \in DOMAIN FieldsOf[Top.kind], NEW i \in Nat,
           FieldsOf[Top.kind][n].type \notin {"bool", "int32"},
           ReadDelimited(Top, FieldsOf[Top.kind][n], i)
    PROVE  Proceeds
<1>1. PICK c \in Calls : c = Top
  BY TopIs
<1>2. PICK f : f = FieldsOf[c.kind][n]
  OBVIOUS
<1>3. Holds(c.kind, n, c.m)
  BY <1>1, CallIs, FieldHolds
<1>4. PICK v : v = decodeVarint(c.data, i, WordBits)
  OBVIOUS
<1>5. /\ v.value \in Nat /\ v.next \in Nat
      /\ v.ok => v.next <= Len(c.data)
  <2>1. c.data \in Seq(Byte)
    BY CallIs DEF ByteSeqs
  <2>2. /\ v \in [ok : BOOLEAN, value : Nat, next : Nat]
        /\ v.ok => i < v.next /\ v.next <= Len(c.data)
    BY <1>4, <2>1, DecodeType, WidthsAre
  <2> QED
    BY <2>2
<1>6. PICK length \in Int : length = Signed(v.value, WordBits)
  <2>1. v.value \in Int
    BY <1>5
  <2> QED
    BY <2>1, SignedType, WidthsAre
<1>7. PICK post \in Int : post = Signed(v.next + length, WordBits)
  <2>1. v.next + length \in Int
    BY <1>5
  <2> QED
    BY <2>1, SignedType, WidthsAre
<1>8. PICK content : content = SubSeq(c.data, v.next + 1, post)
  OBVIOUS
<1>9. IF ~v.ok \/ length < 0 \/ post < 0 \/ post > Len(c.data) THEN Fail
      ELSE /\ CASE f.type = "bytes" -> Replace([c EXCEPT !.m[f.name] = content, !.iNdEx = post])
                [] f.type = "list" -> Replace([c EXCEPT !.m[f.name] = Append(c.m[f.name], content), !.iNdEx = post])
                [] f.type = "message" -> stack' = Append(stack, Call(f.of, Get(c.m[f.name], f.of), content, f.name, post))
                [] f.type = "messages" -> stack' = Append(stack, Call(f.of, Zero[f.of], content, f.name, post))
           /\ Goes
  <2>1. ReadDelimited(c, f, i)
    BY <1>1, <1>2
  <2>2. \E u \in {v} : \E l \in {Signed(u.value, WordBits)} : \E p \in {Signed(u.next + l, WordBits)} :
            LET b == SubSeq(c.data, u.next + 1, p)
            IN IF ~u.ok \/ l < 0 \/ p < 0 \/ p > Len(c.data) THEN Fail
               ELSE /\ CASE f.type = "bytes" -> Replace([c EXCEPT !.m[f.name] = b, !.iNdEx = p])
                         [] f.type = "list" -> Replace([c EXCEPT !.m[f.name] = Append(c.m[f.name], b), !.iNdEx = p])
                         [] f.type = "message" -> stack' = Append(stack, Call(f.of, Get(c.m[f.name], f.of), b, f.name, p))
                         [] f.type = "messages" -> stack' = Append(stack, Call(f.of, Zero[f.of], b, f.name, p))
                    /\ Goes
    BY <1>4, <2>1 DEF ReadDelimited
  <2> QED
    BY <1>6, <1>7, <1>8, <2>2, Zenon
<1>10. CASE ~v.ok \/ length < 0 \/ post < 0 \/ post > Len(c.data)
  BY <1>9, <1>10, FailProceeds
<1>11. CASE ~(~v.ok \/ length < 0 \/ post < 0 \/ post > Len(c.data))
  <2>1. post \in Nat /\ post <= Len(c.data) /\ v.next \in Nat
    <3>1. Len(c.data) \in Nat
      BY CallIs
    <3> QED
      BY <1>5, <1>11, <3>1
  <2>2. content \in ByteSeqs
    <3>1. \A j \in (v.next + 1)..post : c.data[j] \in Byte
      BY <2>1, CallIs DEF ByteSeqs
    <3>2. v.next + 1 \in Int
      BY <2>1
    <3> QED
      BY <1>8, <3>1, <3>2, SubSeqProperties DEF ByteSeqs
  <2>3. ASSUME NEW x \in TypeOf(f), Replace([c EXCEPT !.m[f.name] = x, !.iNdEx = post]), Goes
        PROVE  Proceeds
    <3>1. [c.m EXCEPT ![f.name] = x] \in MsgOf[c.kind]
      BY <1>2, <1>3, <2>3 DEF Holds
    <3>2. PICK d : d = [c EXCEPT !.m[f.name] = x, !.iNdEx = post]
      OBVIOUS
    <3>3. d \in Calls /\ SameCall(d, c)
      BY <2>1, <3>1, <3>2, CallSet, Zenon
    <3>4. Replace(d) /\ Goes
      BY <2>3, <3>2
    <3> QED
      BY <1>1, <3>3, <3>4, ReplaceProceeds
  <2>4. ASSUME NEW m, f.type \in {"message", "messages"}, m \in MsgOf[f.of],
               stack' = Append(stack, Call(f.of, m, content, f.name, post)), Goes
        PROVE  Proceeds
    <3>1. f.of \in Kinds
      BY <1>2, <1>3, <2>4 DEF Holds
    <3>2. f.name \in Names
      <4>1. c.kind \in Kinds
        BY CallIs
      <4>2. f \in Range(FieldsOf[c.kind])
        BY <1>1, <1>2, Zenon DEF Range
      <4>3. f.name \in {g.name : g \in Range(FieldsOf[c.kind])}
        BY <4>2
      <4> QED
        BY <4>1, <4>3 DEF Names
    <3>3. PICK d : d = Call(f.of, m, content, f.name, post)
      OBVIOUS
    <3>4. d \in Calls
      BY <2>1, <2>2, <2>4, <3>1, <3>2, <3>3, NewCall
    <3>5. d.kind = f.of /\ d.into = f.name /\ d.postIndex = post
      BY <3>3 DEF Call
    <3>6. Nested(c, d)
      BY <1>1, <1>2, <2>1, <2>4, <3>5 DEF Nested
    <3>7. StackOk(Append(stack, d))
      BY <1>1, <3>4, <3>6, StackPush DEF Top
    <3> QED
      BY <1>1, <1>2, <2>4, <3>3, <3>7 DEF Proceeds, Pushes
  <2>5. CASE f.type = "bytes"
    <3>1. content \in TypeOf(f)
      BY <2>2, <2>5 DEF TypeOf
    <3> QED
      BY <1>9, <1>11, <2>3, <2>5, <3>1, Zenon
  <2>6. CASE f.type = "list"
    <3>1. TypeOf(f) = Seq(ByteSeqs)
      BY <2>6 DEF TypeOf
    <3>2. c.m[f.name] \in Seq(ByteSeqs)
      BY <1>2, <1>3, <3>1 DEF Holds
    <3>3. Append(c.m[f.name], content) \in Seq(ByteSeqs)
      BY <2>2, <3>2, AppendProperties
    <3> QED
      BY <1>9, <1>11, <2>3, <2>6, <3>1, <3>3, Zenon
  <2>7. CASE f.type = "message"
    <3>1. f.of \in Kinds /\ TypeOf(f) = Seq(MsgOf[f.of])
      BY <1>2, <1>3, <2>7 DEF Holds, TypeOf
    <3>2. c.m[f.name] \in Seq(MsgOf[f.of])
      BY <1>2, <1>3, <3>1 DEF Holds
    <3>3. Zero[f.of] \in MsgOf[f.of]
      BY <3>1, ZeroType
    <3>4. Get(c.m[f.name], f.of) \in MsgOf[f.of]
      BY <3>2, <3>3 DEF Get
    <3> QED
      BY <1>9, <1>11, <2>4, <2>7, <3>4
  <2>8. CASE f.type = "messages"
    <3>1. Zero[f.of] \in MsgOf[f.of]
      BY <1>2, <1>3, <2>8, ZeroType DEF Holds
    <3> QED
      BY <1>9, <1>11, <2>4, <2>8, <3>1
  <2> QED
    BY <1>1, <1>2, <1>3, <2>5, <2>6, <2>7, <2>8 DEF Holds
<1> QED
  BY <1>10, <1>11

LEMMA DecodedIs ==
    ASSUME NEW c \in Calls, NEW i \in Nat, NEW v, v = decodeVarint(c.data, i, WordBits)
    PROVE  /\ v.ok \in BOOLEAN /\ v.value \in Nat /\ v.next \in Nat
           /\ v.ok => i < v.next /\ v.next <= Len(c.data)
<1>1. c.data \in Seq(Byte)
  BY CallIs DEF ByteSeqs
<1>2. /\ v \in [ok : BOOLEAN, value : Nat, next : Nat]
      /\ v.ok => i < v.next /\ v.next <= Len(c.data)
  BY <1>1, DecodeType, WidthsAre
<1> QED
  BY <1>2

LEMMA ReadFieldProceeds == ASSUME StackOk(stack), ReadField PROVE Proceeds
<1>1. stack # <<>>
  BY DEF ReadField
<1>2. PICK c \in Calls : c = Top
  BY <1>1, TopIs
<1>3. c.kind \in Kinds /\ c.iNdEx \in Nat /\ c.m \in MsgOf[c.kind]
  BY CallIs
<1>4. PICK wire : wire = decodeVarint(c.data, c.iNdEx, WordBits)
  OBVIOUS
<1>5. wire.next \in Nat /\ wire.value \in Nat
  BY <1>3, <1>4, DecodedIs
<1>6. PICK n : n = Signed(wire.value \div 8, IntBits)
  OBVIOUS
<1>7. IF ~wire.ok \/ wire.value % 8 = 4 \/ n <= 0 THEN Fail
      ELSE IF n \notin DOMAIN FieldsOf[c.kind] THEN Replace([c EXCEPT !.skipping = TRUE]) /\ Goes
      ELSE IF wire.value % 8 # WireTypeOf(FieldsOf[c.kind][n].type) THEN Fail
      ELSE IF wire.value % 8 = 0 THEN ReadVarint(c, FieldsOf[c.kind][n], wire.next)
      ELSE ReadDelimited(c, FieldsOf[c.kind][n], wire.next)
  BY <1>2, <1>4, <1>6 DEF ReadField
<1>8. ASSUME Replace([c EXCEPT !.skipping = TRUE]), Goes PROVE Proceeds
  <2>1. PICK d : d = [c EXCEPT !.skipping = TRUE]
    OBVIOUS
  <2>2. d \in Calls /\ SameCall(d, c)
    BY <2>1, CallSkips
  <2> QED
    BY <1>1, <1>2, <1>8, <2>1, <2>2, ReplaceProceeds
<1>9. CASE ~(~wire.ok \/ wire.value % 8 = 4 \/ n <= 0) /\ n \in DOMAIN FieldsOf[c.kind]
  <2>1. PICK f : f = FieldsOf[c.kind][n]
    OBVIOUS
  <2>2. PICK w : w = wire.value % 8
    OBVIOUS
  <2>3. Holds(c.kind, n, c.m)
    BY <1>3, <1>9, FieldHolds
  <2>4. IF w # WireTypeOf(f.type) THEN Fail
        ELSE IF w = 0 THEN ReadVarint(c, f, wire.next)
        ELSE ReadDelimited(c, f, wire.next)
    BY <1>7, <1>9, <2>1, <2>2
  <2>5. CASE w # WireTypeOf(f.type)
    BY <2>4, <2>5, FailProceeds
  <2>6. CASE w = WireTypeOf(f.type) /\ w = 0
    <3>1. f.type \in {"bool", "int32"}
      BY <2>6 DEF WireTypeOf
    <3>2. ReadVarint(c, f, wire.next)
      BY <2>4, <2>6
    <3> QED
      BY <1>1, <1>2, <1>5, <1>9, <2>1, <3>1, <3>2, ReadVarintProceeds
  <2>7. CASE w = WireTypeOf(f.type) /\ w # 0
    <3>1. f.type \notin {"bool", "int32"}
      BY <2>7 DEF WireTypeOf
    <3>2. ReadDelimited(c, f, wire.next)
      BY <2>4, <2>7
    <3> QED
      BY <1>1, <1>2, <1>5, <1>9, <2>1, <3>1, <3>2, ReadDelimitedProceeds
  <2> QED
    BY <2>5, <2>6, <2>7
<1>10. CASE Fail
  BY <1>10, FailProceeds
<1> QED
  BY <1>7, <1>8, <1>9, <1>10

LEMMA SkipEndsProceeds ==
    ASSUME StackOk(stack), stack # <<>>, NEW next \in Int, NEW dp \in Nat, SkipEnds(Top, next, dp)
    PROVE  Proceeds
<1>1. PICK c \in Calls : c = Top
  BY TopIs
<1>2. IF next < 0 \/ next > Len(c.data) THEN Fail
      ELSE Replace([c EXCEPT !.iNdEx = next, !.depth = dp, !.skipping = dp > 0]) /\ Goes
  BY <1>1, Zenon DEF SkipEnds
<1>3. CASE next < 0 \/ next > Len(c.data)
  BY <1>2, <1>3, FailProceeds
<1>4. CASE ~(next < 0 \/ next > Len(c.data))
  <2>1. next \in Nat /\ next <= Len(c.data)
    BY <1>4, CallIs
  <2>2. PICK d : d = [c EXCEPT !.iNdEx = next, !.depth = dp, !.skipping = dp > 0]
    BY Zenon
  <2>3. d \in Calls /\ SameCall(d, c)
    BY <2>1, <2>2, CallSkipped, Zenon
  <2>4. Replace(d) /\ Goes
    BY <1>2, <1>4, <2>2, Zenon
  <2> QED
    BY <1>1, <2>3, <2>4, ReplaceProceeds
<1> QED
  BY <1>3, <1>4

LEMMA SkipProceeds == ASSUME StackOk(stack), skipMessage PROVE Proceeds
<1>1. stack # <<>>
  BY DEF skipMessage
<1>2. PICK c \in Calls : c = Top
  BY <1>1, TopIs
<1>3. c.iNdEx \in Nat /\ c.depth \in Nat
  BY CallIs
<1>4. PICK wire : wire = decodeVarint(c.data, c.iNdEx, WordBits)
  OBVIOUS
<1>5. wire.next \in Nat /\ wire.value \in Nat
  BY <1>3, <1>4, DecodedIs
<1>6. PICK v : v = decodeVarint(c.data, wire.next, WordBits)
  OBVIOUS
<1>7. v.next \in Nat /\ v.value \in Nat
  BY <1>5, <1>6, DecodedIs
<1>8. PICK length \in Int : length = Signed(v.value, WordBits)
  <2>1. v.value \in Int
    BY <1>7
  <2> QED
    BY <2>1, SignedType, WidthsAre
<1>9. PICK post \in Int : post = Signed(v.next + length, WordBits)
  <2>1. v.next + length \in Int
    BY <1>7
  <2> QED
    BY <2>1, SignedType, WidthsAre
<1>10. PICK w \in 0..7 : w = wire.value % 8
  BY <1>5
<1>11. IF ~wire.ok \/ (w \in {0, 2} /\ ~v.ok) \/ w \in {6, 7} THEN Fail
       ELSE CASE w = 0 -> SkipEnds(c, v.next, c.depth)
              [] w = 1 -> SkipEnds(c, wire.next + 8, c.depth)
              [] w = 2 -> IF length < 0 THEN Fail ELSE SkipEnds(c, post, c.depth)
              [] w = 3 -> SkipEnds(c, wire.next, c.depth + 1)
              [] w = 4 -> IF c.depth = 0 THEN Fail ELSE SkipEnds(c, wire.next, c.depth - 1)
              [] w = 5 -> SkipEnds(c, wire.next + 4, c.depth)
  BY <1>2, <1>4, <1>6, <1>8, <1>9, <1>10 DEF skipMessage
<1>12. CASE Fail
  BY <1>12, FailProceeds
<1>13. \A next \in Int, dp \in Nat : SkipEnds(c, next, dp) => Proceeds
  BY <1>1, <1>2, SkipEndsProceeds
<1>14. CASE w = 0
  BY <1>3, <1>7, <1>11, <1>12, <1>13, <1>14
<1>15. CASE w = 1
  BY <1>3, <1>5, <1>11, <1>12, <1>13, <1>15
<1>16. CASE w = 2
  BY <1>3, <1>11, <1>12, <1>13, <1>16
<1>17. CASE w = 3
  BY <1>3, <1>5, <1>11, <1>12, <1>13, <1>17
<1>18. CASE w = 4
  BY <1>3, <1>5, <1>11, <1>12, <1>13, <1>18
<1>19. CASE w = 5
  BY <1>3, <1>5, <1>11, <1>12, <1>13, <1>19
<1>20. CASE w \in {6, 7}
  BY <1>11, <1>12, <1>20
<1> QED
  BY <1>14, <1>15, <1>16, <1>17, <1>18, <1>19, <1>20

\* The field of the caller that a nested call is for, and what the caller does
\* with the message.
FieldFor(c, d) == CHOOSE g \in Range(FieldsOf[c.kind]) : g.name = d.into
Taken(c, d, f) ==
    LET new == IF f.type = "message" THEN <<d.m>> ELSE Append(c.m[f.name], d.m)
    IN [c EXCEPT !.m[f.name] = new, !.iNdEx = d.postIndex]

LEMMA NestedField ==
    ASSUME NEW c \in Calls, NEW d \in Calls, Nested(c, d)
    PROVE  \E f : /\ f = FieldFor(c, d)
                  /\ \E n \in DOMAIN FieldsOf[c.kind] : f = FieldsOf[c.kind][n] /\ Holds(c.kind, n, c.m)
                  /\ f.type \in {"message", "messages"} /\ f.name = d.into /\ f.of = d.kind
                  /\ f.of \in Kinds /\ TypeOf(f) = Seq(MsgOf[f.of])
<1>1. PICK n \in DOMAIN FieldsOf[c.kind] :
          LET f == FieldsOf[c.kind][n]
          IN f.type \in {"message", "messages"} /\ f.name = d.into /\ f.of = d.kind
  BY DEF Nested
<1>2. PICK f : f = FieldsOf[c.kind][n]
  OBVIOUS
<1>3. Holds(c.kind, n, c.m)
  BY CallIs, FieldHolds
<1>4. f = FieldFor(c, d)
  BY <1>1, <1>2, <1>3, Zenon DEF Holds, FieldFor
<1>5. f.of \in Kinds /\ TypeOf(f) = Seq(MsgOf[f.of])
  BY <1>1, <1>2, <1>3 DEF Holds, TypeOf
<1> QED
  BY <1>1, <1>2, <1>3, <1>4, <1>5

LEMMA ReturnProceeds == ASSUME StackOk(stack), Return PROVE StackOk(stack') /\ phase' = phase
<1>1. Len(stack) > 1 /\ stack \in Seq(Calls) /\ stack # <<>>
  BY DEF Return, StackOk
<1>2. PICK d \in Calls : d = Top /\ d = stack[Len(stack)]
  BY <1>1, TopIs
<1>3. PICK c \in Calls : c = stack[Len(stack) - 1]
  BY <1>1
<1>4. Nested(c, d)
  <2>1. Len(stack) \in 2..Len(stack)
    BY <1>1
  <2> QED
    BY <1>2, <1>3, <2>1 DEF StackOk
<1>5. PICK f : /\ f = FieldFor(c, d)
               /\ \E n \in DOMAIN FieldsOf[c.kind] : f = FieldsOf[c.kind][n] /\ Holds(c.kind, n, c.m)
               /\ f.type \in {"message", "messages"} /\ f.name = d.into /\ f.of = d.kind
               /\ f.of \in Kinds /\ TypeOf(f) = Seq(MsgOf[f.of])
  BY <1>4, NestedField
<1>6. PICK new : new = IF f.type = "message" THEN <<d.m>> ELSE Append(c.m[f.name], d.m)
  OBVIOUS
<1>7. stack' = Append(Front(Front(stack)), [c EXCEPT !.m[f.name] = new, !.iNdEx = d.postIndex]) /\ phase' = phase
  <2>1. /\ stack' = Append(Front(Front(stack)), Taken(stack[Len(stack) - 1], Top, FieldFor(stack[Len(stack) - 1], Top)))
        /\ phase' = phase
    BY DEF Return, Taken, FieldFor
  <2>2. stack' = Append(Front(Front(stack)), Taken(c, d, f)) /\ phase' = phase
    BY <1>2, <1>3, <1>5, <2>1
  <2>3. Taken(c, d, f) = [c EXCEPT !.m[f.name] = new, !.iNdEx = d.postIndex]
    BY <1>6 DEF Taken
  <2> QED
    BY <2>2, <2>3
<1>8. new \in TypeOf(f)
  <2>1. d.m \in MsgOf[f.of]
    BY <1>5, CallIs
  <2>2. c.m[f.name] \in Seq(MsgOf[f.of])
    BY <1>5 DEF Holds
  <2>3. <<d.m>> \in Seq(MsgOf[f.of]) /\ Append(c.m[f.name], d.m) \in Seq(MsgOf[f.of])
    BY <2>1, <2>2, OneOf, AppendProperties
  <2> QED
    BY <1>5, <1>6, <2>3
<1>9. [c.m EXCEPT ![f.name] = new] \in MsgOf[c.kind]
  BY <1>5, <1>8 DEF Holds
<1>10. PICK e : e = [c EXCEPT !.m[f.name] = new, !.iNdEx = d.postIndex]
  OBVIOUS
<1>11. e \in Calls /\ SameCall(e, c)
  <2>1. d.postIndex \in Nat /\ d.postIndex <= Len(c.data)
    BY <1>4, CallIs DEF Nested
  <2> QED
    BY <1>9, <1>10, <2>1, CallSet, Zenon
<1>12. StackOk(Append(Front(Front(stack)), e))
  BY <1>1, <1>3, <1>11, StackPop
<1> QED
  BY <1>7, <1>10, <1>12

LEMMA StackOfOne == ASSUME NEW c \in Calls PROVE StackOk(<<c>>)
BY DEF StackOk

LEMMA StackOfNone == StackOk(<<>>)
BY DEF StackOk

LEMMA NoneIsName == "none" \in Names
BY DEF Names

LEMMA FinishProceeds == ASSUME StackOk(stack), Finish PROVE StackOk(stack') /\ phase' \in {phase, "done", "failed"}
<1>1. Len(stack) = 1 /\ stack # <<>>
  <2>1. stack \in Seq(Calls)
    BY DEF StackOk
  <2> QED
    BY <2>1 DEF Finish
<1>2. PICK c \in Calls : c = Top
  BY <1>1, TopIs
<1>3. CASE c.kind = "ThresholdSigner"
  <2>1. stack' = <<Call("LocalPartySaveData", LocalPartySaveData, c.m.ThresholdKey, "none", 0)>> /\ phase' = phase
    BY <1>2, <1>3 DEF Finish, Goes
  <2>2. c.m.ThresholdKey \in ByteSeqs
    <3>1. c.m \in SignerMsgs
      BY <1>3, CallIs, ThresholdSignerFields
    <3> QED
      BY <3>1 DEF SignerMsgs
  <2>3. LocalPartySaveData \in MsgOf["LocalPartySaveData"] /\ "LocalPartySaveData" \in Kinds
    <3>1. "LocalPartySaveData" \in Kinds /\ Zero["LocalPartySaveData"] = LocalPartySaveData
      BY DEF Kinds, Zero
    <3> QED
      BY <3>1, ZeroType
  <2>4. Call("LocalPartySaveData", LocalPartySaveData, c.m.ThresholdKey, "none", 0) \in Calls
    BY <2>2, <2>3, NewCall, NoneIsName
  <2> QED
    BY <2>1, <2>4, StackOfOne
<1>4. CASE c.kind # "ThresholdSigner"
  <2>1. (stack' = <<>> /\ phase' = "done") \/ Fail
    BY <1>2, <1>4 DEF Finish
  <2> QED
    BY <2>1, StackOfNone DEF Fail
<1> QED
  BY <1>3, <1>4

LEMMA UnmarshalProceeds == ASSUME WireInv, Unmarshal PROVE StackOk(stack')
<1>1. PICK k \in Kinds : k = input.kind
  BY EncodedIs DEF WireInv
<1>2. PICK m : m = IF k = "ThresholdSigner"
                   THEN [ThresholdSigner EXCEPT !.GroupInfo = <<GroupInfo>>] ELSE Zero[k]
  OBVIOUS
<1>3. stack' = <<Call(k, m, dAtA, "none", 0)>>
  BY <1>1, <1>2 DEF Unmarshal
<1>4. m \in MsgOf[k]
  <2>1. CASE k = "ThresholdSigner"
    <3>1. GroupInfo \in GroupInfos
      BY EmptyByteSeq DEF GroupInfo, GroupInfos
    <3>2. <<GroupInfo>> \in Seq(GroupInfos)
      BY <3>1, OneOf
    <3>3. m = [GroupInfo |-> <<GroupInfo>>, ThresholdKey |-> <<>>]
      BY <1>2, <2>1 DEF ThresholdSigner
    <3> QED
      BY <2>1, <3>2, <3>3, EmptyByteSeq, ThresholdSignerFields DEF SignerMsgs
  <2> QED
    BY <1>2, <2>1, ZeroType
<1>5. dAtA \in ByteSeqs
  BY DEF WireInv
<1>6. Call(k, m, dAtA, "none", 0) \in Calls
  BY <1>4, <1>5, NewCall, NoneIsName
<1> QED
  BY <1>3, <1>6, StackOfOne

LEMMA CutType ==
    ASSUME NEW b \in ByteSeqs, NEW n \in 0..Len(b)
    PROVE  /\ SubSeq(b, 1, n) \in ByteSeqs /\ Len(SubSeq(b, 1, n)) = n
           /\ \A j \in 1..n : SubSeq(b, 1, n)[j] = b[j]
<1>1. \A i \in 1..n : b[i] \in Byte
  BY DEF ByteSeqs
<1>2. n \in Int /\ 1 \in Int /\ n \in Nat
  BY LenByteSeq
<1>3. PICK c : c = SubSeq(b, 1, n)
  OBVIOUS
<1>4. /\ c \in Seq(Byte) /\ Len(c) = IF 1 <= n THEN n - 1 + 1 ELSE 0
      /\ \A i \in 1..(n - 1 + 1) : c[i] = b[1 + i - 1]
  BY <1>1, <1>2, <1>3, SubSeqProperties
<1>5. Len(c) = n
  BY <1>2, <1>4
<1>6. ASSUME NEW j \in 1..n PROVE c[j] = b[j]
  BY <1>2, <1>4
<1> QED
  BY <1>3, <1>4, <1>5, <1>6 DEF ByteSeqs

\* The bytes of an unknown field, one element after the other.
LEMMA ElementIs ==
    ASSUME NEW e \in Elements
    PROVE  /\ e.num \in Nat /\ e.num > 0 /\ e.num < 2^(IntBits - 3) /\ e.wireType \in 0..5
           /\ e.content \in ByteSeqs /\ 8 * e.num + e.wireType \in Nat
           /\ 8 * e.num + e.wireType < 2^IntBits /\ 8 * e.num + e.wireType < 2^WordBits
<1>1. IntBits - 3 \in Nat /\ IntBits \in Nat /\ WordBits \in Nat /\ IntBits <= WordBits
  BY WidthAssumption
<1>2. PICK p \in Nat : p = 2^(IntBits - 3)
  BY <1>1, PowType
<1>3. e.num \in 1..(p - 1) /\ e.wireType \in 0..5 /\ e.content \in ByteSeqs
  BY <1>2 DEF Elements, ByteSeqs
<1>4. 2^IntBits = 8 * p
  <2>1. PICK a \in Nat : a = IntBits - 3 /\ a + 3 = IntBits
    BY <1>1
  <2>2. 2^(a + 3) = 2^a * 2^3
    BY PowSum
  <2>3. 2^3 = 8
    OBVIOUS
  <2> QED
    BY <1>2, <2>1, <2>2, <2>3
<1>5. 2^IntBits <= 2^WordBits /\ 2^WordBits \in Nat
  BY <1>1, PowMonotone, PowType
<1> QED
  BY <1>2, <1>3, <1>4, <1>5

LEMMA ElementBytesIs ==
    ASSUME NEW e \in Elements
    PROVE  ElementBytes(e) \in ByteSeqs
<1>1. encodeVarint(8 * e.num + e.wireType) \in ByteSeqs /\ e.content \in ByteSeqs
  BY ElementIs, EncodedType
<1>2. (IF e.wireType = 2 THEN encodeVarint(Len(e.content)) ELSE <<>>) \in ByteSeqs
  BY <1>1, LenByteSeq, EncodedType, EmptyByteSeq
<1>3. PICK a, b, c : /\ a = encodeVarint(8 * e.num + e.wireType) /\ c = e.content
                     /\ b = IF e.wireType = 2 THEN encodeVarint(Len(e.content)) ELSE <<>>
  OBVIOUS
<1>4. a \o b \in ByteSeqs
  BY <1>1, <1>2, <1>3, ConcatType
<1>5. (a \o b) \o c \in ByteSeqs
  BY <1>1, <1>3, <1>4, ConcatType
<1> QED
  BY <1>3, <1>5, Zenon DEF ElementBytes

LEMMA FieldBytesIs ==
    ASSUME NEW field \in Seq(Elements)
    PROVE  /\ FieldBytes(field) \in ByteSeqs
           /\ \E F \in [0..Len(field) -> ByteSeqs] :
                /\ F[0] = <<>> /\ \A k \in 1..Len(field) : F[k] = F[k - 1] \o ElementBytes(field[k])
                /\ FieldBytes(field) = F[Len(field)]
<1>1. PICK n \in Nat : n = Len(field) /\ DOMAIN field = 1..n
  OBVIOUS
<1>2. PICK seqs : seqs = [i \in 1..n |-> ElementBytes(field[i])]
  OBVIOUS
<1>3. ASSUME NEW i \in 1..n PROVE ElementBytes(field[i]) \in ByteSeqs
  <2>1. field[i] \in Elements
    BY <1>1
  <2> QED
    BY <2>1, ElementBytesIs
<1>4. seqs \in [1..n -> ByteSeqs] /\ \A k \in 1..n : seqs[k] = ElementBytes(field[k])
  BY <1>2, <1>3
<1>5. PICK F \in [0..n -> ByteSeqs] :
              /\ F[0] = <<>> /\ \A k \in 1..n : F[k] = F[k - 1] \o seqs[k]
              /\ FlattenSeq(seqs) = F[n]
  BY <1>4, FlattenSteps, Zenon
<1>6. FieldBytes(field) = FlattenSeq(seqs)
  BY <1>1, <1>2 DEF FieldBytes, Each
<1> QED
  BY <1>1, <1>4, <1>5, <1>6

LEMMA BytesStep == ASSUME WireInv, WireNext PROVE dAtA' \in ByteSeqs
<1>1. dAtA \in ByteSeqs /\ input \in Inputs
  BY DEF WireInv
<1>2. CASE Marshal
  BY <1>1, <1>2, EncodedIs DEF Marshal
<1>3. CASE Add
  <2>1. PICK field \in Additions : dAtA' = FieldBytes(field) \o dAtA \/ dAtA' = dAtA \o FieldBytes(field)
    BY <1>3 DEF Add
  <2>2. field \in Seq(Elements)
    BY WireAssumption DEF UnknownFields
  <2>3. FieldBytes(field) \in ByteSeqs
    BY <2>2, FieldBytesIs
  <2> QED
    BY <1>1, <2>1, <2>3, ConcatType
<1>4. CASE Cut
  <2>1. PICK n \in 0..(Len(dAtA) - 1) : dAtA' = SubSeq(dAtA, 1, n)
    BY <1>4 DEF Cut
  <2>2. n \in 0..Len(dAtA)
    BY <1>1, LenByteSeq
  <2> QED
    BY <1>1, <2>1, <2>2, CutType
<1>5. CASE Change
  <2>1. PICK i \in DOMAIN dAtA, b \in OtherBytes : dAtA' = [dAtA EXCEPT ![i] = b]
    BY <1>5 DEF Change
  <2>2. b \in Byte
    BY WireAssumption
  <2> QED
    BY <1>1, <2>1, <2>2 DEF ByteSeqs
<1>6. CASE UNCHANGED dAtA
  BY <1>1, <1>6
<1> QED
  BY <1>2, <1>3, <1>4, <1>5, <1>6, Zenon DEF WireNext, Unmarshal, ReadField, skipMessage, Return, Finish

LEMMA WireInvInit == WireInit => WireInv
BY EmptyByteSeq, StackOfNone DEF WireInit, WireInv

LEMMA WireInvNext == WireInv /\ [WireNext]_wireVars => WireInv'
<1> SUFFICES ASSUME WireInv, [WireNext]_wireVars PROVE WireInv'
  OBVIOUS
<1>1. CASE UNCHANGED wireVars
  BY <1>1 DEF WireInv, wireVars, StackOk
<1>2. CASE WireNext
  <2>1. dAtA' \in ByteSeqs
    BY <1>2, BytesStep
  <2>2. input' = input /\ damage' \subseteq {"added", "cut", "changed"}
    BY <1>2, Zenon DEF WireNext, WireInv, Marshal, Add, Cut, Change, Unmarshal, ReadField, skipMessage, Return, Finish
  <2>3. StackOk(stack') /\ phase' \in {"marshal", "transfer", "unmarshal", "done", "failed"}
    <3>1. StackOk(stack) /\ phase \in {"marshal", "transfer", "unmarshal", "done", "failed"}
      BY DEF WireInv
    <3>2. CASE Marshal
      BY <3>1, <3>2 DEF Marshal
    <3>3. CASE Add \/ Cut \/ Change
      BY <3>1, <3>3 DEF Add, Cut, Change
    <3>4. CASE Unmarshal
      BY <3>4, UnmarshalProceeds DEF Unmarshal
    <3>5. CASE ReadField
      BY <3>1, <3>5, ReadFieldProceeds DEF Proceeds, Fail, Moves, Pushes, Goes
    <3>6. CASE skipMessage
      BY <3>1, <3>6, SkipProceeds DEF Proceeds, Fail, Moves, Pushes, Goes
    <3>7. CASE Return
      BY <3>1, <3>7, ReturnProceeds
    <3>8. CASE Finish
      BY <3>1, <3>8, FinishProceeds
    <3> QED
      BY <1>2, <3>2, <3>3, <3>4, <3>5, <3>6, <3>7, <3>8 DEF WireNext
  <2> QED
    BY <2>1, <2>2, <2>3 DEF WireInv, StackOk
<1> QED
  BY <1>1, <1>2

\* Type correctness of unmarshalling, whatever the bytes: every call has a message
\* of its kind, and was made for a field of its caller that holds such messages.
THEOREM UnmarshalTyped == WireSpec => []WireInv
<1>1. WireInit => WireInv
  BY WireInvInit
<1>2. WireInv /\ [WireNext]_wireVars => WireInv'
  BY WireInvNext
<1> QED
  BY <1>1, <1>2, PTL DEF WireSpec

\* No bytes, cut, changed or of a later version, make Unmarshal or the skipping of
\* unknown fields read behind the end of their data.
THEOREM UnmarshalInBounds == WireSpec => []IndexInBounds
<1>1. WireInv => IndexInBounds
  <2> SUFFICES ASSUME WireInv, NEW i \in DOMAIN stack PROVE stack[i].iNdEx \in 0..Len(stack[i].data)
    BY DEF IndexInBounds
  <2>1. stack[i] \in Calls
    BY DEF WireInv, StackOk
  <2>2. PICK c \in Calls : c = stack[i]
    BY <2>1
  <2>3. c.iNdEx \in Nat /\ c.iNdEx <= Len(c.data) /\ Len(c.data) \in Nat
    BY CallIs
  <2> QED
    BY <2>2, <2>3
<1> QED
  BY <1>1, UnmarshalTyped, PTL

-----------------------------------------------------------------------------
(* What is read of a field that was written.                               *)

LEMMA SignedSmall ==
    ASSUME NEW bits \in Nat, bits > 0, NEW n \in Nat, n < 2^(bits - 1)
    PROVE  Signed(n, bits) = n
<1>1. PICK b \in Nat : b = bits - 1 /\ bits = b + 1
  OBVIOUS
<1>2. PICK h \in Nat : h = 2^b /\ h > 0
  BY PowType
<1>3. 2^bits = 2 * h
  BY <1>1, <1>2, PowNext
<1>4. n % (2 * h) = n
  <2>1. n < h
    BY <1>1, <1>2
  <2>2. ((2 * h) * 0 + n) % (2 * h) = n
    <3>1. 2 * h \in Nat /\ 2 * h > 0 /\ 0 \in Int /\ n \in Int /\ 0 <= n /\ n < 2 * h
      BY <1>2, <2>1
    <3> QED
      BY <3>1, DivisionUnique
  <2>3. (2 * h) * 0 + n = n
    OBVIOUS
  <2> QED
    BY <2>2, <2>3
<1> QED
  BY <1>1, <1>2, <1>3, <1>4 DEF Signed

LEMMA SignedBack ==
    ASSUME NEW x \in Int32s
    PROVE  Signed(x, IntBits) = x /\ Signed(Word(x) % 2^IntBits, IntBits) = x
<1>1. PICK b \in Nat : b = IntBits - 1 /\ IntBits = b + 1
  BY WidthsAre
<1>2. PICK h \in Nat : h = 2^b /\ h > 0
  BY PowType
<1>3. PICK p \in Nat : p = 2^IntBits /\ p = 2 * h
  BY <1>1, <1>2, PowNext
<1>4. x \in Int /\ -h <= x /\ x < h
  BY <1>1, <1>2 DEF Int32s
<1>5. PICK u \in Int : u = x % p /\ u = IF x >= 0 THEN x ELSE x + p
  <2>1. CASE x >= 0
    <3>1. 0 \in Int /\ p > 0 /\ x < p /\ p * 0 + x = x
      BY <1>2, <1>3, <1>4
    <3>2. (p * 0 + x) % p = x
      BY <1>4, <2>1, <3>1, DivisionUnique
    <3> QED
      BY <1>4, <2>1, <3>1, <3>2
  <2>2. CASE x < 0
    <3>1. -1 \in Int /\ p > 0 /\ x + p \in Int /\ 0 <= x + p /\ x + p < p /\ p * (-1) + (x + p) = x
      BY <1>2, <1>3, <1>4, <2>2
    <3>2. (p * (-1) + (x + p)) % p = x + p
      BY <3>1, DivisionUnique
    <3> QED
      BY <1>4, <2>2, <3>1, <3>2
  <2> QED
    BY <1>4, <2>1, <2>2
<1>6. Signed(x, IntBits) = x
  <2>1. Signed(x, IntBits) = IF u >= h THEN u - p ELSE u
    BY <1>1, <1>2, <1>3, <1>5 DEF Signed
  <2> QED
    BY <1>2, <1>3, <1>4, <1>5, <2>1
<1>7. Word(x) % p = u
  <2>1. PICK d \in Nat : WordBits = IntBits + d
    <3>1. WordBits - IntBits \in Nat /\ WordBits = IntBits + (WordBits - IntBits)
      BY WidthAssumption
    <3> QED
      BY <3>1
  <2>2. PICK c \in Nat : c = 2^d /\ c > 0
    BY PowType
  <2>3. 2^WordBits = p * c
    BY <1>3, <2>1, <2>2, PowSum, WidthsAre, Zenon
  <2>4. (x % (p * c)) % p = x % p
    <3>1. p > 0
      BY <1>2, <1>3
    <3> QED
      BY <1>4, <2>2, <3>1, ModMod
  <2> QED
    BY <1>5, <2>3, <2>4 DEF Word
<1>8. u % p = u
  <2>1. 0 \in Int /\ p > 0 /\ 0 <= u /\ u < p /\ p * 0 + u = u
    BY <1>2, <1>3, <1>4, <1>5
  <2>2. (p * 0 + u) % p = u
    BY <2>1, DivisionUnique
  <2> QED
    BY <2>1, <2>2
<1>9. Signed(u, IntBits) = Signed(x, IntBits)
  <2>1. u % 2^IntBits = x % 2^IntBits
    BY <1>3, <1>5, <1>8
  <2> QED
    BY <2>1 DEF Signed
<1> QED
  BY <1>3, <1>6, <1>7, <1>9

\* A tag of one byte.
LEMMA SmallVarint ==
    ASSUME NEW x \in 0..127
    PROVE  sov(x) = 1 /\ encodeVarint(x)[1] = x /\ x < 2^WordBits
<1>1. PICK s \in Nat : s = sov(x) /\ s > 0 /\ (s = 1 \/ x >= 2^(7 * (s - 1)))
  BY SovIs
<1>2. s = 1
  <2> SUFFICES ASSUME s > 1 PROVE FALSE
    BY <1>1
  <2>1. PICK a \in Nat : a = 7 * (s - 1) /\ 7 <= a
    BY <1>1
  <2>2. 2^7 <= 2^a
    BY <2>1, PowMonotone
  <2>3. 2^7 = 128
    OBVIOUS
  <2> QED
    BY <1>1, <2>1, <2>2, <2>3, PowType
<1>3. encodeVarint(x)[1] = x
  <2>1. PICK v \in Nat : v = x /\ sov(v) = 1
    <3>1. x \in Nat
      OBVIOUS
    <3>2. sov(x) = 1
      BY <1>1, <1>2
    <3> QED
      BY <3>1, <3>2, Zenon
  <2>0. PICK e : e = encodeVarint(v)
    OBVIOUS
  <2>2. /\ e \in Seq(Byte) /\ Len(e) = 1
        /\ \A i \in 1..1 : /\ e[i] < 128 <=> i = 1
                           /\ e[i] % 128 = (v \div 2^(7 * (i - 1))) % 128
    BY <2>1, <2>0, EncodeIs, Zenon
  <2>3. e[1] < 128 /\ e[1] % 128 = (v \div 2^(7 * (1 - 1))) % 128
    BY <2>2
  <2>4. 2^(7 * (1 - 1)) = 1
    BY PowZero
  <2>5. PICK y \in Nat : y = e[1]
    <3>1. e[1] \in Byte
      <4>1. e \in Seq(Byte) /\ 1 \in 1..Len(e)
        BY <2>2
      <4> QED
        BY <4>1, ElementOfSeq
    <3> QED
      BY <3>1 DEF Byte
  <2>6. (v \div 1) % 128 = v
    BY <2>1
  <2>7. y % 128 = v /\ y < 128
    BY <2>3, <2>4, <2>5, <2>6
  <2> QED
    BY <2>1, <2>0, <2>5, <2>7
<1>4. x < 2^WordBits
  <2>1. PICK a \in Nat, b \in Nat : a = 7 /\ b = WordBits /\ a <= b
    BY WidthAssumption
  <2>2. 2^a <= 2^b /\ 2^b \in Nat
    BY <2>1, PowMonotone, PowType
  <2>3. 2^7 = 128
    OBVIOUS
  <2> QED
    BY <2>1, <2>2, <2>3
<1> QED
  BY <1>1, <1>2, <1>3, <1>4

LEMMA ReadTag ==
    ASSUME NEW data \in ByteSeqs, NEW i \in Nat, i < Len(data), NEW num \in Nums, NEW w \in 0..7,
           data[i + 1] = 8 * num + w
    PROVE  /\ decodeVarint(data, i, WordBits) = [ok |-> TRUE, value |-> 8 * num + w, next |-> i + 1]
           /\ Signed((8 * num + w) \div 8, IntBits) = num /\ (8 * num + w) % 8 = w
<1>1. PICK x \in 0..127 : x = 8 * num + w
  BY DEF Nums
<1>2. sov(x) = 1 /\ encodeVarint(x)[1] = x /\ x < 2^WordBits
  BY SmallVarint
<1>3. Written(data, i, x)
  BY <1>1, <1>2, LenByteSeq DEF Written
<1>4. decodeVarint(data, i, WordBits) = [ok |-> TRUE, value |-> x % 2^WordBits, next |-> i + sov(x)]
  <2>1. data \in Seq(Byte) /\ x \in Nat
    BY DEF ByteSeqs
  <2>2. Decoded(data, i, x, WordBits)
    BY <1>2, <1>3, <2>1, WidthsAre, DecodeWritten
  <2> QED
    BY <2>2, Zenon DEF Decoded
<1>5. x % 2^WordBits = x
  <2>1. PICK p \in Nat : p = 2^WordBits /\ p > 0
    BY PowType, WidthsAre
  <2>2. 0 \in Int /\ x \in Int /\ 0 <= x /\ x < p /\ p * 0 + x = x
    BY <1>2, <2>1
  <2>3. (p * 0 + x) % p = x
    BY <2>1, <2>2, DivisionUnique
  <2> QED
    BY <2>1, <2>2, <2>3
<1>6. (8 * num + w) \div 8 = num /\ (8 * num + w) % 8 = w
  BY DivisionUnique DEF Nums
<1>7. Signed(num, IntBits) = num
  <2>1. IntBits - 1 \in Nat /\ 7 <= IntBits - 1
    BY WidthAssumption
  <2>2. PICK a \in Nat, b \in Nat : a = 7 /\ b = IntBits - 1 /\ a <= b
    BY <2>1
  <2>3. 2^a <= 2^b /\ 2^b \in Nat
    BY <2>2, PowMonotone, PowType
  <2>4. 2^7 = 128
    OBVIOUS
  <2>5. num \in Nat /\ num < 2^(IntBits - 1)
    BY <2>2, <2>3, <2>4 DEF Nums
  <2> QED
    BY <2>5, WidthsAre, SignedSmall
<1> QED
  BY <1>1, <1>2, <1>4, <1>5, <1>6, <1>7

\* From index i the data goes on with b, as far as it goes.
Partly(data, i, b) == \A j \in 1..Len(b) : i + j <= Len(data) => data[i + j] = b[j]

\* What decodeVarint makes of the tag and the length of a field at index i.
DelimitedAt(data, i, num, l) ==
    LET wire == decodeVarint(data, i, WordBits)
        v == decodeVarint(data, i + 1, WordBits)
    IN /\ wire = [ok |-> TRUE, value |-> 8 * num + 2, next |-> i + 1]
       /\ Signed((8 * num + 2) \div 8, IntBits) = num /\ (8 * num + 2) % 8 = 2
       /\ v.ok => /\ v.next = i + 1 + sov(l) /\ Signed(v.value, WordBits) = l
                  /\ Signed(v.next + l, WordBits) = i + DelimitedSize(l)
       /\ i + DelimitedSize(l) <= Len(data) => v.ok

LEMMA DelimitedReads ==
    ASSUME NEW data \in ByteSeqs, NEW i \in Nat, i < Len(data), NEW num \in Nums, NEW c \in ByteSeqs,
           i + DelimitedSize(Len(c)) < 2^(WordBits - 1), Partly(data, i, Delimited(num, c))
    PROVE  DelimitedAt(data, i, num, Len(c))
<1>1. PICK l \in Nat : l = Len(c)
  BY LenByteSeq
<1>2. PICK s \in Nat : s = sov(l) /\ s > 0
  BY SovIs
<1>3. PICK n \in Nat : n = Len(data)
  BY LenByteSeq
<1>4. DelimitedSize(l) = 1 + l + s
  BY <1>2 DEF DelimitedSize
<1>5. PICK d : d = Delimited(num, c)
  OBVIOUS
<1>6. /\ Len(d) = 1 + l + s /\ d[1] = 8 * num + 2
      /\ \A j \in 1..s : d[1 + j] = encodeVarint(l)[j]
  BY <1>1, <1>2, <1>4, <1>5, DelimitedIs
<1>7. \A j \in 1..(1 + l + s) : i + j <= n => data[i + j] = d[j]
  BY <1>3, <1>5, <1>6 DEF Partly
<1>8. data[i + 1] = 8 * num + 2
  BY <1>3, <1>6, <1>7
<1>9. /\ decodeVarint(data, i, WordBits) = [ok |-> TRUE, value |-> 8 * num + 2, next |-> i + 1]
      /\ Signed((8 * num + 2) \div 8, IntBits) = num /\ (8 * num + 2) % 8 = 2
  <2>1. 2 \in 0..7
    OBVIOUS
  <2> QED
    BY <1>8, <2>1, ReadTag
<1>10. PICK i1 \in Nat : i1 = i + 1
  OBVIOUS
<1>11. \A j \in 1..s : i1 + j <= n => data[i1 + j] = encodeVarint(l)[j]
  <2> SUFFICES ASSUME NEW j \in 1..s, i1 + j <= n PROVE data[i1 + j] = encodeVarint(l)[j]
    OBVIOUS
  <2>1. 1 + j \in 1..(1 + l + s) /\ i + (1 + j) <= n /\ i + (1 + j) = i1 + j
    BY <1>10
  <2> QED
    BY <1>6, <1>7, <2>1
<1>12. PICK p \in Nat : p = 2^(WordBits - 1) /\ i + 1 + l + s < p /\ 2^WordBits = 2 * p
  <2>1. PICK b \in Nat : b = WordBits - 1 /\ WordBits = b + 1
    BY WidthsAre
  <2>2. 2^b \in Nat /\ 2^(b + 1) = 2 * 2^b
    BY PowType, PowNext
  <2> QED
    BY <1>1, <1>4, <2>1, <2>2
<1>13. l < 2^WordBits
  BY <1>12
<1>14. CASE i1 + s <= n
  <2>1. decodeVarint(data, i1, WordBits) = [ok |-> TRUE, value |-> l % 2^WordBits, next |-> i1 + sov(l)]
    <3>1. Written(data, i1, l)
      BY <1>2, <1>3, <1>11, <1>14 DEF Written
    <3>2. data \in Seq(Byte)
      BY DEF ByteSeqs
    <3>3. Decoded(data, i1, l, WordBits)
      BY <1>13, <3>1, <3>2, WidthsAre, DecodeWritten
    <3> QED
      BY <3>3, Zenon DEF Decoded
  <2>2. l % 2^WordBits = l
    <3>1. PICK q \in Nat : q = 2^WordBits /\ q > 0 /\ l < q
      BY <1>12, <1>13
    <3>2. 0 \in Int /\ l \in Int /\ 0 <= l /\ q * 0 + l = l
      BY <3>1
    <3>3. (q * 0 + l) % q = l
      BY <3>1, <3>2, DivisionUnique
    <3> QED
      BY <3>1, <3>2, <3>3
  <2>3. Signed(l, WordBits) = l
    BY <1>12, WidthsAre, SignedSmall
  <2>4. PICK e \in Nat : e = i1 + s + l /\ e = i + (1 + l + s)
    BY <1>10
  <2>5. Signed(e, WordBits) = e
    BY <1>12, <2>4, WidthsAre, SignedSmall
  <2>6. PICK v : v = decodeVarint(data, i1, WordBits)
    OBVIOUS
  <2>7. v.ok /\ v.value = l /\ v.next = i1 + s
    BY <1>2, <2>1, <2>2, <2>6
  <2>8. v.next = i + 1 + sov(l) /\ v.next + l = e
    BY <1>2, <1>10, <2>4, <2>7
  <2>9. Signed(v.value, WordBits) = l /\ Signed(v.next + l, WordBits) = i + DelimitedSize(l)
    BY <1>4, <2>3, <2>4, <2>5, <2>7, <2>8
  <2> QED
    BY <1>1, <1>9, <1>10, <2>6, <2>7, <2>8, <2>9 DEF DelimitedAt
<1>15. CASE i1 + s > n
  <2>1. data \in Seq(Byte) /\ i1 + sov(l) > Len(data)
             /\ \A j \in 1..(Len(data) - i1) : data[i1 + j] = encodeVarint(l)[j]
    <3>1. ASSUME NEW j \in 1..(n - i1) PROVE data[i1 + j] = encodeVarint(l)[j]
      <4>1. j \in 1..s /\ i1 + j <= n
        BY <1>15
      <4> QED
        BY <1>11, <4>1
    <3> QED
      BY <1>2, <1>3, <1>15, <3>1 DEF ByteSeqs
  <2>2. decodeVarint(data, i1, WordBits) = [ok |-> FALSE, value |-> 0, next |-> i1]
    BY <2>1, WidthsAre, DecodeCut
  <2>3. ~(i + DelimitedSize(l) <= Len(data))
    BY <1>3, <1>4, <1>10, <1>15
  <2>4. PICK v : v = decodeVarint(data, i1, WordBits)
    OBVIOUS
  <2>5. ~v.ok
    BY <2>2, <2>4
  <2> QED
    BY <1>1, <1>9, <1>10, <2>3, <2>4, <2>5 DEF DelimitedAt
<1> QED
  BY <1>3, <1>10, <1>14, <1>15

-----------------------------------------------------------------------------
(* A signer that lost its end: the reading stops before the threshold key,  *)
(* or fails in it.                                                         *)

InfoOf(in) ==
    [GroupID |-> in.value.groupID, MemberID |-> in.value.memberID,
     GroupMemberIDs |-> in.value.groupMemberIDs,
     DishonestThreshold |-> Signed(in.value.dishonestThreshold, IntBits)]
KeyOf(in) == ThresholdKey_Marshal(in.value.thresholdKey)
InfoPart(in) == Delimited(1, GroupInfo_Marshal(InfoOf(in)))
KeyPart(in) == BytesField(2, LocalPartySaveData_Marshal(KeyOf(in)))

IsCut(data) ==
    /\ data \in ByteSeqs /\ Len(data) < Len(Encoded(input))
    /\ \A j \in 1..Len(data) : data[j] = Encoded(input)[j]

\* The signer is read: nothing yet, or the group info, and the key is still empty.
CutRead ==
    /\ Len(stack) \in {1, 2}
    /\ LET c == stack[1]
       IN /\ c.kind = "ThresholdSigner" /\ ~c.skipping /\ c.m.ThresholdKey = <<>>
          /\ IsCut(c.data) /\ c.iNdEx \in {0, Len(InfoPart(input))}
    /\ Len(stack) = 2 => /\ stack[2].kind = "GroupInfo" /\ stack[2].into = "GroupInfo"
                         /\ stack[2].postIndex = Len(InfoPart(input))
\* The empty key is read.
CutKey ==
    /\ Len(stack) = 1
    /\ LET c == stack[1]
       IN c.kind = "LocalPartySaveData" /\ c.m = LocalPartySaveData /\ c.data = <<>> /\ ~c.skipping

CutInv ==
    /\ phase = "marshal" => damage = {}
    /\ phase = "transfer" /\ damage = {} => dAtA = Encoded(input)
    /\ input.kind = "ThresholdSigner" /\ damage = {"cut"} =>
          /\ phase \in {"transfer", "unmarshal", "failed"}
          /\ phase = "transfer" => IsCut(dAtA)
          /\ phase = "unmarshal" => CutRead \/ CutKey

LEMMA EmptyConcat == ASSUME NEW b \in ByteSeqs PROVE <<>> \o b = b
BY DEF ByteSeqs

LEMMA ListOfOne ==
    ASSUME NEW num \in Nums, NEW c \in ByteSeqs
    PROVE  ListField(num, <<c>>) = Delimited(num, c)
<1>1. PICK d \in ByteSeqs : d = Delimited(num, c)
  BY DelimitedIs
<1>2. PICK seqs : seqs = [i \in 1..1 |-> Delimited(num, <<c>>[i])]
  OBVIOUS
<1>3. ListField(num, <<c>>) = FlattenSeq(seqs)
  <2>1. DOMAIN <<c>> = 1..1
    OBVIOUS
  <2> QED
    BY <1>2, <2>1 DEF ListField
<1>4. seqs \in [1..1 -> ByteSeqs] /\ seqs[1] = d
  BY <1>1, <1>2
<1>5. PICK F \in [0..1 -> ByteSeqs] :
              /\ F[0] = <<>> /\ \A k \in 1..1 : F[k] = F[k - 1] \o seqs[k]
              /\ FlattenSeq(seqs) = F[1]
  <2>1. 1 \in Nat
    OBVIOUS
  <2> QED
    BY <1>4, <2>1, FlattenSteps
<1>6. F[1] = <<>> \o d
  <2>1. 1 \in 1..1 /\ 1 - 1 = 0
    OBVIOUS
  <2>2. F[1] = F[1 - 1] \o seqs[1]
    BY <1>5, <2>1
  <2> QED
    BY <1>4, <1>5, <2>1, <2>2
<1> QED
  BY <1>1, <1>3, <1>5, <1>6, EmptyConcat

LEMMA SignerParts ==
    ASSUME NEW in \in Inputs, in.kind = "ThresholdSigner"
    PROVE  /\ InfoOf(in) \in GroupInfos /\ KeyOf(in) \in SaveData
           /\ GroupInfo_Marshal(InfoOf(in)) \in ByteSeqs /\ LocalPartySaveData_Marshal(KeyOf(in)) \in ByteSeqs
           /\ Sent(in) = [GroupInfo |-> <<InfoOf(in)>>, ThresholdKey |-> LocalPartySaveData_Marshal(KeyOf(in))]
           /\ InfoPart(in) \in ByteSeqs /\ KeyPart(in) \in ByteSeqs
           /\ Encoded(in) = InfoPart(in) \o KeyPart(in)
<1>1. in.value \in Signers
  <2>1. in.value \in ValuesOf[in.kind]
    BY WireAssumption
  <2> QED
    BY <2>1 DEF ValuesOf
<1>2. PICK info, key : info = InfoOf(in) /\ key = KeyOf(in)
  OBVIOUS
<1>3. /\ info \in GroupInfos /\ key \in SaveData
      /\ Signer_Marshal(in.value) = [GroupInfo |-> <<info>>, ThresholdKey |-> LocalPartySaveData_Marshal(key)]
  BY <1>1, <1>2, SignerType, Zenon DEF InfoOf, KeyOf
<1>4. PICK i \in ByteSeqs, k \in ByteSeqs : i = GroupInfo_Marshal(info) /\ k = LocalPartySaveData_Marshal(key)
  BY <1>3, GroupInfoIs, LocalPartySaveDataIs DEF Sized
<1>5. Sent(in) = [GroupInfo |-> <<info>>, ThresholdKey |-> k]
  BY <1>3, <1>4 DEF Sent
<1>6. InfoPart(in) \in ByteSeqs /\ KeyPart(in) \in ByteSeqs
  <2>1. 1 \in Nums /\ 2 \in Nums
    BY DEF Nums
  <2> QED
    BY <1>2, <1>4, <2>1, DelimitedIs, BytesFieldIs DEF InfoPart, KeyPart, Sized
<1>7. Encoded(in) = InfoPart(in) \o KeyPart(in)
  <2>1. Encoded(in) = MarshalOf(in.kind, Sent(in))
    BY EncodedIs
  <2>2. MarshalOf(in.kind, Sent(in)) = ThresholdSigner_Marshal(Sent(in))
    BY DEF MarshalOf
  <2>3. Sent(in).GroupInfo = <<info>> /\ Sent(in).ThresholdKey = k
    BY <1>5
  <2>4. Each(GroupInfo_Marshal, <<info>>) = <<i>>
    BY <1>4 DEF Each
  <2>5. ListField(1, <<i>>) = InfoPart(in)
    <3>1. 1 \in Nums
      BY DEF Nums
    <3> QED
      BY <1>2, <1>4, <3>1, ListOfOne DEF InfoPart
  <2>6. BytesField(2, k) = KeyPart(in)
    BY <1>2, <1>4 DEF KeyPart
  <2> QED
    BY <2>1, <2>2, <2>3, <2>4, <2>5, <2>6, Zenon DEF ThresholdSigner_Marshal
<1> QED
  BY <1>2, <1>3, <1>4, <1>5, <1>6, <1>7

\* What ReadField does with a delimited field.
Takes(c, f, content, post) ==
    /\ CASE f.type = "bytes" -> Replace([c EXCEPT !.m[f.name] = content, !.iNdEx = post])
         [] f.type = "list" -> Replace([c EXCEPT !.m[f.name] = Append(c.m[f.name], content), !.iNdEx = post])
         [] f.type = "message" -> stack' = Append(stack, Call(f.of, Get(c.m[f.name], f.of), content, f.name, post))
         [] f.type = "messages" -> stack' = Append(stack, Call(f.of, Zero[f.of], content, f.name, post))
    /\ Goes

LEMMA ReadFieldDelimited ==
    ASSUME StackOk(stack), ReadField, NEW num \in DOMAIN FieldsOf[Top.kind], num \in Nums, NEW l \in Nat,
           DelimitedAt(Top.data, Top.iNdEx, num, l), FieldsOf[Top.kind][num].type \notin {"bool", "int32"}
    PROVE  LET c == Top
               f == FieldsOf[c.kind][num]
               post == c.iNdEx + DelimitedSize(l)
               content == SubSeq(c.data, post - l + 1, post)
           IN \/ Fail /\ post > Len(c.data)
              \/ post <= Len(c.data) /\ Takes(c, f, content, post)
<1>1. stack # <<>>
  BY DEF ReadField
<1>2. PICK c \in Calls : c = Top
  BY <1>1, TopIs
<1>3. c.iNdEx \in Nat /\ Len(c.data) \in Nat
  BY CallIs
<1>4. PICK wire : wire = decodeVarint(c.data, c.iNdEx, WordBits)
  OBVIOUS
<1>5. PICK v : v = decodeVarint(c.data, c.iNdEx + 1, WordBits)
  OBVIOUS
<1>6. wire.ok /\ wire.value = 8 * num + 2 /\ wire.next = c.iNdEx + 1
  BY <1>2, <1>4 DEF DelimitedAt
<1>7. Signed(wire.value \div 8, IntBits) = num /\ wire.value % 8 = 2
  BY <1>2, <1>6 DEF DelimitedAt
<1>8. PICK f : f = FieldsOf[c.kind][num]
  OBVIOUS
<1>9. WireTypeOf(f.type) = 2 /\ num > 0 /\ num \in DOMAIN FieldsOf[c.kind]
  BY <1>2, <1>8 DEF WireTypeOf, Nums
<1>10. IF ~wire.ok \/ wire.value % 8 = 4 \/ num <= 0 THEN Fail
       ELSE IF num \notin DOMAIN FieldsOf[c.kind] THEN Replace([c EXCEPT !.skipping = TRUE]) /\ Goes
       ELSE IF wire.value % 8 # WireTypeOf(f.type) THEN Fail
       ELSE IF wire.value % 8 = 0 THEN ReadVarint(c, f, wire.next)
       ELSE ReadDelimited(c, f, wire.next)
  BY <1>2, <1>4, <1>7, <1>8 DEF ReadField
<1>11. ReadDelimited(c, f, c.iNdEx + 1)
  <2>1. ~(num <= 0)
    BY <1>9 DEF Nums
  <2> QED
    BY <1>6, <1>7, <1>9, <1>10, <2>1
<1>12. PICK post \in Nat : post = c.iNdEx + DelimitedSize(l)
  <2>1. sov(l) \in Nat
    BY SovIs
  <2> QED
    BY <1>3, <2>1 DEF DelimitedSize
<1>13. \E u \in {v} : \E length \in {Signed(u.value, WordBits)} : \E p \in {Signed(u.next + length, WordBits)} :
            IF ~u.ok \/ length < 0 \/ p < 0 \/ p > Len(c.data) THEN Fail
            ELSE Takes(c, f, SubSeq(c.data, u.next + 1, p), p)
  BY <1>5, <1>11 DEF ReadDelimited, Takes
<1>14. CASE ~v.ok
  <2>1. Fail
    BY <1>13, <1>14
  <2>2. ~(post <= Len(c.data))
    BY <1>2, <1>5, <1>12, <1>14 DEF DelimitedAt
  <2>3. post > Len(c.data)
    BY <1>3, <2>2
  <2> QED
    BY <1>2, <1>12, <2>1, <2>3
<1>15. CASE v.ok
  <2>1. Signed(v.value, WordBits) = l /\ Signed(v.next + l, WordBits) = post /\ v.next = c.iNdEx + 1 + sov(l)
    BY <1>2, <1>5, <1>12, <1>15 DEF DelimitedAt
  <2>2. v.next + 1 = post - l + 1
    <3>1. sov(l) \in Nat
      BY SovIs
    <3> QED
      BY <1>3, <1>12, <2>1, <3>1 DEF DelimitedSize
  <2>3. PICK b : b = SubSeq(c.data, post - l + 1, post)
    OBVIOUS
  <2>4. IF ~v.ok \/ l < 0 \/ post < 0 \/ post > Len(c.data) THEN Fail
        ELSE Takes(c, f, SubSeq(c.data, v.next + 1, post), post)
    BY <1>13, <2>1, Zenon
  <2>5. CASE post > Len(c.data)
    BY <1>2, <1>12, <2>4, <2>5
  <2>6. CASE ~(post > Len(c.data))
    <3>1. post <= Len(c.data) /\ ~(l < 0 \/ post < 0 \/ post > Len(c.data))
      BY <1>3, <2>6
    <3>2. Takes(c, f, b, post)
      BY <1>15, <2>2, <2>3, <2>4, <3>1
    <3> QED
      BY <1>2, <1>8, <1>12, <2>3, <3>1, <3>2
  <2> QED
    BY <2>5, <2>6
<1> QED
  BY <1>14, <1>15

LEMMA ReplaceIs ==
    ASSUME NEW S, NEW s \in Seq(S), s # <<>>, NEW e \in S, NEW t, t = Append(Front(s), e)
    PROVE  /\ t \in Seq(S) /\ Len(t) = Len(s) /\ t[Len(s)] = e
           /\ \A j \in 1..(Len(s) - 1) : t[j] = s[j]
BY ReplaceLast

Replaced(t, u, d) == Len(t) = Len(u) /\ t[1] = u[1] /\ t[Len(u)] = d

LEMMA ReplaceAbove ==
    ASSUME NEW u \in Seq(Calls), Len(u) > 1, NEW d \in Calls
    PROVE  Replaced(Append(Front(u), d), u, d)
<1>1. u # <<>>
  OBVIOUS
<1>2. PICK t : t = Append(Front(u), d)
  OBVIOUS
<1>3. Len(t) = Len(u) /\ t[Len(u)] = d /\ \A j \in 1..(Len(u) - 1) : t[j] = u[j]
  BY <1>1, <1>2, ReplaceIs
<1>4. 1 \in 1..(Len(u) - 1)
  OBVIOUS
<1> QED
  BY <1>2, <1>3, <1>4 DEF Replaced

LEMMA ReplaceOfTwo ==
    ASSUME NEW u, u \in Seq(Calls), Len(u) = 2, NEW d \in Calls, NEW t, t = Append(Front(u), d)
    PROVE  Len(t) = 2 /\ t[1] = u[1] /\ t[2] = d
<1>1. Len(u) > 1
  OBVIOUS
<1>2. Replaced(Append(Front(u), d), u, d)
  BY <1>1, ReplaceAbove, Zenon
<1> QED
  BY <1>2 DEF Replaced

LEMMA CutSigner ==
    ASSUME WireInv, input.kind = "ThresholdSigner", NEW c \in Calls, c.kind = "ThresholdSigner", IsCut(c.data)
    PROVE  /\ c.m \in SignerMsgs /\ Len(InfoPart(input)) \in Nat
           /\ c.iNdEx = 0 /\ c.iNdEx < Len(c.data) => DelimitedAt(c.data, 0, 1, Len(GroupInfo_Marshal(InfoOf(input))))
           /\ c.iNdEx = Len(InfoPart(input)) /\ c.iNdEx < Len(c.data) =>
                 /\ DelimitedAt(c.data, c.iNdEx, 2, Len(LocalPartySaveData_Marshal(KeyOf(input))))
                 /\ c.iNdEx + DelimitedSize(Len(LocalPartySaveData_Marshal(KeyOf(input)))) > Len(c.data)
           /\ Len(InfoPart(input)) = DelimitedSize(Len(GroupInfo_Marshal(InfoOf(input))))
<1>1. PICK a \in ByteSeqs, b \in ByteSeqs : a = GroupInfo_Marshal(InfoOf(input)) /\ b = LocalPartySaveData_Marshal(KeyOf(input))
  BY SignerParts DEF WireInv
<1>2. PICK ip \in ByteSeqs, kp \in ByteSeqs : ip = InfoPart(input) /\ kp = KeyPart(input)
  BY SignerParts DEF WireInv
<1>3. PICK e \in ByteSeqs : e = Encoded(input) /\ e = ip \o kp /\ Len(e) < 2^(WordBits - 1)
  BY <1>2, SignerParts, EncodedIs DEF WireInv
<1>4. 1 \in Nums /\ 2 \in Nums
  BY DEF Nums
<1>5. ip = Delimited(1, a) /\ Len(ip) = DelimitedSize(Len(a)) /\ Len(ip) \in Nat
  BY <1>1, <1>2, <1>4, DelimitedIs DEF InfoPart
<1>6. PICK n \in Nat : n = Len(c.data) /\ c.data \in ByteSeqs
  BY CallIs
<1>7. n < Len(e) /\ \A j \in 1..n : c.data[j] = e[j]
  BY <1>3, <1>6 DEF IsCut
<1>8. PICK x \in Nat, y \in Nat : x = Len(ip) /\ y = Len(kp) /\ Len(e) = x + y
  BY <1>3, LenByteSeq, ConcatType
<1>9. \A i \in 1..x : e[i] = ip[i]
  BY <1>3, <1>8, ConcatAt
<1>10. \A j \in 1..y : e[x + j] = kp[j]
  BY <1>3, <1>8, ConcatAt
<1>11. PICK p \in Nat : p = 2^(WordBits - 1)
  <2>1. WordBits - 1 \in Nat
    BY WidthsAre
  <2> QED
    BY <2>1, PowType
<1>12. ASSUME c.iNdEx = 0, c.iNdEx < n
       PROVE  DelimitedAt(c.data, 0, 1, Len(a))
  <2>1. Partly(c.data, 0, Delimited(1, a))
    <3> SUFFICES ASSUME NEW j \in 1..x, 0 + j <= n PROVE c.data[0 + j] = ip[j]
      BY <1>5, <1>6, <1>8 DEF Partly
    <3>1. 0 + j = j /\ j \in 1..n
      OBVIOUS
    <3> QED
      BY <1>7, <1>9, <3>1
  <2>2. 0 + DelimitedSize(Len(a)) < 2^(WordBits - 1)
    BY <1>3, <1>5, <1>8, <1>11
  <2>3. 0 \in Nat /\ 0 < Len(c.data)
    BY <1>6, <1>12
  <2> QED
    BY <1>4, <1>6, <2>1, <2>2, <2>3, DelimitedReads
<1>13. ASSUME c.iNdEx = x, c.iNdEx < n
       PROVE  DelimitedAt(c.data, x, 2, Len(b)) /\ x + DelimitedSize(Len(b)) > n
  <2>1. b # <<>>
    <3> SUFFICES ASSUME b = <<>> PROVE FALSE
      OBVIOUS
    <3>1. kp = <<>>
      BY <1>1, <1>2 DEF KeyPart, BytesField
    <3>2. y = 0
      BY <1>8, <3>1, EmptyByteSeq
    <3> QED
      BY <1>7, <1>8, <1>13, <3>2
  <2>2. kp = Delimited(2, b)
    BY <1>1, <1>2, <2>1 DEF KeyPart, BytesField
  <2>3. y = DelimitedSize(Len(b))
    BY <1>4, <1>8, <2>2, DelimitedIs
  <2>4. Partly(c.data, x, Delimited(2, b))
    <3> SUFFICES ASSUME NEW j \in 1..y, x + j <= n PROVE c.data[x + j] = kp[j]
      BY <1>6, <1>8, <2>2 DEF Partly
    <3>1. x + j \in 1..n
      OBVIOUS
    <3> QED
      BY <1>7, <1>10, <3>1
  <2>5. x + DelimitedSize(Len(b)) < 2^(WordBits - 1) /\ x < Len(c.data)
    BY <1>3, <1>6, <1>8, <1>11, <1>13, <2>3
  <2>6. DelimitedAt(c.data, x, 2, Len(b))
    BY <1>4, <1>6, <2>4, <2>5, DelimitedReads
  <2> QED
    BY <1>7, <1>8, <2>3, <2>6
<1>14. c.m \in SignerMsgs
  BY CallIs, ThresholdSignerFields
<1> QED
  BY <1>1, <1>2, <1>5, <1>6, <1>8, <1>12, <1>13, <1>14

LEMMA CutReadsOne ==
    ASSUME WireInv, input.kind = "ThresholdSigner", CutRead, Len(stack) = 1, ReadField, phase = "unmarshal"
    PROVE  phase' \in {"unmarshal", "failed"} /\ (phase' = "unmarshal" => CutRead')
<1>1. StackOk(stack) /\ stack # <<>> /\ stack \in Seq(Calls)
  BY DEF WireInv, StackOk
<1>2. PICK c \in Calls : c = Top /\ c = stack[1]
  BY <1>1, TopIs
<1>3. /\ c.kind = "ThresholdSigner" /\ ~c.skipping /\ c.m.ThresholdKey = <<>>
      /\ IsCut(c.data) /\ c.iNdEx \in {0, Len(InfoPart(input))}
  BY <1>2 DEF CutRead
<1>4. c.iNdEx < Len(c.data) /\ input' = input
  BY <1>2 DEF ReadField
<1>5. /\ DOMAIN FieldsOf[c.kind] = 1..2 /\ FieldsOf[c.kind][1] = Message("GroupInfo", "GroupInfo")
      /\ FieldsOf[c.kind][2] = Bytes("ThresholdKey")
  BY <1>3, ThresholdSignerFields
<1>6. 1 \in Nums /\ 2 \in Nums
  BY DEF Nums
<1>7. PICK ip \in Nat, a \in Nat, k \in Nat :
            /\ ip = Len(InfoPart(input)) /\ a = Len(GroupInfo_Marshal(InfoOf(input)))
            /\ k = Len(LocalPartySaveData_Marshal(KeyOf(input)))
  BY <1>3, CutSigner, SignerParts, LenByteSeq DEF WireInv
<1>8. CASE c.iNdEx = 0
  <2>1. DelimitedAt(Top.data, Top.iNdEx, 1, a)
    BY <1>2, <1>3, <1>4, <1>7, <1>8, CutSigner
  <2>2. FieldsOf[Top.kind][1].type \notin {"bool", "int32"} /\ 1 \in DOMAIN FieldsOf[Top.kind]
    BY <1>2, <1>5 DEF Message
  <2>3. \/ Fail
        \/ \E content, post : post = 0 + DelimitedSize(a) /\ Takes(c, FieldsOf[c.kind][1], content, post)
    BY <1>1, <1>2, <1>6, <1>8, <2>1, <2>2, ReadFieldDelimited
  <2>4. CASE Fail
    BY <2>4 DEF Fail
  <2>5. ASSUME NEW content, NEW post, post = 0 + DelimitedSize(a), Takes(c, FieldsOf[c.kind][1], content, post)
        PROVE  phase' = "unmarshal" /\ CutRead'
    <3>1. post = ip
      BY <1>3, <1>7, <2>5, CutSigner
    <3>2. PICK d : d = Call("GroupInfo", Get(c.m["GroupInfo"], "GroupInfo"), content, "GroupInfo", ip)
      OBVIOUS
    <3>3. stack' = Append(stack, d) /\ Goes
      BY <1>5, <2>5, <3>1, <3>2 DEF Takes, Message
    <3>4. Len(stack') = 2 /\ stack'[1] = c /\ stack'[2] = d
      <4>1. PICK S : S = Calls \cup {d}
        OBVIOUS
      <4>2. stack \in Seq(S) /\ d \in S
        <5>1. Calls \subseteq S
          BY <4>1
        <5> QED
          BY <1>1, <4>1, <5>1
      <4>3. PICK t, u : t = Append(stack, d) /\ u = stack
        OBVIOUS
      <4>4. /\ Len(t) = Len(u) + 1 /\ t[Len(u) + 1] = d
            /\ \A i \in 1..Len(u) : t[i] = u[i]
        BY <4>2, <4>3, AppendProperties
      <4>5. Len(u) = 1 /\ Len(t) = 1 + 1 /\ t[1 + 1] = d /\ t[1] = u[1]
        BY <4>3, <4>4
      <4>6. Len(t) = 2 /\ t[2] = d
        BY <4>5
      <4> QED
        BY <1>2, <3>3, <4>3, <4>5, <4>6
    <3>5. d.kind = "GroupInfo" /\ d.into = "GroupInfo" /\ d.postIndex = ip
      BY <3>2 DEF Call
    <3>6. (Len(InfoPart(input)))' = ip /\ (IsCut(c.data))'
      BY <1>3, <1>4, <1>7 DEF IsCut
    <3>7. phase' = "unmarshal"
      BY <3>3 DEF Goes
    <3>8. CutRead'
      BY <1>3, <1>4, <1>7, <3>4, <3>5 DEF CutRead, IsCut
    <3> QED
      BY <3>7, <3>8
  <2> QED
    BY <2>3, <2>4, <2>5
<1>9. CASE c.iNdEx = ip
  <2>1. DelimitedAt(Top.data, Top.iNdEx, 2, k) /\ Top.iNdEx + DelimitedSize(k) > Len(Top.data)
    BY <1>2, <1>3, <1>4, <1>7, <1>9, CutSigner
  <2>2. FieldsOf[Top.kind][2].type \notin {"bool", "int32"} /\ 2 \in DOMAIN FieldsOf[Top.kind]
    BY <1>2, <1>5 DEF Bytes
  <2>3. Fail \/ Top.iNdEx + DelimitedSize(k) <= Len(Top.data)
    BY <1>1, <1>6, <2>1, <2>2, ReadFieldDelimited
  <2>4. PICK l \in Nat, q \in Nat : l = Len(Top.data) /\ q = Top.iNdEx + DelimitedSize(k)
    <3>1. sov(k) \in Nat
      BY SovIs
    <3> QED
      BY <1>2, <1>7, <1>9, <3>1, CallIs DEF DelimitedSize
  <2>5. Fail
    BY <2>1, <2>3, <2>4
  <2> QED
    BY <2>5 DEF Fail
<1> QED
  BY <1>3, <1>7, <1>8, <1>9

LEMMA CutReadsTwo ==
    ASSUME WireInv, input.kind = "ThresholdSigner", CutRead, Len(stack) = 2, ReadField \/ skipMessage,
           phase = "unmarshal"
    PROVE  phase' \in {"unmarshal", "failed"} /\ (phase' = "unmarshal" => CutRead')
<1>1. StackOk(stack) /\ stack # <<>> /\ stack \in Seq(Calls)
  <2>1. StackOk(stack) /\ stack \in Seq(Calls)
    BY DEF WireInv, StackOk
  <2>2. stack = <<>> => Len(stack) = 0
    OBVIOUS
  <2> QED
    BY <2>1, <2>2
<1>2. PICK c \in Calls : c = Top /\ c = stack[2]
  BY <1>1, TopIs
<1>3. c.kind = "GroupInfo" /\ c.into = "GroupInfo" /\ c.postIndex = Len(InfoPart(input))
  BY <1>2 DEF CutRead
<1>4. Fail \/ Moves \/ Pushes
  BY <1>1, ReadFieldProceeds, SkipProceeds DEF Proceeds
<1>5. input' = input
  BY DEF ReadField, skipMessage
<1>6. CASE Fail
  BY <1>6 DEF Fail
<1>7. CASE Moves
  <2>1. PICK d \in Calls : SameCall(d, c) /\ Replace(d) /\ Goes
    BY <1>2, <1>7 DEF Moves
  <2>2. stack' = Append(Front(stack), d) /\ phase' = "unmarshal"
    BY <2>1 DEF Replace, Goes
  <2>3. Len(stack') = 2 /\ stack'[1] = stack[1] /\ stack'[2] = d
    BY <1>1, <2>1, <2>2, ReplaceOfTwo
  <2>4. d.kind = "GroupInfo" /\ d.into = "GroupInfo" /\ d.postIndex = Len(InfoPart(input))
    BY <1>3, <2>1 DEF SameCall
  <2>5. CutRead'
    BY <1>5, <2>3, <2>4 DEF CutRead, IsCut
  <2> QED
    BY <2>2, <2>5
<1>8. CASE Pushes
  <2>1. PICK n \in DOMAIN FieldsOf["GroupInfo"] : FieldsOf["GroupInfo"][n].type \in {"message", "messages"}
    BY <1>2, <1>3, <1>8 DEF Pushes
  <2> QED
    BY <2>1, GroupInfoFields DEF Bytes, BytesList, Int32
<1> QED
  BY <1>4, <1>6, <1>7, <1>8

Popped(t, u, e) == Len(t) = Len(u) - 1 /\ t[Len(u) - 1] = e

LEMMA PopAbove ==
    ASSUME NEW S, NEW u \in Seq(S), Len(u) > 1, NEW e \in S
    PROVE  Popped(Append(Front(Front(u)), e), u, e)
<1>1. PICK t : t = Append(Front(Front(u)), e)
  OBVIOUS
<1>2. Len(t) = Len(u) - 1 /\ t[Len(u) - 1] = e
  BY <1>1, ReplaceTwo
<1> QED
  BY <1>1, <1>2 DEF Popped

LEMMA CutReturns ==
    ASSUME WireInv, input.kind = "ThresholdSigner", CutRead, Return, phase = "unmarshal"
    PROVE  phase' = "unmarshal" /\ CutRead'
<1>1. StackOk(stack) /\ stack \in Seq(Calls) /\ Len(stack) = 2
  <2>1. StackOk(stack) /\ stack \in Seq(Calls)
    BY DEF WireInv, StackOk
  <2>2. Len(stack) \in {1, 2} /\ Len(stack) > 1
    <3>1. Len(stack) \in {1, 2}
      BY Zenon DEF CutRead
    <3>2. Len(stack) > 1
      BY Zenon DEF Return
    <3> QED
      BY <3>1, <3>2
  <2>3. \A l : l \in {1, 2} /\ l > 1 => l = 2
    BY Z3
  <2>4. Len(stack) = 2
    BY <2>2, <2>3, Zenon
  <2> QED
    BY <2>1, <2>4
<1>2. PICK c \in Calls, d \in Calls : c = stack[1] /\ d = stack[2]
  BY <1>1
<1>3. Top = d
  BY <1>1, <1>2 DEF Top, Last
<1>4. /\ c.kind = "ThresholdSigner" /\ ~c.skipping /\ c.m.ThresholdKey = <<>> /\ IsCut(c.data)
      /\ d.into = "GroupInfo" /\ d.postIndex = Len(InfoPart(input))
  BY <1>1, <1>2 DEF CutRead
<1>5. Nested(c, d)
  BY <1>1, <1>2 DEF StackOk
<1>6. PICK f : f = FieldFor(c, d) /\ f.name = "GroupInfo"
  BY <1>4, <1>5, NestedField
<1>7. stack' = Append(Front(Front(stack)), Taken(c, d, f)) /\ phase' = phase /\ input' = input
  <2>1. /\ stack' = Append(Front(Front(stack)), Taken(stack[Len(stack) - 1], Top, FieldFor(stack[Len(stack) - 1], Top)))
        /\ phase' = phase /\ input' = input
    BY DEF Return, Taken, FieldFor
  <2>2. stack[Len(stack) - 1] = c
    BY <1>1, <1>2
  <2> QED
    BY <1>3, <1>6, <2>1, <2>2
<1>8. PICK e : e = Taken(c, d, f)
  OBVIOUS
<1>9. PICK v : e = [c EXCEPT !.m["GroupInfo"] = v, !.iNdEx = d.postIndex]
  BY <1>6, <1>8, Zenon DEF Taken
<1>10. /\ e.kind = "ThresholdSigner" /\ ~e.skipping /\ e.m.ThresholdKey = <<>> /\ e.data = c.data
       /\ e.iNdEx = Len(InfoPart(input))
  <2>1. PICK m \in SignerMsgs : m = c.m
    BY <1>4, CallIs, ThresholdSignerFields
  <2>2. PICK n : n = [m EXCEPT !["GroupInfo"] = v]
    OBVIOUS
  <2>3. n.ThresholdKey = m.ThresholdKey
    BY <2>2 DEF SignerMsgs
  <2>4. c \in CallsOf("ThresholdSigner")
    BY <1>4, CallIs
  <2>5. e = [c EXCEPT !.m = n, !.iNdEx = d.postIndex]
    BY <1>9, <2>1, <2>2
  <2> QED
    BY <1>4, <2>1, <2>3, <2>4, <2>5 DEF CallsOf
<1>11. Len(stack') = 1 /\ stack'[1] = e
  <2>1. PICK S : S = Calls \cup {e}
    OBVIOUS
  <2>2. stack \in Seq(S) /\ e \in S
    <3>1. Calls \subseteq S
      BY <2>1
    <3> QED
      BY <1>1, <2>1, <3>1
  <2>3. Len(stack) > 1
    BY <1>1
  <2>4. Popped(Append(Front(Front(stack)), e), stack, e)
    BY <2>2, <2>3, PopAbove, Zenon
  <2>5. Popped(stack', stack, e)
    BY <1>7, <1>8, <2>4
  <2> QED
    BY <1>1, <2>5 DEF Popped
<1>12. CutRead'
  BY <1>4, <1>7, <1>10, <1>11 DEF CutRead, IsCut
<1> QED
  BY <1>7, <1>12

\* The number of no bytes is zero, and the point with these coordinates is not on
\* the curve.
LEMMA EmptyKeyFails == ~Decodes(LocalPartySaveData)
<1>1. SetBytes(<<>>) = 0
  <2>1. PICK n \in Nat : n = 0
    OBVIOUS
  <2>2. PICK b \in [1..n -> Nat] : b = <<>>
    <3>1. <<>> \in [1..0 -> Nat]
      OBVIOUS
    <3> QED
      BY <2>1, <3>1
  <2>3. PICK F \in [0..n -> Nat] : F[0] = 0 /\ SetBytes(b) = F[n]
    BY NumberSteps, Zenon
  <2> QED
    BY <2>1, <2>2, <2>3
<1>2. Get(LocalPartySaveData.EcdsaPub, "ECPoint") = ECPoint
  BY DEF Get, LocalPartySaveData, Zero
<1>3. ECPoint.X = <<>> /\ ECPoint.Y = <<>>
  BY DEF ECPoint
<1>4. NewECPoint(ECPoint) = [x |-> 0, y |-> 0]
  BY <1>1, <1>3 DEF NewECPoint
<1>5. ~OnCurve(NewECPoint(ECPoint))
  BY <1>4 DEF OnCurve
<1> QED
  BY <1>2, <1>5 DEF Decodes

LEMMA CutFinishes ==
    ASSUME WireInv, input.kind = "ThresholdSigner", CutRead \/ CutKey, Finish, phase = "unmarshal"
    PROVE  phase' \in {"unmarshal", "failed"} /\ (phase' = "unmarshal" => CutKey')
<1>1. StackOk(stack) /\ stack \in Seq(Calls) /\ Len(stack) = 1
  BY DEF WireInv, StackOk, Finish
<1>2. PICK c \in Calls : c = stack[1]
  BY <1>1
<1>3. Top = c
  BY <1>1, <1>2 DEF Top, Last
<1>4. CASE CutRead
  <2>1. c.kind = "ThresholdSigner" /\ c.m.ThresholdKey = <<>>
    BY <1>2, <1>4 DEF CutRead
  <2>2. stack' = <<Call("LocalPartySaveData", LocalPartySaveData, <<>>, "none", 0)>> /\ phase' = phase
    BY <1>3, <2>1 DEF Finish, Goes
  <2>3. PICK d : d = Call("LocalPartySaveData", LocalPartySaveData, <<>>, "none", 0)
    OBVIOUS
  <2>4. d.kind = "LocalPartySaveData" /\ d.m = LocalPartySaveData /\ d.data = <<>> /\ ~d.skipping
    BY <2>3 DEF Call
  <2>5. CutKey'
    BY <2>2, <2>3, <2>4 DEF CutKey
  <2> QED
    BY <2>2, <2>5
<1>5. CASE CutKey
  <2>1. c.kind = "LocalPartySaveData" /\ c.m = LocalPartySaveData
    BY <1>2, <1>5 DEF CutKey
  <2>2. c.kind # "ThresholdSigner" /\ c.kind \notin MessageKinds
    BY <2>1 DEF MessageKinds
  <2>3. ~Decodes(c.m)
    BY <2>1, EmptyKeyFails
  <2>4. Fail
    BY <1>3, <2>2, <2>3 DEF Finish
  <2> QED
    BY <2>4 DEF Fail
<1> QED
  BY <1>4, <1>5

LEMMA CutInvNext == WireInv /\ CutInv /\ [WireNext]_wireVars => CutInv'
<1> SUFFICES ASSUME WireInv, CutInv, [WireNext]_wireVars PROVE CutInv'
  OBVIOUS
<1>1. CASE UNCHANGED wireVars
  BY <1>1 DEF CutInv, CutRead, CutKey, IsCut, wireVars
<1>2. CASE Marshal
  <2>1. phase = "marshal" /\ phase' = "transfer" /\ damage' = damage /\ input' = input /\ dAtA' = Encoded(input)
    BY <1>2 DEF Marshal
  <2>2. damage = {}
    BY <2>1 DEF CutInv
  <2>3. damage' # {"cut"}
    BY <2>1, <2>2
  <2> QED
    BY <2>1, <2>3 DEF CutInv
<1>3. CASE Add
  <2>1. phase' = "transfer" /\ damage' = {"added"}
    BY <1>3 DEF Add
  <2>2. damage' # {"cut"} /\ damage' # {}
    BY <2>1
  <2> QED
    BY <2>1, <2>2 DEF CutInv
<1>4. CASE Change
  <2>1. phase' = "transfer" /\ damage' = {"changed"}
    BY <1>4 DEF Change
  <2>2. damage' # {"cut"} /\ damage' # {}
    BY <2>1
  <2> QED
    BY <2>1, <2>2 DEF CutInv
<1>5. CASE Cut
  <2>1. PICK n \in 0..(Len(dAtA) - 1) : dAtA' = SubSeq(dAtA, 1, n)
    BY <1>5 DEF Cut
  <2>2. phase = "transfer" /\ phase' = "transfer" /\ input' = input /\ damage' = damage \cup {"cut"}
        /\ damage \subseteq {"added"}
    BY <1>5 DEF Cut
  <2>3. damage' # {}
    BY <2>2
  <2>4. ASSUME damage' = {"cut"}
        PROVE  (IsCut(dAtA))'
    <3>1. damage = {}
      BY <2>2, <2>4
    <3>2. dAtA = Encoded(input) /\ dAtA \in ByteSeqs /\ Len(dAtA) \in Nat
      BY <2>2, <3>1, LenByteSeq DEF CutInv, WireInv
    <3>3. n \in 0..Len(dAtA) /\ n < Len(dAtA)
      BY <3>2
    <3>4. /\ SubSeq(dAtA, 1, n) \in ByteSeqs /\ Len(SubSeq(dAtA, 1, n)) = n
          /\ \A j \in 1..n : SubSeq(dAtA, 1, n)[j] = dAtA[j]
      BY <3>2, <3>3, CutType
    <3>5. PICK b, d, e : b = dAtA' /\ d = dAtA /\ e = Encoded(input)
      OBVIOUS
    <3>6. b \in ByteSeqs /\ Len(b) = n /\ (\A j \in 1..n : b[j] = d[j]) /\ d = e /\ n < Len(e)
      BY <2>1, <3>2, <3>3, <3>4, <3>5
    <3>7. b \in ByteSeqs /\ Len(b) < Len(e) /\ \A j \in 1..Len(b) : b[j] = e[j]
      BY <3>6
    <3>8. (Encoded(input))' = Encoded(input)
      BY <2>2
    <3> QED
      BY <3>5, <3>7, <3>8 DEF IsCut
  <2> QED
    BY <2>2, <2>3, <2>4 DEF CutInv
<1>6. CASE Unmarshal
  <2>1. /\ phase = "transfer" /\ phase' = "unmarshal" /\ UNCHANGED <<input, damage>>
        /\ StackOk(stack')
    BY <1>6, UnmarshalProceeds DEF Unmarshal
  <2>2. ASSUME input.kind = "ThresholdSigner", damage = {"cut"}
        PROVE  CutRead'
    <3>1. PICK m : m = [ThresholdSigner EXCEPT !.GroupInfo = <<GroupInfo>>]
      OBVIOUS
    <3>2. PICK c : c = Call("ThresholdSigner", m, dAtA, "none", 0)
      OBVIOUS
    <3>3. stack' = <<c>>
      BY <1>6, <2>2, <3>1, <3>2 DEF Unmarshal
    <3>4. m.ThresholdKey = <<>>
      BY <3>1 DEF ThresholdSigner
    <3>5. c.kind = "ThresholdSigner" /\ ~c.skipping /\ c.m = m /\ c.data = dAtA /\ c.iNdEx = 0
      BY <3>2 DEF Call
    <3>6. IsCut(dAtA)
      BY <2>1, <2>2 DEF CutInv
    <3>7. Len(stack') = 1 /\ stack'[1] = c
      BY <3>3
    <3> QED
      BY <2>1, <3>4, <3>5, <3>6, <3>7 DEF CutRead, IsCut
  <2> QED
    BY <2>1, <2>2 DEF CutInv
<1>7. CASE ReadField \/ skipMessage \/ Return \/ Finish
  <2>1. phase = "unmarshal" /\ UNCHANGED <<input, dAtA, damage>>
    BY <1>7, Zenon DEF ReadField, skipMessage, Return, Finish
  <2>2. phase' \in {"unmarshal", "done", "failed"}
    <3>1. StackOk(stack)
      BY DEF WireInv
    <3>2. CASE ReadField \/ skipMessage
      BY <2>1, <3>1, <3>2, ReadFieldProceeds, SkipProceeds DEF Proceeds, Fail, Moves, Pushes, Goes
    <3>3. CASE Return
      BY <2>1, <3>1, <3>3, ReturnProceeds
    <3>4. CASE Finish
      BY <2>1, <3>1, <3>4, FinishProceeds
    <3> QED
      BY <1>7, <3>2, <3>3, <3>4
  <2>3. ASSUME input.kind = "ThresholdSigner", damage = {"cut"}
        PROVE  phase' \in {"unmarshal", "failed"} /\ (phase' = "unmarshal" => (CutRead \/ CutKey)')
    <3>1. CutRead \/ CutKey
      BY <2>1, <2>3 DEF CutInv
    <3>2. CASE Finish
      BY <2>1, <2>3, <3>1, <3>2, CutFinishes
    <3>3. ASSUME CutKey, ReadField \/ skipMessage \/ Return PROVE FALSE
      <4>1. StackOk(stack) /\ stack \in Seq(Calls) /\ Len(stack) = 1
        BY <3>3 DEF WireInv, StackOk, CutKey
      <4>2. PICK c \in Calls : c = stack[1] /\ c = Top
        BY <4>1 DEF Top, Last
      <4>3. ~c.skipping /\ c.data = <<>>
        BY <3>3, <4>2 DEF CutKey
      <4>4. c.iNdEx \in Nat /\ Len(c.data) = 0
        BY <4>3, EmptyByteSeq, CallIs
      <4>5. ~ReadField
        BY <4>2, <4>4 DEF ReadField
      <4>6. ~skipMessage
        BY <4>2, <4>3 DEF skipMessage
      <4>7. ~Return
        BY <4>1 DEF Return
      <4> QED
        BY <3>3, <4>5, <4>6, <4>7
    <3>4. CASE CutRead /\ Return
      BY <2>1, <2>3, <3>4, CutReturns
    <3>5. CASE CutRead /\ (ReadField \/ skipMessage)
      <4>1. CASE Len(stack) = 2
        BY <2>1, <2>3, <3>5, <4>1, CutReadsTwo
      <4>2. CASE Len(stack) = 1
        <5>1. ~skipMessage
          <6>1. ~stack[1].skipping
            BY <3>5 DEF CutRead
          <6> QED
            BY <4>2, <6>1 DEF skipMessage, Top, Last
        <5> QED
          BY <2>1, <2>3, <3>5, <4>2, <5>1, CutReadsOne
      <4> QED
        BY <3>5, <4>1, <4>2 DEF CutRead
    <3> QED
      BY <1>7, <3>1, <3>2, <3>3, <3>4, <3>5
  <2> QED
    BY <2>1, <2>2, <2>3 DEF CutInv
<1> QED
  BY <1>1, <1>2, <1>3, <1>4, <1>5, <1>6, <1>7 DEF WireNext

\* A signer that was not written completely is never loaded, wherever its end is
\* missing: the reading fails in a field, or ends before the threshold key, which is
\* then empty and has no point of the curve.
THEOREM CutSignersAreRejected == WireSpec => []CutSignerIsRejected
<1>1. WireInit => CutInv
  BY DEF WireInit, CutInv
<1>2. WireInv /\ CutInv /\ [WireNext]_wireVars => CutInv'
  BY CutInvNext
<1>3. CutInv => CutSignerIsRejected
  BY DEF CutInv, CutSignerIsRejected
<1> QED
  BY <1>1, <1>2, <1>3, UnmarshalTyped, PTL DEF WireSpec

-----------------------------------------------------------------------------
(* What is read back. Reading bytes into a message is a relation: the bytes *)
(* are items, each a field with its value or an unknown field, and a nested *)
(* message is read in the same way. It is the least such relation.          *)

AnyMsg == UNION {MsgOf[k] : k \in Kinds}
Readings == Kinds \X AnyMsg \X ByteSeqs \X AnyMsg

\* The bytes b are a field with number num that changes the old value to v.
FieldItem(R, f, num, old, b, v) ==
    \/ f.type = "bytes" /\ v \in ByteSeqs /\ b = Delimited(num, v)
    \/ f.type = "list" /\ \E c \in ByteSeqs : b = Delimited(num, c) /\ v = Append(old, c)
    \/ f.type = "message" /\ \E c \in ByteSeqs, e \in MsgOf[f.of] :
          b = Delimited(num, c) /\ <<f.of, Get(old, f.of), c, e>> \in R /\ v = <<e>>
    \/ f.type = "messages" /\ \E c \in ByteSeqs, e \in MsgOf[f.of] :
          b = Delimited(num, c) /\ <<f.of, Zero[f.of], c, e>> \in R /\ v = Append(old, e)
    \/ f.type = "bool" /\ v = TRUE /\ b = Tag(num, 0) \o <<1>>
    \/ f.type = "int32" /\ v \in Int32s /\ b = Tag(num, 0) \o encodeVarint(Word(v))

Item(R, k, m, b, new) ==
    \/ \E field \in Additions : b = FieldBytes(field) /\ new = m
    \/ \E n \in DOMAIN FieldsOf[k] : \E v \in TypeOf(FieldsOf[k][n]) :
          /\ FieldItem(R, FieldsOf[k][n], n, m[FieldsOf[k][n].name], b, v)
          /\ new = [m EXCEPT ![FieldsOf[k][n].name] = v]

ReadsStep(R, k, m, b, to) ==
    /\ m \in MsgOf[k] /\ to \in MsgOf[k]
    /\ \/ b = <<>> /\ to = m
       \/ \E x \in ByteSeqs, rest \in ByteSeqs, new \in MsgOf[k] :
             b = x \o rest /\ Item(R, k, m, x, new) /\ <<k, new, rest, to>> \in R

Step(R) == {t \in Readings : ReadsStep(R, t[1], t[2], t[3], t[4])}
ReadsRel == {t \in Readings : \A R \in SUBSET Readings : Step(R) \subseteq R => t \in R}
Reads(k, m, b, to) == <<k, m, b, to>> \in ReadsRel

LEMMA ReadingIs ==
    ASSUME NEW k \in Kinds, NEW m \in MsgOf[k], NEW b \in ByteSeqs, NEW to \in MsgOf[k]
    PROVE  <<k, m, b, to>> \in Readings
<1>1. m \in AnyMsg /\ to \in AnyMsg
  BY DEF AnyMsg
<1> QED
  BY <1>1 DEF Readings

LEMMA FieldItemGrows ==
    ASSUME NEW R, NEW Q, R \subseteq Q, NEW f, NEW num, NEW old, NEW b, NEW v, FieldItem(R, f, num, old, b, v)
    PROVE  FieldItem(Q, f, num, old, b, v)
BY DEF FieldItem

LEMMA ItemGrows ==
    ASSUME NEW R, NEW Q, R \subseteq Q, NEW k, NEW m, NEW b, NEW new, Item(R, k, m, b, new)
    PROVE  Item(Q, k, m, b, new)
<1>1. CASE \E field \in Additions : b = FieldBytes(field) /\ new = m
  BY <1>1 DEF Item
<1>2. ASSUME NEW n \in DOMAIN FieldsOf[k], NEW v \in TypeOf(FieldsOf[k][n]),
             FieldItem(R, FieldsOf[k][n], n, m[FieldsOf[k][n].name], b, v),
             new = [m EXCEPT ![FieldsOf[k][n].name] = v]
      PROVE  Item(Q, k, m, b, new)
  <2>1. FieldItem(Q, FieldsOf[k][n], n, m[FieldsOf[k][n].name], b, v)
    BY <1>2, FieldItemGrows
  <2> QED
    BY <1>2, <2>1 DEF Item
<1> QED
  BY <1>1, <1>2 DEF Item

LEMMA StepGrows == ASSUME NEW R, NEW Q, R \subseteq Q PROVE Step(R) \subseteq Step(Q)
<1> SUFFICES ASSUME NEW t \in Readings, ReadsStep(R, t[1], t[2], t[3], t[4])
             PROVE  ReadsStep(Q, t[1], t[2], t[3], t[4])
  BY DEF Step
<1>1. PICK k, m, b, to : k = t[1] /\ m = t[2] /\ b = t[3] /\ to = t[4]
  OBVIOUS
<1>2. ReadsStep(R, k, m, b, to)
  BY <1>1
<1>3. CASE b = <<>> /\ to = m
  BY <1>1, <1>2, <1>3, Zenon DEF ReadsStep
<1>4. ASSUME NEW x \in ByteSeqs, NEW rest \in ByteSeqs, NEW new \in MsgOf[k],
             b = x \o rest, Item(R, k, m, x, new), <<k, new, rest, to>> \in R
      PROVE  ReadsStep(Q, k, m, b, to)
  <2>1. Item(Q, k, m, x, new)
    BY <1>4, ItemGrows
  <2> QED
    BY <1>2, <1>4, <2>1 DEF ReadsStep
<1>5. ReadsStep(Q, k, m, b, to)
  BY <1>2, <1>3, <1>4 DEF ReadsStep
<1> QED
  BY <1>1, <1>5

LEMMA StepReadings == ASSUME NEW R PROVE Step(R) \subseteq Readings
BY DEF Step

LEMMA ReadsLeast == ASSUME NEW R \in SUBSET Readings, Step(R) \subseteq R PROVE ReadsRel \subseteq R
BY DEF ReadsRel

LEMMA ReadsClosed == Step(ReadsRel) \subseteq ReadsRel
<1> SUFFICES ASSUME NEW t \in Step(ReadsRel), NEW R \in SUBSET Readings, Step(R) \subseteq R PROVE t \in R
  BY StepReadings DEF ReadsRel
<1>1. ReadsRel \subseteq R
  BY ReadsLeast
<1>2. Step(ReadsRel) \subseteq Step(R)
  BY <1>1, StepGrows
<1> QED
  BY <1>2

LEMMA ReadsInverted == ReadsRel \subseteq Step(ReadsRel)
<1>1. PICK Q : Q = Step(ReadsRel)
  OBVIOUS
<1>2. Q \in SUBSET Readings /\ Q \subseteq ReadsRel
  BY <1>1, StepReadings, ReadsClosed
<1>3. Step(Q) \subseteq Q
  BY <1>1, <1>2, StepGrows
<1> QED
  BY <1>1, <1>2, <1>3, ReadsLeast

LEMMA ReadsIs ==
    ASSUME NEW k, NEW m, NEW b, NEW to, Reads(k, m, b, to)
    PROVE  k \in Kinds /\ b \in ByteSeqs /\ ReadsStep(ReadsRel, k, m, b, to)
<1>1. PICK t : t = <<k, m, b, to>>
  OBVIOUS
<1>2. t \in Step(ReadsRel)
  BY <1>1, ReadsInverted DEF Reads
<1>3. t \in Readings /\ ReadsStep(ReadsRel, t[1], t[2], t[3], t[4])
  BY <1>2 DEF Step
<1>4. t[1] = k /\ t[2] = m /\ t[3] = b /\ t[4] = to
  BY <1>1
<1>5. k \in Kinds /\ b \in ByteSeqs
  BY <1>1, <1>3 DEF Readings
<1> QED
  BY <1>3, <1>4, <1>5

LEMMA ReadsFrom ==
    ASSUME NEW k \in Kinds, NEW m, NEW b \in ByteSeqs, NEW to, ReadsStep(ReadsRel, k, m, b, to)
    PROVE  Reads(k, m, b, to)
<1>1. PICK t : t = <<k, m, b, to>>
  OBVIOUS
<1>2. t[1] = k /\ t[2] = m /\ t[3] = b /\ t[4] = to
  BY <1>1
<1>3. t \in Readings
  <2>1. m \in MsgOf[k] /\ to \in MsgOf[k]
    BY DEF ReadsStep
  <2> QED
    BY <1>1, <2>1, ReadingIs
<1>4. t \in Step(ReadsRel)
  BY <1>2, <1>3 DEF Step
<1> QED
  BY <1>1, <1>4, ReadsClosed DEF Reads

\* Nothing is read from no bytes.
LEMMA ReadsNothing == ASSUME NEW k \in Kinds, NEW m \in MsgOf[k] PROVE Reads(k, m, <<>>, m)
<1>1. ReadsStep(ReadsRel, k, m, <<>>, m)
  BY DEF ReadsStep
<1> QED
  BY <1>1, ReadsFrom, EmptyByteSeq

LEMMA ConcatEmpty == ASSUME NEW b \in ByteSeqs PROVE b \o <<>> = b
BY DEF ByteSeqs

LEMMA ConcatAssoc ==
    ASSUME NEW a \in ByteSeqs, NEW b \in ByteSeqs, NEW c \in ByteSeqs
    PROVE  (a \o b) \o c = a \o (b \o c)
BY ConcatAssociative DEF ByteSeqs

\* One item, then the rest.
LEMMA ReadsItem ==
    ASSUME NEW k \in Kinds, NEW m \in MsgOf[k], NEW b \in ByteSeqs, NEW new \in MsgOf[k], Item(ReadsRel, k, m, b, new)
    PROVE  Reads(k, m, b, new)
<1>1. <<k, new, <<>>, new>> \in ReadsRel
  BY ReadsNothing DEF Reads
<1>2. b = b \o <<>>
  BY ConcatEmpty
<1>3. ReadsStep(ReadsRel, k, m, b, new)
  BY <1>1, <1>2, EmptyByteSeq DEF ReadsStep
<1> QED
  BY <1>3, ReadsFrom

\* What is read from bytes, and then from further bytes, is read from both.
ReadsOnFrom(k, m, a, mid) ==
    \A b \in ByteSeqs : \A to : Reads(k, mid, b, to) => Reads(k, m, a \o b, to)

LEMMA ReadsBoth ==
    ASSUME NEW k, NEW m, NEW a, NEW mid, NEW b, NEW to, Reads(k, m, a, mid), Reads(k, mid, b, to)
    PROVE  Reads(k, m, a \o b, to)
<1> DEFINE Q == {t \in ReadsRel : ReadsOnFrom(t[1], t[2], t[3], t[4])}
<1>1. Q \subseteq ReadsRel /\ Q \in SUBSET Readings
  BY DEF ReadsRel
<1>2. Step(Q) \subseteq Q
  <2> SUFFICES ASSUME NEW t \in Step(Q) PROVE t \in Q
    OBVIOUS
  <2>1. t \in ReadsRel
    BY <1>1, StepGrows, ReadsClosed
  <2>2. t \in Readings /\ ReadsStep(Q, t[1], t[2], t[3], t[4])
    BY DEF Step
  <2>3. PICK kk, mm, aa, tt : kk = t[1] /\ mm = t[2] /\ aa = t[3] /\ tt = t[4]
    OBVIOUS
  <2>4. kk \in Kinds /\ aa \in ByteSeqs /\ ReadsStep(Q, kk, mm, aa, tt)
    <3>1. kk \in Kinds /\ aa \in ByteSeqs
      BY <2>2, <2>3 DEF Readings
    <3> QED
      BY <2>2, <2>3, <3>1
  <2>5. ASSUME NEW c \in ByteSeqs, NEW z, Reads(kk, tt, c, z) PROVE Reads(kk, mm, aa \o c, z)
    <3>1. CASE aa = <<>> /\ tt = mm
      BY <2>5, <3>1, EmptyConcat
    <3>2. ASSUME NEW x \in ByteSeqs, NEW rest \in ByteSeqs, NEW new \in MsgOf[kk],
                 aa = x \o rest, Item(Q, kk, mm, x, new), <<kk, new, rest, tt>> \in Q
          PROVE  Reads(kk, mm, aa \o c, z)
      <4>1. Item(ReadsRel, kk, mm, x, new)
        BY <1>1, <3>2, ItemGrows
      <4>2. ReadsOnFrom(kk, new, rest, tt)
        BY <3>2
      <4>3. Reads(kk, new, rest \o c, z)
        BY <2>5, <4>2 DEF ReadsOnFrom
      <4>4. rest \o c \in ByteSeqs /\ aa \o c \in ByteSeqs
        BY <2>4, ConcatType
      <4>5. aa \o c = x \o (rest \o c)
        BY <3>2, ConcatAssoc
      <4>6. mm \in MsgOf[kk] /\ z \in MsgOf[kk]
        <5>1. z \in MsgOf[kk]
          BY <2>5, ReadsIs DEF ReadsStep
        <5> QED
          BY <2>4, <5>1 DEF ReadsStep
      <4>7. ReadsStep(ReadsRel, kk, mm, aa \o c, z)
        <5>1. PICK r \in ByteSeqs : r = rest \o c
          BY <4>4
        <5>2. aa \o c = x \o r /\ <<kk, new, r, z>> \in ReadsRel
          BY <4>3, <4>5, <5>1 DEF Reads
        <5> QED
          BY <4>1, <4>6, <5>2 DEF ReadsStep
      <4> QED
        BY <2>4, <4>4, <4>7, ReadsFrom
    <3> QED
      BY <2>4, <3>1, <3>2 DEF ReadsStep
  <2>6. ReadsOnFrom(kk, mm, aa, tt)
    BY <2>5 DEF ReadsOnFrom
  <2> QED
    BY <2>1, <2>3, <2>6
<1>3. ReadsRel \subseteq Q
  <2> HIDE DEF Q
  <2> QED
    BY <1>1, <1>2, ReadsLeast
<1>4. ReadsOnFrom(k, m, a, mid)
  <2>1. <<k, m, a, mid>> \in Q
    BY <1>3 DEF Reads
  <2> QED
    BY <2>1
<1>5. b \in ByteSeqs
  BY ReadsIs
<1> QED
  BY <1>4, <1>5 DEF ReadsOnFrom

LEMMA FieldNums == ASSUME NEW k \in Kinds PROVE DOMAIN FieldsOf[k] \subseteq Nums
BY ReadyMessageFields, AnnounceMessageFields, TSSProtocolMessageFields, RecoveryMessageFields, GroupInfoFields,
   ThresholdSignerFields, PrivateKeyFields, LocalPreParamsFields, LocalSecretsFields, ECPointFields,
   LocalPartySaveDataFields DEF Kinds, Nums

\* Fields that are written, and what reading them changes.
LEMMA ReadsField ==
    ASSUME NEW k \in Kinds, NEW m \in MsgOf[k], NEW n \in DOMAIN FieldsOf[k], NEW b \in ByteSeqs,
           NEW v \in TypeOf(FieldsOf[k][n]), FieldItem(ReadsRel, FieldsOf[k][n], n, m[FieldsOf[k][n].name], b, v)
    PROVE  Reads(k, m, b, [m EXCEPT ![FieldsOf[k][n].name] = v])
<1>1. PICK new : new = [m EXCEPT ![FieldsOf[k][n].name] = v]
  OBVIOUS
<1>2. new \in MsgOf[k]
  BY <1>1, FieldHolds DEF Holds
<1>3. Item(ReadsRel, k, m, b, new)
  BY <1>1 DEF Item
<1> QED
  BY <1>1, <1>2, <1>3, ReadsItem

LEMMA MsgIsRecord ==
    ASSUME NEW k \in Kinds, NEW m \in MsgOf[k]
    PROVE  m = [y \in DOMAIN m |-> m[y]]
<1>1. CASE k = "ReadyMessage"
  <2>1. m \in ReadyMsgs
    BY <1>1, ReadyMessageFields
  <2> QED
    BY <2>1 DEF ReadyMsgs
<1>2. CASE k = "AnnounceMessage"
  <2>1. m \in AnnounceMsgs
    BY <1>2, AnnounceMessageFields
  <2> QED
    BY <2>1 DEF AnnounceMsgs
<1>3. CASE k = "TSSProtocolMessage"
  <2>1. m \in TSSMsgs
    BY <1>3, TSSProtocolMessageFields
  <2> QED
    BY <2>1 DEF TSSMsgs
<1>4. CASE k = "RecoveryMessage"
  <2>1. m \in RecoveryMsgs
    BY <1>4, RecoveryMessageFields
  <2> QED
    BY <2>1 DEF RecoveryMsgs
<1>5. CASE k = "GroupInfo"
  <2>1. m \in GroupInfos
    BY <1>5, GroupInfoFields
  <2> QED
    BY <2>1 DEF GroupInfos
<1>6. CASE k = "ThresholdSigner"
  <2>1. m \in SignerMsgs
    BY <1>6, ThresholdSignerFields
  <2> QED
    BY <2>1 DEF SignerMsgs
<1>7. CASE k = "PrivateKey"
  <2>1. m \in PrivateKeys
    BY <1>7, PrivateKeyFields
  <2> QED
    BY <2>1 DEF PrivateKeys
<1>8. CASE k = "LocalPreParams"
  <2>1. m \in PreParams
    BY <1>8, LocalPreParamsFields
  <2> QED
    BY <2>1 DEF PreParams
<1>9. CASE k = "LocalSecrets"
  <2>1. m \in Secrets
    BY <1>9, LocalSecretsFields
  <2> QED
    BY <2>1 DEF Secrets
<1>10. CASE k = "ECPoint"
  <2>1. m \in ECPoints
    BY <1>10, ECPointFields
  <2> QED
    BY <2>1 DEF ECPoints
<1>11. CASE k = "LocalPartySaveData"
  <2>1. m \in SaveData
    BY <1>11, LocalPartySaveDataFields
  <2> QED
    BY <2>1 DEF SaveData
<1> QED
  BY <1>1, <1>2, <1>3, <1>4, <1>5, <1>6, <1>7, <1>8, <1>9, <1>10, <1>11 DEF Kinds

LEMMA SameMsg ==
    ASSUME NEW k \in Kinds, NEW m \in MsgOf[k], NEW x, NEW v, m[x] = v
    PROVE  [m EXCEPT ![x] = v] = m
<1>1. [m EXCEPT ![x] = v] = [y \in DOMAIN m |-> IF y = x THEN v ELSE m[y]]
  OBVIOUS
<1>2. [y \in DOMAIN m |-> IF y = x THEN v ELSE m[y]] = [y \in DOMAIN m |-> m[y]]
  OBVIOUS
<1> QED
  BY <1>1, <1>2, MsgIsRecord

LEMMA ReadsBytesField ==
    ASSUME NEW k \in Kinds, NEW m \in MsgOf[k], NEW n \in DOMAIN FieldsOf[k], NEW x, FieldsOf[k][n] = Bytes(x),
           m[x] = <<>>, NEW v \in ByteSeqs
    PROVE  Reads(k, m, BytesField(n, v), [m EXCEPT ![x] = v])
<1>1. PICK f : f = FieldsOf[k][n] /\ f.name = x /\ f.type = "bytes"
  BY DEF Bytes
<1>2. n \in Nums /\ v \in TypeOf(f)
  BY <1>1, FieldNums DEF TypeOf
<1>3. CASE v = <<>>
  <2>1. BytesField(n, v) = <<>>
    BY <1>3 DEF BytesField
  <2>2. [m EXCEPT ![x] = v] = m
    BY <1>3, SameMsg
  <2> QED
    BY <2>1, <2>2, ReadsNothing
<1>4. CASE v # <<>>
  <2>1. BytesField(n, v) = Delimited(n, v)
    BY <1>4 DEF BytesField
  <2>2. PICK b \in ByteSeqs : b = Delimited(n, v)
    BY <1>2, DelimitedIs
  <2>3. FieldItem(ReadsRel, f, n, m[x], b, v)
    BY <1>1, <2>2 DEF FieldItem
  <2>4. Reads(k, m, b, [m EXCEPT ![x] = v])
    BY <1>1, <1>2, <2>3, ReadsField
  <2> QED
    BY <2>1, <2>2, <2>4
<1> QED
  BY <1>3, <1>4

Sets(k, m, x, a) ==
    LET p == [m EXCEPT ![x] = a]
    IN p \in MsgOf[k] /\ p[x] = a /\ \A b : [p EXCEPT ![x] = b] = [m EXCEPT ![x] = b]

LEMMA MsgSets ==
    ASSUME NEW k \in Kinds, NEW m \in MsgOf[k], NEW n \in DOMAIN FieldsOf[k], NEW x, x = FieldsOf[k][n].name,
           NEW a \in TypeOf(FieldsOf[k][n])
    PROVE  Sets(k, m, x, a)
<1>1. x \in DOMAIN m /\ [m EXCEPT ![x] = a] \in MsgOf[k]
  BY FieldHolds DEF Holds
<1>2. PICK p : p = [m EXCEPT ![x] = a]
  OBVIOUS
<1>3. p[x] = a
  BY <1>1, <1>2
<1>4. ASSUME NEW b PROVE [p EXCEPT ![x] = b] = [m EXCEPT ![x] = b]
  BY <1>1, <1>2
<1> QED
  BY <1>1, <1>2, <1>3, <1>4 DEF Sets

LEMMA ReadsBoolField ==
    ASSUME NEW k \in Kinds, NEW m \in MsgOf[k], NEW n \in DOMAIN FieldsOf[k], NEW x, FieldsOf[k][n] = Bool(x),
           m[x] = FALSE, NEW v \in BOOLEAN
    PROVE  Reads(k, m, BoolField(n, v), [m EXCEPT ![x] = v])
<1>1. PICK f : f = FieldsOf[k][n] /\ f.name = x /\ f.type = "bool"
  BY DEF Bool
<1>2. n \in Nums /\ v \in TypeOf(f)
  BY <1>1, FieldNums DEF TypeOf
<1>3. CASE v = FALSE
  <2>1. BoolField(n, v) = <<>>
    BY <1>3 DEF BoolField
  <2>2. [m EXCEPT ![x] = v] = m
    BY <1>3, SameMsg
  <2> QED
    BY <2>1, <2>2, ReadsNothing
<1>4. CASE v = TRUE
  <2>1. BoolField(n, v) = Tag(n, 0) \o <<1>>
    BY <1>4 DEF BoolField
  <2>2. PICK b \in ByteSeqs : b = BoolField(n, v)
    BY <1>2, BoolFieldIs DEF Sized
  <2>3. FieldItem(ReadsRel, f, n, m[x], b, v)
    BY <1>1, <1>4, <2>1, <2>2 DEF FieldItem
  <2>4. Reads(k, m, b, [m EXCEPT ![x] = v])
    BY <1>1, <1>2, <2>3, ReadsField
  <2> QED
    BY <2>2, <2>4
<1> QED
  BY <1>3, <1>4

LEMMA ReadsIntField ==
    ASSUME NEW k \in Kinds, NEW m \in MsgOf[k], NEW n \in DOMAIN FieldsOf[k], NEW x, FieldsOf[k][n] = Int32(x),
           m[x] = 0, NEW v \in Int32s
    PROVE  Reads(k, m, IntField(n, v), [m EXCEPT ![x] = v])
<1>1. PICK f : f = FieldsOf[k][n] /\ f.name = x /\ f.type = "int32"
  BY DEF Int32
<1>2. n \in Nums /\ v \in TypeOf(f) /\ v \in Int
  BY <1>1, FieldNums, Int32sAre DEF TypeOf
<1>3. CASE v = 0
  <2>1. IntField(n, v) = <<>>
    BY <1>3 DEF IntField
  <2>2. [m EXCEPT ![x] = v] = m
    BY <1>3, SameMsg
  <2> QED
    BY <2>1, <2>2, ReadsNothing
<1>4. CASE v # 0
  <2>1. IntField(n, v) = Tag(n, 0) \o encodeVarint(Word(v))
    BY <1>4 DEF IntField
  <2>2. PICK b \in ByteSeqs : b = IntField(n, v)
    BY <1>2, IntFieldIs DEF Sized
  <2>3. FieldItem(ReadsRel, f, n, m[x], b, v)
    BY <1>1, <2>1, <2>2 DEF FieldItem
  <2>4. Reads(k, m, b, [m EXCEPT ![x] = v])
    BY <1>1, <1>2, <2>3, ReadsField
  <2> QED
    BY <2>2, <2>4
<1> QED
  BY <1>3, <1>4

LEMMA ReadsMessageField ==
    ASSUME NEW k \in Kinds, NEW m \in MsgOf[k], NEW n \in DOMAIN FieldsOf[k], NEW x, NEW of \in Kinds,
           FieldsOf[k][n] = Message(x, of), Get(m[x], of) = Zero[of],
           NEW c, NEW e, Reads(of, Zero[of], c, e)
    PROVE  Reads(k, m, ListField(n, <<c>>), [m EXCEPT ![x] = <<e>>])
<1>1. PICK f : f = FieldsOf[k][n] /\ f.name = x /\ f.type = "message" /\ f.of = of
  BY DEF Message
<1>2. c \in ByteSeqs /\ e \in MsgOf[of]
  BY ReadsIs DEF ReadsStep
<1>3. n \in Nums /\ <<e>> \in TypeOf(f)
  <2>1. <<e>> \in Seq(MsgOf[of])
    BY <1>2, OneOf
  <2> QED
    BY <1>1, <2>1, FieldNums DEF TypeOf
<1>4. PICK b \in ByteSeqs : b = Delimited(n, c) /\ b = ListField(n, <<c>>)
  BY <1>2, <1>3, DelimitedIs, ListOfOne
<1>5. FieldItem(ReadsRel, f, n, m[x], b, <<e>>)
  <2>1. <<f.of, Get(m[x], f.of), c, e>> \in ReadsRel
    BY <1>1 DEF Reads
  <2> QED
    BY <1>1, <1>2, <1>4, <2>1, Zenon DEF FieldItem
<1>6. Reads(k, m, b, [m EXCEPT ![x] = <<e>>])
  BY <1>1, <1>3, <1>5, ReadsField
<1> QED
  BY <1>4, <1>6

PrefixStep(E, s, j) ==
    SubSeq(s, 1, j) \in Seq(E) /\ Append(SubSeq(s, 1, j), s[j + 1]) = SubSeq(s, 1, j + 1)

LEMMA PrefixesAre ==
    ASSUME NEW E, NEW s \in Seq(E), NEW j \in Nat, j + 1 <= Len(s)
    PROVE  PrefixStep(E, s, j)
<1>1. \A i \in 1..(j + 1) : s[i] \in E
  OBVIOUS
<1>2. 1 \in Int /\ j \in Int /\ j + 1 \in Int /\ \A i \in 1..j : s[i] \in E
  BY <1>1
<1>3. PICK a : a = SubSeq(s, 1, j)
  OBVIOUS
<1>4. PICK b : b = SubSeq(s, 1, j + 1)
  OBVIOUS
<1>5. a \in Seq(E) /\ Len(a) = j /\ \A i \in 1..j : a[i] = s[i]
  <2>1. /\ a \in Seq(E) /\ Len(a) = IF 1 <= j THEN j - 1 + 1 ELSE 0
        /\ \A i \in 1..(j - 1 + 1) : a[i] = s[1 + i - 1]
    BY <1>2, <1>3, SubSeqProperties
  <2>2. Len(a) = j
    BY <2>1
  <2>3. ASSUME NEW i \in 1..j PROVE a[i] = s[i]
    BY <2>1
  <2> QED
    BY <2>1, <2>2, <2>3
<1>6. b \in Seq(E) /\ Len(b) = j + 1 /\ \A i \in 1..(j + 1) : b[i] = s[i]
  <2>1. /\ b \in Seq(E) /\ Len(b) = IF 1 <= j + 1 THEN (j + 1) - 1 + 1 ELSE 0
        /\ \A i \in 1..((j + 1) - 1 + 1) : b[i] = s[1 + i - 1]
    BY <1>1, <1>2, <1>4, SubSeqProperties
  <2>2. Len(b) = j + 1
    BY <2>1
  <2>3. ASSUME NEW i \in 1..(j + 1) PROVE b[i] = s[i]
    BY <2>1
  <2> QED
    BY <2>1, <2>2, <2>3
<1>7. PICK e \in E : e = s[j + 1]
  BY <1>1
<1>8. PICK d : d = Append(a, e)
  OBVIOUS
<1>9. d \in Seq(E) /\ Len(d) = j + 1 /\ d[j + 1] = e /\ \A i \in 1..j : d[i] = a[i]
  BY <1>5, <1>8, AppendProperties
<1>10. ASSUME NEW i \in 1..(j + 1) PROVE d[i] = b[i]
  <2>1. CASE i = j + 1
    BY <1>6, <1>7, <1>9, <2>1
  <2>2. CASE i # j + 1
    <3>1. i \in 1..j
      BY <2>2
    <3> QED
      BY <1>5, <1>6, <1>9, <3>1
  <2> QED
    BY <2>1, <2>2
<1>11. d = b
  BY <1>6, <1>9, <1>10, SeqEqual
<1> QED
  BY <1>3, <1>4, <1>5, <1>7, <1>8, <1>11 DEF PrefixStep

LEMMA PrefixEnds ==
    ASSUME NEW E, NEW s \in Seq(E)
    PROVE  SubSeq(s, 1, 0) = <<>> /\ SubSeq(s, 1, Len(s)) = s
OBVIOUS

\* The field adds element e to a list when content c is read.
Adds(f, num, c, e) == \A old : FieldItem(ReadsRel, f, num, old, Delimited(num, c), Append(old, e))

LEMMA ReadsList ==
    ASSUME NEW k \in Kinds, NEW m \in MsgOf[k], NEW n \in DOMAIN FieldsOf[k], NEW x, x = FieldsOf[k][n].name,
           m[x] = <<>>, NEW E, TypeOf(FieldsOf[k][n]) = Seq(E), NEW cs \in Seq(ByteSeqs), NEW vs \in Seq(E),
           Len(cs) = Len(vs), \A i \in 1..Len(cs) : Adds(FieldsOf[k][n], n, cs[i], vs[i])
    PROVE  Reads(k, m, ListField(n, cs), [m EXCEPT ![x] = vs])
<1>1. PICK f : f = FieldsOf[k][n]
  OBVIOUS
<1>2. PICK l \in Nat : l = Len(cs) /\ l = Len(vs) /\ DOMAIN cs = 1..l
  OBVIOUS
<1>3. n \in Nums
  BY FieldNums
<1>4. PICK seqs : seqs = [i \in 1..l |-> Delimited(n, cs[i])]
  OBVIOUS
<1>5. seqs \in [1..l -> ByteSeqs]
  <2>1. ASSUME NEW i \in 1..l PROVE Delimited(n, cs[i]) \in ByteSeqs
    <3>1. cs[i] \in ByteSeqs
      BY <1>2
    <3> QED
      BY <1>3, <3>1, DelimitedIs
  <2> QED
    BY <1>4, <2>1
<1>6. PICK F \in [0..l -> ByteSeqs] :
              /\ F[0] = <<>> /\ \A i \in 1..l : F[i] = F[i - 1] \o seqs[i]
              /\ FlattenSeq(seqs) = F[l]
  BY <1>5, FlattenSteps
<1> DEFINE after(j) == [m EXCEPT ![x] = SubSeq(vs, 1, j)]
           T == {j \in Nat : j <= l => Reads(k, m, F[j], after(j))}
<1>7. 0 \in T
  <2>1. after(0) = m
    <3>1. SubSeq(vs, 1, 0) = <<>>
      BY PrefixEnds
    <3> QED
      BY <3>1, SameMsg
  <2>2. Reads(k, m, <<>>, m)
    BY ReadsNothing
  <2> QED
    BY <1>6, <2>1, <2>2
<1>8. ASSUME NEW j \in Nat, j \in T PROVE j + 1 \in T
  <2> SUFFICES ASSUME j + 1 <= l PROVE Reads(k, m, F[j + 1], after(j + 1))
    OBVIOUS
  <2>1. PICK i \in 1..l : i = j + 1 /\ i - 1 = j
    OBVIOUS
  <2>2. PICK s : s = SubSeq(vs, 1, j)
    OBVIOUS
  <2>3. s \in Seq(E) /\ Append(s, vs[i]) = SubSeq(vs, 1, i)
    <3>1. j + 1 <= Len(vs)
      BY <1>2
    <3>2. PrefixStep(E, vs, j)
      BY <3>1, PrefixesAre, Zenon
    <3> QED
      BY <2>1, <2>2, <3>2 DEF PrefixStep
  <2>4. PICK p : p = [m EXCEPT ![x] = s]
    OBVIOUS
  <2>5. PICK v : v = SubSeq(vs, 1, i) /\ v = Append(s, vs[i])
    BY <2>3
  <2>6. p \in MsgOf[k] /\ p[x] = s /\ [p EXCEPT ![x] = v] = [m EXCEPT ![x] = v]
    <3>1. s \in TypeOf(FieldsOf[k][n])
      BY <2>3
    <3>2. Sets(k, m, x, s)
      BY <3>1, MsgSets, Zenon
    <3> QED
      BY <2>4, <3>2 DEF Sets
  <2>7. v \in TypeOf(f)
    <3>1. vs[i] \in E
      BY <1>2
    <3>2. v \in Seq(E)
      BY <2>3, <2>5, <3>1, AppendProperties
    <3> QED
      BY <1>1, <3>2
  <2>8. FieldItem(ReadsRel, f, n, p[x], seqs[i], v)
    <3>1. Adds(f, n, cs[i], vs[i])
      BY <1>1, <1>2
    <3>2. seqs[i] = Delimited(n, cs[i])
      BY <1>4
    <3> QED
      BY <2>5, <2>6, <3>1, <3>2, Zenon DEF Adds
  <2>9. Reads(k, p, seqs[i], [p EXCEPT ![x] = v])
    <3>1. seqs[i] \in ByteSeqs
      BY <1>5
    <3> QED
      BY <1>1, <2>6, <2>7, <2>8, <3>1, ReadsField
  <2>10. Reads(k, m, F[j], p)
    BY <1>8, <2>1, <2>2, <2>4
  <2>11. Reads(k, m, F[j] \o seqs[i], [m EXCEPT ![x] = v])
    BY <2>6, <2>9, <2>10, ReadsBoth
  <2>12. F[i] = F[j] \o seqs[i]
    BY <1>6, <2>1
  <2> QED
    BY <2>1, <2>5, <2>11, <2>12
<1> HIDE DEF T
<1>9. Nat \subseteq T
  BY <1>7, <1>8, Induction
<1>10. Reads(k, m, F[l], after(l))
  BY <1>9 DEF T
<1>11. after(l) = [m EXCEPT ![x] = vs]
  <2>1. SubSeq(vs, 1, Len(vs)) = vs
    BY PrefixEnds
  <2> QED
    BY <1>2, <2>1
<1>12. ListField(n, cs) = F[l]
  BY <1>2, <1>4, <1>6 DEF ListField
<1> QED
  BY <1>10, <1>11, <1>12

LEMMA ReadsBytesList ==
    ASSUME NEW k \in Kinds, NEW m \in MsgOf[k], NEW n \in DOMAIN FieldsOf[k], NEW x,
           FieldsOf[k][n] = BytesList(x), m[x] = <<>>, NEW v \in Seq(ByteSeqs)
    PROVE  Reads(k, m, ListField(n, v), [m EXCEPT ![x] = v])
<1>1. PICK f : f = FieldsOf[k][n] /\ f.name = x /\ f.type = "list"
  BY DEF BytesList
<1>2. TypeOf(f) = Seq(ByteSeqs)
  BY <1>1 DEF TypeOf
<1>3. ASSUME NEW i \in 1..Len(v) PROVE Adds(f, n, v[i], v[i])
  <2>1. v[i] \in ByteSeqs
    OBVIOUS
  <2> QED
    BY <1>1, <2>1, Zenon DEF Adds, FieldItem
<1> QED
  BY <1>1, <1>2, <1>3, ReadsList

\* Every message of the list is read from its encoding.
ReadEach(of, cs, vs) ==
    /\ cs \in Seq(ByteSeqs) /\ vs \in Seq(MsgOf[of]) /\ Len(cs) = Len(vs)
    /\ \A i \in 1..Len(cs) : Reads(of, Zero[of], cs[i], vs[i])

LEMMA ReadsMessageList ==
    ASSUME NEW k \in Kinds, NEW m \in MsgOf[k], NEW n \in DOMAIN FieldsOf[k], NEW x, NEW of \in Kinds,
           FieldsOf[k][n] = MessageList(x, of), m[x] = <<>>, NEW cs, NEW vs, ReadEach(of, cs, vs)
    PROVE  Reads(k, m, ListField(n, cs), [m EXCEPT ![x] = vs])
<1>1. PICK f : f = FieldsOf[k][n] /\ f.name = x /\ f.type = "messages" /\ f.of = of
  BY DEF MessageList
<1>2. TypeOf(f) = Seq(MsgOf[of])
  BY <1>1 DEF TypeOf
<1>3. ASSUME NEW i \in 1..Len(cs) PROVE Adds(f, n, cs[i], vs[i])
  <2>1. cs[i] \in ByteSeqs /\ vs[i] \in MsgOf[of] /\ <<of, Zero[of], cs[i], vs[i]>> \in ReadsRel
    BY DEF ReadEach, Reads
  <2>2. PICK c, e : c = cs[i] /\ e = vs[i]
    OBVIOUS
  <2> QED
    BY <1>1, <2>1, <2>2, Zenon DEF Adds, FieldItem
<1>4. cs \in Seq(ByteSeqs) /\ vs \in Seq(MsgOf[of]) /\ Len(cs) = Len(vs)
  BY DEF ReadEach
<1> QED
  BY <1>1, <1>2, <1>3, <1>4, ReadsList

\* Unknown fields change nothing.
LEMMA ReadsAddition ==
    ASSUME NEW k \in Kinds, NEW m \in MsgOf[k], NEW field \in Additions
    PROVE  Reads(k, m, FieldBytes(field), m)
<1>1. FieldBytes(field) \in ByteSeqs
  <2>1. field \in Seq(Elements)
    BY WireAssumption DEF UnknownFields
  <2> QED
    BY <2>1, FieldBytesIs
<1>2. Item(ReadsRel, k, m, FieldBytes(field), m)
  BY DEF Item
<1> QED
  BY <1>1, <1>2, ReadsItem

-----------------------------------------------------------------------------
(* Every message is read back from what Marshal writes.                    *)

LEMMA ReadyMessageReads ==
    ASSUME NEW M \in ReadyMsgs
    PROVE  Reads("ReadyMessage", Zero["ReadyMessage"], ReadyMessage_Marshal(M), M)
<1>1. PICK v1 \in ByteSeqs :
          M = [SenderID |-> v1]
  BY DEF ReadyMsgs
<1>2. PICK m0 : m0 = [SenderID |-> <<>>]
  OBVIOUS
<1>3. PICK m1 : m1 = [SenderID |-> v1]
  OBVIOUS
<1>4. m0 = Zero["ReadyMessage"] /\ m0 \in MsgOf["ReadyMessage"] /\ m1 = M
  <2>1. Zero["ReadyMessage"] = ReadyMessage /\ "ReadyMessage" \in Kinds
    BY DEF Zero, Kinds
  <2>2. m0 = ReadyMessage
    BY <1>2 DEF ReadyMessage
  <2>3. m0 \in MsgOf["ReadyMessage"]
    BY <2>1, <2>2, ZeroType
  <2> QED
    BY <1>1, <1>3, <2>1, <2>2, <2>3
<1>5. PICK b1 : b1 = BytesField(1, v1)
  OBVIOUS
<1>6. Reads("ReadyMessage", m0, b1, m1)
  <2>1. m0 \in MsgOf["ReadyMessage"]
    BY <1>4
  <2>2. "ReadyMessage" \in Kinds /\ 1 \in DOMAIN FieldsOf["ReadyMessage"] /\ FieldsOf["ReadyMessage"][1] = Bytes("SenderID")
    BY ReadyMessageFields
  <2>3. m0["SenderID"] = <<>>
    BY <1>2
  <2>4. [m0 EXCEPT !["SenderID"] = v1] = m1
    BY <1>2, <1>3
  <2>5. Reads("ReadyMessage", m0, b1, [m0 EXCEPT !["SenderID"] = v1])
    BY <1>5, <2>1, <2>2, <2>3, ReadsBytesField
  <2> QED
    BY <2>4, <2>5
<1>7. ReadyMessage_Marshal(M) = b1
  BY <1>1, <1>5 DEF ReadyMessage_Marshal
<1> QED
  BY <1>4, <1>6, <1>7

LEMMA AnnounceMessageReads ==
    ASSUME NEW M \in AnnounceMsgs
    PROVE  Reads("AnnounceMessage", Zero["AnnounceMessage"], AnnounceMessage_Marshal(M), M)
<1>1. PICK v1 \in ByteSeqs :
          M = [SenderID |-> v1]
  BY DEF AnnounceMsgs
<1>2. PICK m0 : m0 = [SenderID |-> <<>>]
  OBVIOUS
<1>3. PICK m1 : m1 = [SenderID |-> v1]
  OBVIOUS
<1>4. m0 = Zero["AnnounceMessage"] /\ m0 \in MsgOf["AnnounceMessage"] /\ m1 = M
  <2>1. Zero["AnnounceMessage"] = AnnounceMessage /\ "AnnounceMessage" \in Kinds
    BY DEF Zero, Kinds
  <2>2. m0 = AnnounceMessage
    BY <1>2 DEF AnnounceMessage
  <2>3. m0 \in MsgOf["AnnounceMessage"]
    BY <2>1, <2>2, ZeroType
  <2> QED
    BY <1>1, <1>3, <2>1, <2>2, <2>3
<1>5. PICK b1 : b1 = BytesField(1, v1)
  OBVIOUS
<1>6. Reads("AnnounceMessage", m0, b1, m1)
  <2>1. m0 \in MsgOf["AnnounceMessage"]
    BY <1>4
  <2>2. "AnnounceMessage" \in Kinds /\ 1 \in DOMAIN FieldsOf["AnnounceMessage"] /\ FieldsOf["AnnounceMessage"][1] = Bytes("SenderID")
    BY AnnounceMessageFields
  <2>3. m0["SenderID"] = <<>>
    BY <1>2
  <2>4. [m0 EXCEPT !["SenderID"] = v1] = m1
    BY <1>2, <1>3
  <2>5. Reads("AnnounceMessage", m0, b1, [m0 EXCEPT !["SenderID"] = v1])
    BY <1>5, <2>1, <2>2, <2>3, ReadsBytesField
  <2> QED
    BY <2>4, <2>5
<1>7. AnnounceMessage_Marshal(M) = b1
  BY <1>1, <1>5 DEF AnnounceMessage_Marshal
<1> QED
  BY <1>4, <1>6, <1>7

LEMMA TSSProtocolMessageReads ==
    ASSUME NEW M \in TSSMsgs
    PROVE  Reads("TSSProtocolMessage", Zero["TSSProtocolMessage"], TSSProtocolMessage_Marshal(M), M)
<1>1. PICK v1 \in ByteSeqs, v2 \in ByteSeqs, v3 \in BOOLEAN, v4 \in ByteSeqs :
          M = [SenderID |-> v1, Payload |-> v2, IsBroadcast |-> v3, SessionID |-> v4]
  BY DEF TSSMsgs
<1>2. PICK no : no = FALSE
  OBVIOUS
<1>3. PICK m0 : m0 = [SenderID |-> <<>>, Payload |-> <<>>, IsBroadcast |-> no, SessionID |-> <<>>]
  OBVIOUS
<1>4. PICK m1 : m1 = [SenderID |-> v1, Payload |-> <<>>, IsBroadcast |-> no, SessionID |-> <<>>]
  OBVIOUS
<1>5. PICK m2 : m2 = [SenderID |-> v1, Payload |-> v2, IsBroadcast |-> no, SessionID |-> <<>>]
  OBVIOUS
<1>6. PICK m3 : m3 = [SenderID |-> v1, Payload |-> v2, IsBroadcast |-> v3, SessionID |-> <<>>]
  OBVIOUS
<1>7. PICK m4 : m4 = [SenderID |-> v1, Payload |-> v2, IsBroadcast |-> v3, SessionID |-> v4]
  OBVIOUS
<1>8. m0 = Zero["TSSProtocolMessage"] /\ m0 \in MsgOf["TSSProtocolMessage"] /\ m4 = M
  <2>1. Zero["TSSProtocolMessage"] = TSSProtocolMessage /\ "TSSProtocolMessage" \in Kinds
    BY DEF Zero, Kinds
  <2>2. m0 = TSSProtocolMessage
    BY <1>3, <1>2 DEF TSSProtocolMessage
  <2>3. m0 \in MsgOf["TSSProtocolMessage"]
    BY <2>1, <2>2, ZeroType
  <2> QED
    BY <1>1, <1>7, <2>1, <2>2, <2>3
<1>9. PICK b1 : b1 = BytesField(1, v1)
  OBVIOUS
<1>10. PICK b2 : b2 = BytesField(2, v2)
  OBVIOUS
<1>11. PICK b3 : b3 = BoolField(3, v3)
  OBVIOUS
<1>12. PICK b4 : b4 = BytesField(4, v4)
  OBVIOUS
<1>13. Reads("TSSProtocolMessage", m0, b1, m1)
  <2>1. m0 \in MsgOf["TSSProtocolMessage"]
    BY <1>8
  <2>2. "TSSProtocolMessage" \in Kinds /\ 1 \in DOMAIN FieldsOf["TSSProtocolMessage"] /\ FieldsOf["TSSProtocolMessage"][1] = Bytes("SenderID")
    BY TSSProtocolMessageFields
  <2>3. m0["SenderID"] = <<>>
    BY <1>3, <1>2
  <2>4. [m0 EXCEPT !["SenderID"] = v1] = m1
    BY <1>3, <1>4
  <2>5. Reads("TSSProtocolMessage", m0, b1, [m0 EXCEPT !["SenderID"] = v1])
    BY <1>9, <2>1, <2>2, <2>3, ReadsBytesField
  <2> QED
    BY <2>4, <2>5
<1>14. Reads("TSSProtocolMessage", m1, b2, m2)
  <2>1. m1 \in MsgOf["TSSProtocolMessage"]
    BY <1>13, ReadsIs DEF ReadsStep
  <2>2. "TSSProtocolMessage" \in Kinds /\ 2 \in DOMAIN FieldsOf["TSSProtocolMessage"] /\ FieldsOf["TSSProtocolMessage"][2] = Bytes("Payload")
    BY TSSProtocolMessageFields
  <2>3. m1["Payload"] = <<>>
    BY <1>4, <1>2
  <2>4. [m1 EXCEPT !["Payload"] = v2] = m2
    BY <1>4, <1>5
  <2>5. Reads("TSSProtocolMessage", m1, b2, [m1 EXCEPT !["Payload"] = v2])
    BY <1>10, <2>1, <2>2, <2>3, ReadsBytesField
  <2> QED
    BY <2>4, <2>5
<1>15. Reads("TSSProtocolMessage", m2, b3, m3)
  <2>1. m2 \in MsgOf["TSSProtocolMessage"]
    BY <1>14, ReadsIs DEF ReadsStep
  <2>2. "TSSProtocolMessage" \in Kinds /\ 3 \in DOMAIN FieldsOf["TSSProtocolMessage"] /\ FieldsOf["TSSProtocolMessage"][3] = Bool("IsBroadcast")
    BY TSSProtocolMessageFields
  <2>3. m2["IsBroadcast"] = FALSE
    BY <1>5, <1>2
  <2>4. [m2 EXCEPT !["IsBroadcast"] = v3] = m3
    BY <1>5, <1>6
  <2>5. Reads("TSSProtocolMessage", m2, b3, [m2 EXCEPT !["IsBroadcast"] = v3])
    BY <1>11, <2>1, <2>2, <2>3, ReadsBoolField
  <2> QED
    BY <2>4, <2>5
<1>16. Reads("TSSProtocolMessage", m3, b4, m4)
  <2>1. m3 \in MsgOf["TSSProtocolMessage"]
    BY <1>15, ReadsIs DEF ReadsStep
  <2>2. "TSSProtocolMessage" \in Kinds /\ 4 \in DOMAIN FieldsOf["TSSProtocolMessage"] /\ FieldsOf["TSSProtocolMessage"][4] = Bytes("SessionID")
    BY TSSProtocolMessageFields
  <2>3. m3["SessionID"] = <<>>
    BY <1>6, <1>2
  <2>4. [m3 EXCEPT !["SessionID"] = v4] = m4
    BY <1>6, <1>7
  <2>5. Reads("TSSProtocolMessage", m3, b4, [m3 EXCEPT !["SessionID"] = v4])
    BY <1>12, <2>1, <2>2, <2>3, ReadsBytesField
  <2> QED
    BY <2>4, <2>5
<1>17. Reads("TSSProtocolMessage", m0, b1 \o b2, m2)
  BY <1>13, <1>14, ReadsBoth
<1>18. Reads("TSSProtocolMessage", m0, b1 \o b2 \o b3, m3)
  BY <1>17, <1>15, ReadsBoth
<1>19. Reads("TSSProtocolMessage", m0, b1 \o b2 \o b3 \o b4, m4)
  BY <1>18, <1>16, ReadsBoth
<1>20. TSSProtocolMessage_Marshal(M) = b1 \o b2 \o b3 \o b4
  BY <1>1, <1>9, <1>10, <1>11, <1>12 DEF TSSProtocolMessage_Marshal
<1> QED
  BY <1>8, <1>19, <1>20

LEMMA RecoveryMessageReads ==
    ASSUME NEW M \in RecoveryMsgs, M.MaxFeePerVByte \in Int32s
    PROVE  Reads("RecoveryMessage", Zero["RecoveryMessage"], RecoveryMessage_Marshal(M), M)
<1>1. PICK v1 \in ByteSeqs, v2 \in ByteSeqs, v3 \in Int32s :
          M = [SenderID |-> v1, BtcRecoveryAddress |-> v2, MaxFeePerVByte |-> v3]
  BY DEF RecoveryMsgs
<1>2. PICK m0 : m0 = [SenderID |-> <<>>, BtcRecoveryAddress |-> <<>>, MaxFeePerVByte |-> 0]
  OBVIOUS
<1>3. PICK m1 : m1 = [SenderID |-> v1, BtcRecoveryAddress |-> <<>>, MaxFeePerVByte |-> 0]
  OBVIOUS
<1>4. PICK m2 : m2 = [SenderID |-> v1, BtcRecoveryAddress |-> v2, MaxFeePerVByte |-> 0]
  OBVIOUS
<1>5. PICK m3 : m3 = [SenderID |-> v1, BtcRecoveryAddress |-> v2, MaxFeePerVByte |-> v3]
  OBVIOUS
<1>6. m0 = Zero["RecoveryMessage"] /\ m0 \in MsgOf["RecoveryMessage"] /\ m3 = M
  <2>1. Zero["RecoveryMessage"] = RecoveryMessage /\ "RecoveryMessage" \in Kinds
    BY DEF Zero, Kinds
  <2>2. m0 = RecoveryMessage
    BY <1>2 DEF RecoveryMessage
  <2>3. m0 \in MsgOf["RecoveryMessage"]
    BY <2>1, <2>2, ZeroType
  <2> QED
    BY <1>1, <1>5, <2>1, <2>2, <2>3
<1>7. PICK b1 : b1 = BytesField(1, v1)
  OBVIOUS
<1>8. PICK b2 : b2 = BytesField(2, v2)
  OBVIOUS
<1>9. PICK b3 : b3 = IntField(3, v3)
  OBVIOUS
<1>10. Reads("RecoveryMessage", m0, b1, m1)
  <2>1. m0 \in MsgOf["RecoveryMessage"]
    BY <1>6
  <2>2. "RecoveryMessage" \in Kinds /\ 1 \in DOMAIN FieldsOf["RecoveryMessage"] /\ FieldsOf["RecoveryMessage"][1] = Bytes("SenderID")
    BY RecoveryMessageFields
  <2>3. m0["SenderID"] = <<>>
    BY <1>2
  <2>4. [m0 EXCEPT !["SenderID"] = v1] = m1
    BY <1>2, <1>3
  <2>5. Reads("RecoveryMessage", m0, b1, [m0 EXCEPT !["SenderID"] = v1])
    BY <1>7, <2>1, <2>2, <2>3, ReadsBytesField
  <2> QED
    BY <2>4, <2>5
<1>11. Reads("RecoveryMessage", m1, b2, m2)
  <2>1. m1 \in MsgOf["RecoveryMessage"]
    BY <1>10, ReadsIs DEF ReadsStep
  <2>2. "RecoveryMessage" \in Kinds /\ 2 \in DOMAIN FieldsOf["RecoveryMessage"] /\ FieldsOf["RecoveryMessage"][2] = Bytes("BtcRecoveryAddress")
    BY RecoveryMessageFields
  <2>3. m1["BtcRecoveryAddress"] = <<>>
    BY <1>3
  <2>4. [m1 EXCEPT !["BtcRecoveryAddress"] = v2] = m2
    BY <1>3, <1>4
  <2>5. Reads("RecoveryMessage", m1, b2, [m1 EXCEPT !["BtcRecoveryAddress"] = v2])
    BY <1>8, <2>1, <2>2, <2>3, ReadsBytesField
  <2> QED
    BY <2>4, <2>5
<1>12. Reads("RecoveryMessage", m2, b3, m3)
  <2>1. m2 \in MsgOf["RecoveryMessage"]
    BY <1>11, ReadsIs DEF ReadsStep
  <2>2. "RecoveryMessage" \in Kinds /\ 3 \in DOMAIN FieldsOf["RecoveryMessage"] /\ FieldsOf["RecoveryMessage"][3] = Int32("MaxFeePerVByte")
    BY RecoveryMessageFields
  <2>3. m2["MaxFeePerVByte"] = 0
    BY <1>4
  <2>4. [m2 EXCEPT !["MaxFeePerVByte"] = v3] = m3
    BY <1>4, <1>5
  <2>5. Reads("RecoveryMessage", m2, b3, [m2 EXCEPT !["MaxFeePerVByte"] = v3])
    BY <1>9, <2>1, <2>2, <2>3, ReadsIntField
  <2> QED
    BY <2>4, <2>5
<1>13. Reads("RecoveryMessage", m0, b1 \o b2, m2)
  BY <1>10, <1>11, ReadsBoth
<1>14. Reads("RecoveryMessage", m0, b1 \o b2 \o b3, m3)
  BY <1>13, <1>12, ReadsBoth
<1>15. RecoveryMessage_Marshal(M) = b1 \o b2 \o b3
  BY <1>1, <1>7, <1>8, <1>9 DEF RecoveryMessage_Marshal
<1> QED
  BY <1>6, <1>14, <1>15

LEMMA GroupInfoReads ==
    ASSUME NEW M \in GroupInfos, M.DishonestThreshold \in Int32s
    PROVE  Reads("GroupInfo", Zero["GroupInfo"], GroupInfo_Marshal(M), M)
<1>1. PICK v1 \in ByteSeqs, v2 \in ByteSeqs, v3 \in Seq(ByteSeqs), v4 \in Int32s :
          M = [GroupID |-> v1, MemberID |-> v2, GroupMemberIDs |-> v3, DishonestThreshold |-> v4]
  BY DEF GroupInfos
<1>2. PICK m0 : m0 = [GroupID |-> <<>>, MemberID |-> <<>>, GroupMemberIDs |-> <<>>, DishonestThreshold |-> 0]
  OBVIOUS
<1>3. PICK m1 : m1 = [GroupID |-> v1, MemberID |-> <<>>, GroupMemberIDs |-> <<>>, DishonestThreshold |-> 0]
  OBVIOUS
<1>4. PICK m2 : m2 = [GroupID |-> v1, MemberID |-> v2, GroupMemberIDs |-> <<>>, DishonestThreshold |-> 0]
  OBVIOUS
<1>5. PICK m3 : m3 = [GroupID |-> v1, MemberID |-> v2, GroupMemberIDs |-> v3, DishonestThreshold |-> 0]
  OBVIOUS
<1>6. PICK m4 : m4 = [GroupID |-> v1, MemberID |-> v2, GroupMemberIDs |-> v3, DishonestThreshold |-> v4]
  OBVIOUS
<1>7. m0 = Zero["GroupInfo"] /\ m0 \in MsgOf["GroupInfo"] /\ m4 = M
  <2>1. Zero["GroupInfo"] = GroupInfo /\ "GroupInfo" \in Kinds
    BY DEF Zero, Kinds
  <2>2. m0 = GroupInfo
    BY <1>2 DEF GroupInfo
  <2>3. m0 \in MsgOf["GroupInfo"]
    BY <2>1, <2>2, ZeroType
  <2> QED
    BY <1>1, <1>6, <2>1, <2>2, <2>3
<1>8. PICK b1 : b1 = BytesField(1, v1)
  OBVIOUS
<1>9. PICK b2 : b2 = BytesField(2, v2)
  OBVIOUS
<1>10. PICK b3 : b3 = ListField(3, v3)
  OBVIOUS
<1>11. PICK b4 : b4 = IntField(4, v4)
  OBVIOUS
<1>12. Reads("GroupInfo", m0, b1, m1)
  <2>1. m0 \in MsgOf["GroupInfo"]
    BY <1>7
  <2>2. "GroupInfo" \in Kinds /\ 1 \in DOMAIN FieldsOf["GroupInfo"] /\ FieldsOf["GroupInfo"][1] = Bytes("GroupID")
    BY GroupInfoFields
  <2>3. m0["GroupID"] = <<>>
    BY <1>2
  <2>4. [m0 EXCEPT !["GroupID"] = v1] = m1
    BY <1>2, <1>3
  <2>5. Reads("GroupInfo", m0, b1, [m0 EXCEPT !["GroupID"] = v1])
    BY <1>8, <2>1, <2>2, <2>3, ReadsBytesField
  <2> QED
    BY <2>4, <2>5
<1>13. Reads("GroupInfo", m1, b2, m2)
  <2>1. m1 \in MsgOf["GroupInfo"]
    BY <1>12, ReadsIs DEF ReadsStep
  <2>2. "GroupInfo" \in Kinds /\ 2 \in DOMAIN FieldsOf["GroupInfo"] /\ FieldsOf["GroupInfo"][2] = Bytes("MemberID")
    BY GroupInfoFields
  <2>3. m1["MemberID"] = <<>>
    BY <1>3
  <2>4. [m1 EXCEPT !["MemberID"] = v2] = m2
    BY <1>3, <1>4
  <2>5. Reads("GroupInfo", m1, b2, [m1 EXCEPT !["MemberID"] = v2])
    BY <1>9, <2>1, <2>2, <2>3, ReadsBytesField
  <2> QED
    BY <2>4, <2>5
<1>14. Reads("GroupInfo", m2, b3, m3)
  <2>1. m2 \in MsgOf["GroupInfo"]
    BY <1>13, ReadsIs DEF ReadsStep
  <2>2. "GroupInfo" \in Kinds /\ 3 \in DOMAIN FieldsOf["GroupInfo"] /\ FieldsOf["GroupInfo"][3] = BytesList("GroupMemberIDs")
    BY GroupInfoFields
  <2>3. m2["GroupMemberIDs"] = <<>>
    BY <1>4
  <2>4. [m2 EXCEPT !["GroupMemberIDs"] = v3] = m3
    BY <1>4, <1>5
  <2>5. Reads("GroupInfo", m2, b3, [m2 EXCEPT !["GroupMemberIDs"] = v3])
    BY <1>10, <2>1, <2>2, <2>3, ReadsBytesList
  <2> QED
    BY <2>4, <2>5
<1>15. Reads("GroupInfo", m3, b4, m4)
  <2>1. m3 \in MsgOf["GroupInfo"]
    BY <1>14, ReadsIs DEF ReadsStep
  <2>2. "GroupInfo" \in Kinds /\ 4 \in DOMAIN FieldsOf["GroupInfo"] /\ FieldsOf["GroupInfo"][4] = Int32("DishonestThreshold")
    BY GroupInfoFields
  <2>3. m3["DishonestThreshold"] = 0
    BY <1>5
  <2>4. [m3 EXCEPT !["DishonestThreshold"] = v4] = m4
    BY <1>5, <1>6
  <2>5. Reads("GroupInfo", m3, b4, [m3 EXCEPT !["DishonestThreshold"] = v4])
    BY <1>11, <2>1, <2>2, <2>3, ReadsIntField
  <2> QED
    BY <2>4, <2>5
<1>16. Reads("GroupInfo", m0, b1 \o b2, m2)
  BY <1>12, <1>13, ReadsBoth
<1>17. Reads("GroupInfo", m0, b1 \o b2 \o b3, m3)
  BY <1>16, <1>14, ReadsBoth
<1>18. Reads("GroupInfo", m0, b1 \o b2 \o b3 \o b4, m4)
  BY <1>17, <1>15, ReadsBoth
<1>19. GroupInfo_Marshal(M) = b1 \o b2 \o b3 \o b4
  BY <1>1, <1>8, <1>9, <1>10, <1>11 DEF GroupInfo_Marshal
<1> QED
  BY <1>7, <1>18, <1>19

LEMMA PrivateKeyReads ==
    ASSUME NEW M \in PrivateKeys
    PROVE  Reads("PrivateKey", Zero["PrivateKey"], PrivateKey_Marshal(M), M)
<1>1. PICK v1 \in ByteSeqs, v2 \in ByteSeqs, v3 \in ByteSeqs :
          M = [PublicKey |-> v1, LambdaN |-> v2, PhiN |-> v3]
  BY DEF PrivateKeys
<1>2. PICK m0 : m0 = [PublicKey |-> <<>>, LambdaN |-> <<>>, PhiN |-> <<>>]
  OBVIOUS
<1>3. PICK m1 : m1 = [PublicKey |-> v1, LambdaN |-> <<>>, PhiN |-> <<>>]
  OBVIOUS
<1>4. PICK m2 : m2 = [PublicKey |-> v1, LambdaN |-> v2, PhiN |-> <<>>]
  OBVIOUS
<1>5. PICK m3 : m3 = [PublicKey |-> v1, LambdaN |-> v2, PhiN |-> v3]
  OBVIOUS
<1>6. m0 = Zero["PrivateKey"] /\ m0 \in MsgOf["PrivateKey"] /\ m3 = M
  <2>1. Zero["PrivateKey"] = PrivateKey /\ "PrivateKey" \in Kinds
    BY DEF Zero, Kinds
  <2>2. m0 = PrivateKey
    BY <1>2 DEF PrivateKey
  <2>3. m0 \in MsgOf["PrivateKey"]
    BY <2>1, <2>2, ZeroType
  <2> QED
    BY <1>1, <1>5, <2>1, <2>2, <2>3
<1>7. PICK b1 : b1 = BytesField(1, v1)
  OBVIOUS
<1>8. PICK b2 : b2 = BytesField(2, v2)
  OBVIOUS
<1>9. PICK b3 : b3 = BytesField(3, v3)
  OBVIOUS
<1>10. Reads("PrivateKey", m0, b1, m1)
  <2>1. m0 \in MsgOf["PrivateKey"]
    BY <1>6
  <2>2. "PrivateKey" \in Kinds /\ 1 \in DOMAIN FieldsOf["PrivateKey"] /\ FieldsOf["PrivateKey"][1] = Bytes("PublicKey")
    BY PrivateKeyFields
  <2>3. m0["PublicKey"] = <<>>
    BY <1>2
  <2>4. [m0 EXCEPT !["PublicKey"] = v1] = m1
    BY <1>2, <1>3
  <2>5. Reads("PrivateKey", m0, b1, [m0 EXCEPT !["PublicKey"] = v1])
    BY <1>7, <2>1, <2>2, <2>3, ReadsBytesField
  <2> QED
    BY <2>4, <2>5
<1>11. Reads("PrivateKey", m1, b2, m2)
  <2>1. m1 \in MsgOf["PrivateKey"]
    BY <1>10, ReadsIs DEF ReadsStep
  <2>2. "PrivateKey" \in Kinds /\ 2 \in DOMAIN FieldsOf["PrivateKey"] /\ FieldsOf["PrivateKey"][2] = Bytes("LambdaN")
    BY PrivateKeyFields
  <2>3. m1["LambdaN"] = <<>>
    BY <1>3
  <2>4. [m1 EXCEPT !["LambdaN"] = v2] = m2
    BY <1>3, <1>4
  <2>5. Reads("PrivateKey", m1, b2, [m1 EXCEPT !["LambdaN"] = v2])
    BY <1>8, <2>1, <2>2, <2>3, ReadsBytesField
  <2> QED
    BY <2>4, <2>5
<1>12. Reads("PrivateKey", m2, b3, m3)
  <2>1. m2 \in MsgOf["PrivateKey"]
    BY <1>11, ReadsIs DEF ReadsStep
  <2>2. "PrivateKey" \in Kinds /\ 3 \in DOMAIN FieldsOf["PrivateKey"] /\ FieldsOf["PrivateKey"][3] = Bytes("PhiN")
    BY PrivateKeyFields
  <2>3. m2["PhiN"] = <<>>
    BY <1>4
  <2>4. [m2 EXCEPT !["PhiN"] = v3] = m3
    BY <1>4, <1>5
  <2>5. Reads("PrivateKey", m2, b3, [m2 EXCEPT !["PhiN"] = v3])
    BY <1>9, <2>1, <2>2, <2>3, ReadsBytesField
  <2> QED
    BY <2>4, <2>5
<1>13. Reads("PrivateKey", m0, b1 \o b2, m2)
  BY <1>10, <1>11, ReadsBoth
<1>14. Reads("PrivateKey", m0, b1 \o b2 \o b3, m3)
  BY <1>13, <1>12, ReadsBoth
<1>15. PrivateKey_Marshal(M) = b1 \o b2 \o b3
  BY <1>1, <1>7, <1>8, <1>9 DEF PrivateKey_Marshal
<1> QED
  BY <1>6, <1>14, <1>15

LEMMA LocalPreParamsReads ==
    ASSUME NEW M \in PreParams, NEW e1 \in PrivateKeys, M.PaillierSK = <<e1>>
    PROVE  Reads("LocalPreParams", Zero["LocalPreParams"], LocalPreParams_Marshal(M), M)
<1>1. PICK v1 \in Seq(PrivateKeys), v2 \in ByteSeqs, v3 \in ByteSeqs, v4 \in ByteSeqs, v5 \in ByteSeqs,
     v6 \in ByteSeqs, v7 \in ByteSeqs, v8 \in ByteSeqs :
          M = [PaillierSK |-> v1, NTilde |-> v2, H1I |-> v3, H2I |-> v4, Alpha |-> v5, Beta |-> v6, P |-> v7,
               Q |-> v8]
  BY DEF PreParams
<1>2. PICK m0 : m0 = [PaillierSK |-> <<>>, NTilde |-> <<>>, H1I |-> <<>>, H2I |-> <<>>, Alpha |-> <<>>, Beta |-> <<>>,
                P |-> <<>>, Q |-> <<>>]
  OBVIOUS
<1>3. PICK m1 : m1 = [PaillierSK |-> v1, NTilde |-> <<>>, H1I |-> <<>>, H2I |-> <<>>, Alpha |-> <<>>, Beta |-> <<>>,
                P |-> <<>>, Q |-> <<>>]
  OBVIOUS
<1>4. PICK m2 : m2 = [PaillierSK |-> v1, NTilde |-> v2, H1I |-> <<>>, H2I |-> <<>>, Alpha |-> <<>>, Beta |-> <<>>,
                P |-> <<>>, Q |-> <<>>]
  OBVIOUS
<1>5. PICK m3 : m3 = [PaillierSK |-> v1, NTilde |-> v2, H1I |-> v3, H2I |-> <<>>, Alpha |-> <<>>, Beta |-> <<>>,
                P |-> <<>>, Q |-> <<>>]
  OBVIOUS
<1>6. PICK m4 : m4 = [PaillierSK |-> v1, NTilde |-> v2, H1I |-> v3, H2I |-> v4, Alpha |-> <<>>, Beta |-> <<>>,
                P |-> <<>>, Q |-> <<>>]
  OBVIOUS
<1>7. PICK m5 : m5 = [PaillierSK |-> v1, NTilde |-> v2, H1I |-> v3, H2I |-> v4, Alpha |-> v5, Beta |-> <<>>,
                P |-> <<>>, Q |-> <<>>]
  OBVIOUS
<1>8. PICK m6 : m6 = [PaillierSK |-> v1, NTilde |-> v2, H1I |-> v3, H2I |-> v4, Alpha |-> v5, Beta |-> v6, P |-> <<>>,
                Q |-> <<>>]
  OBVIOUS
<1>9. PICK m7 : m7 = [PaillierSK |-> v1, NTilde |-> v2, H1I |-> v3, H2I |-> v4, Alpha |-> v5, Beta |-> v6, P |-> v7,
                Q |-> <<>>]
  OBVIOUS
<1>10. PICK m8 : m8 = [PaillierSK |-> v1, NTilde |-> v2, H1I |-> v3, H2I |-> v4, Alpha |-> v5, Beta |-> v6, P |-> v7,
                Q |-> v8]
  OBVIOUS
<1>11. m0 = Zero["LocalPreParams"] /\ m0 \in MsgOf["LocalPreParams"] /\ m8 = M
  <2>1. Zero["LocalPreParams"] = LocalPreParams /\ "LocalPreParams" \in Kinds
    BY DEF Zero, Kinds
  <2>2. m0 = LocalPreParams
    BY <1>2 DEF LocalPreParams
  <2>3. m0 \in MsgOf["LocalPreParams"]
    BY <2>1, <2>2, ZeroType
  <2> QED
    BY <1>1, <1>10, <2>1, <2>2, <2>3
<1>12. PICK b1 : b1 = ListField(1, Each(PrivateKey_Marshal, v1))
  OBVIOUS
<1>13. PICK b2 : b2 = BytesField(2, v2)
  OBVIOUS
<1>14. PICK b3 : b3 = BytesField(3, v3)
  OBVIOUS
<1>15. PICK b4 : b4 = BytesField(4, v4)
  OBVIOUS
<1>16. PICK b5 : b5 = BytesField(5, v5)
  OBVIOUS
<1>17. PICK b6 : b6 = BytesField(6, v6)
  OBVIOUS
<1>18. PICK b7 : b7 = BytesField(7, v7)
  OBVIOUS
<1>19. PICK b8 : b8 = BytesField(8, v8)
  OBVIOUS
<1>20. Reads("LocalPreParams", m0, b1, m1)
  <2>1. m0 \in MsgOf["LocalPreParams"]
    BY <1>11
  <2>2. "LocalPreParams" \in Kinds /\ 1 \in DOMAIN FieldsOf["LocalPreParams"] /\ FieldsOf["LocalPreParams"][1] = Message("PaillierSK", "PrivateKey")
    BY LocalPreParamsFields
  <2>3. m0["PaillierSK"] = <<>>
    BY <1>2
  <2>4. [m0 EXCEPT !["PaillierSK"] = v1] = m1
    BY <1>2, <1>3
  <2>5. PICK c : c = PrivateKey_Marshal(e1)
    OBVIOUS
  <2>6. "PrivateKey" \in Kinds /\ Reads("PrivateKey", Zero["PrivateKey"], c, e1)
    BY <2>5, PrivateKeyReads, PrivateKeyFields
  <2>7. v1 = <<e1>>
    BY <1>1
  <2>8. b1 = ListField(1, <<c>>)
    <3>1. Each(PrivateKey_Marshal, v1) = <<c>>
      BY <2>5, <2>7 DEF Each
    <3> QED
      BY <1>12, <3>1
  <2>9. Get(m0["PaillierSK"], "PrivateKey") = Zero["PrivateKey"]
    BY <2>3 DEF Get
  <2>10. Reads("LocalPreParams", m0, ListField(1, <<c>>), [m0 EXCEPT !["PaillierSK"] = <<e1>>])
    BY <2>1, <2>2, <2>6, <2>9, ReadsMessageField
  <2> QED
    BY <2>4, <2>10, <2>7, <2>8
<1>21. Reads("LocalPreParams", m1, b2, m2)
  <2>1. m1 \in MsgOf["LocalPreParams"]
    BY <1>20, ReadsIs DEF ReadsStep
  <2>2. "LocalPreParams" \in Kinds /\ 2 \in DOMAIN FieldsOf["LocalPreParams"] /\ FieldsOf["LocalPreParams"][2] = Bytes("NTilde")
    BY LocalPreParamsFields
  <2>3. m1["NTilde"] = <<>>
    BY <1>3
  <2>4. [m1 EXCEPT !["NTilde"] = v2] = m2
    BY <1>3, <1>4
  <2>5. Reads("LocalPreParams", m1, b2, [m1 EXCEPT !["NTilde"] = v2])
    BY <1>13, <2>1, <2>2, <2>3, ReadsBytesField
  <2> QED
    BY <2>4, <2>5
<1>22. Reads("LocalPreParams", m2, b3, m3)
  <2>1. m2 \in MsgOf["LocalPreParams"]
    BY <1>21, ReadsIs DEF ReadsStep
  <2>2. "LocalPreParams" \in Kinds /\ 3 \in DOMAIN FieldsOf["LocalPreParams"] /\ FieldsOf["LocalPreParams"][3] = Bytes("H1I")
    BY LocalPreParamsFields
  <2>3. m2["H1I"] = <<>>
    BY <1>4
  <2>4. [m2 EXCEPT !["H1I"] = v3] = m3
    BY <1>4, <1>5
  <2>5. Reads("LocalPreParams", m2, b3, [m2 EXCEPT !["H1I"] = v3])
    BY <1>14, <2>1, <2>2, <2>3, ReadsBytesField
  <2> QED
    BY <2>4, <2>5
<1>23. Reads("LocalPreParams", m3, b4, m4)
  <2>1. m3 \in MsgOf["LocalPreParams"]
    BY <1>22, ReadsIs DEF ReadsStep
  <2>2. "LocalPreParams" \in Kinds /\ 4 \in DOMAIN FieldsOf["LocalPreParams"] /\ FieldsOf["LocalPreParams"][4] = Bytes("H2I")
    BY LocalPreParamsFields
  <2>3. m3["H2I"] = <<>>
    BY <1>5
  <2>4. [m3 EXCEPT !["H2I"] = v4] = m4
    BY <1>5, <1>6
  <2>5. Reads("LocalPreParams", m3, b4, [m3 EXCEPT !["H2I"] = v4])
    BY <1>15, <2>1, <2>2, <2>3, ReadsBytesField
  <2> QED
    BY <2>4, <2>5
<1>24. Reads("LocalPreParams", m4, b5, m5)
  <2>1. m4 \in MsgOf["LocalPreParams"]
    BY <1>23, ReadsIs DEF ReadsStep
  <2>2. "LocalPreParams" \in Kinds /\ 5 \in DOMAIN FieldsOf["LocalPreParams"] /\ FieldsOf["LocalPreParams"][5] = Bytes("Alpha")
    BY LocalPreParamsFields
  <2>3. m4["Alpha"] = <<>>
    BY <1>6
  <2>4. [m4 EXCEPT !["Alpha"] = v5] = m5
    BY <1>6, <1>7
  <2>5. Reads("LocalPreParams", m4, b5, [m4 EXCEPT !["Alpha"] = v5])
    BY <1>16, <2>1, <2>2, <2>3, ReadsBytesField
  <2> QED
    BY <2>4, <2>5
<1>25. Reads("LocalPreParams", m5, b6, m6)
  <2>1. m5 \in MsgOf["LocalPreParams"]
    BY <1>24, ReadsIs DEF ReadsStep
  <2>2. "LocalPreParams" \in Kinds /\ 6 \in DOMAIN FieldsOf["LocalPreParams"] /\ FieldsOf["LocalPreParams"][6] = Bytes("Beta")
    BY LocalPreParamsFields
  <2>3. m5["Beta"] = <<>>
    BY <1>7
  <2>4. [m5 EXCEPT !["Beta"] = v6] = m6
    BY <1>7, <1>8
  <2>5. Reads("LocalPreParams", m5, b6, [m5 EXCEPT !["Beta"] = v6])
    BY <1>17, <2>1, <2>2, <2>3, ReadsBytesField
  <2> QED
    BY <2>4, <2>5
<1>26. Reads("LocalPreParams", m6, b7, m7)
  <2>1. m6 \in MsgOf["LocalPreParams"]
    BY <1>25, ReadsIs DEF ReadsStep
  <2>2. "LocalPreParams" \in Kinds /\ 7 \in DOMAIN FieldsOf["LocalPreParams"] /\ FieldsOf["LocalPreParams"][7] = Bytes("P")
    BY LocalPreParamsFields
  <2>3. m6["P"] = <<>>
    BY <1>8
  <2>4. [m6 EXCEPT !["P"] = v7] = m7
    BY <1>8, <1>9
  <2>5. Reads("LocalPreParams", m6, b7, [m6 EXCEPT !["P"] = v7])
    BY <1>18, <2>1, <2>2, <2>3, ReadsBytesField
  <2> QED
    BY <2>4, <2>5
<1>27. Reads("LocalPreParams", m7, b8, m8)
  <2>1. m7 \in MsgOf["LocalPreParams"]
    BY <1>26, ReadsIs DEF ReadsStep
  <2>2. "LocalPreParams" \in Kinds /\ 8 \in DOMAIN FieldsOf["LocalPreParams"] /\ FieldsOf["LocalPreParams"][8] = Bytes("Q")
    BY LocalPreParamsFields
  <2>3. m7["Q"] = <<>>
    BY <1>9
  <2>4. [m7 EXCEPT !["Q"] = v8] = m8
    BY <1>9, <1>10
  <2>5. Reads("LocalPreParams", m7, b8, [m7 EXCEPT !["Q"] = v8])
    BY <1>19, <2>1, <2>2, <2>3, ReadsBytesField
  <2> QED
    BY <2>4, <2>5
<1>28. Reads("LocalPreParams", m0, b1 \o b2, m2)
  BY <1>20, <1>21, ReadsBoth
<1>29. Reads("LocalPreParams", m0, b1 \o b2 \o b3, m3)
  BY <1>28, <1>22, ReadsBoth
<1>30. Reads("LocalPreParams", m0, b1 \o b2 \o b3 \o b4, m4)
  BY <1>29, <1>23, ReadsBoth
<1>31. Reads("LocalPreParams", m0, b1 \o b2 \o b3 \o b4 \o b5, m5)
  BY <1>30, <1>24, ReadsBoth
<1>32. Reads("LocalPreParams", m0, b1 \o b2 \o b3 \o b4 \o b5 \o b6, m6)
  BY <1>31, <1>25, ReadsBoth
<1>33. Reads("LocalPreParams", m0, b1 \o b2 \o b3 \o b4 \o b5 \o b6 \o b7, m7)
  BY <1>32, <1>26, ReadsBoth
<1>34. Reads("LocalPreParams", m0, b1 \o b2 \o b3 \o b4 \o b5 \o b6 \o b7 \o b8, m8)
  BY <1>33, <1>27, ReadsBoth
<1>35. LocalPreParams_Marshal(M) = b1 \o b2 \o b3 \o b4 \o b5 \o b6 \o b7 \o b8
  BY <1>1, <1>12, <1>13, <1>14, <1>15, <1>16, <1>17, <1>18, <1>19 DEF LocalPreParams_Marshal
<1> QED
  BY <1>11, <1>34, <1>35

LEMMA LocalSecretsReads ==
    ASSUME NEW M \in Secrets
    PROVE  Reads("LocalSecrets", Zero["LocalSecrets"], LocalSecrets_Marshal(M), M)
<1>1. PICK v1 \in ByteSeqs, v2 \in ByteSeqs :
          M = [Xi |-> v1, ShareID |-> v2]
  BY DEF Secrets
<1>2. PICK m0 : m0 = [Xi |-> <<>>, ShareID |-> <<>>]
  OBVIOUS
<1>3. PICK m1 : m1 = [Xi |-> v1, ShareID |-> <<>>]
  OBVIOUS
<1>4. PICK m2 : m2 = [Xi |-> v1, ShareID |-> v2]
  OBVIOUS
<1>5. m0 = Zero["LocalSecrets"] /\ m0 \in MsgOf["LocalSecrets"] /\ m2 = M
  <2>1. Zero["LocalSecrets"] = LocalSecrets /\ "LocalSecrets" \in Kinds
    BY DEF Zero, Kinds
  <2>2. m0 = LocalSecrets
    BY <1>2 DEF LocalSecrets
  <2>3. m0 \in MsgOf["LocalSecrets"]
    BY <2>1, <2>2, ZeroType
  <2> QED
    BY <1>1, <1>4, <2>1, <2>2, <2>3
<1>6. PICK b1 : b1 = BytesField(1, v1)
  OBVIOUS
<1>7. PICK b2 : b2 = BytesField(2, v2)
  OBVIOUS
<1>8. Reads("LocalSecrets", m0, b1, m1)
  <2>1. m0 \in MsgOf["LocalSecrets"]
    BY <1>5
  <2>2. "LocalSecrets" \in Kinds /\ 1 \in DOMAIN FieldsOf["LocalSecrets"] /\ FieldsOf["LocalSecrets"][1] = Bytes("Xi")
    BY LocalSecretsFields
  <2>3. m0["Xi"] = <<>>
    BY <1>2
  <2>4. [m0 EXCEPT !["Xi"] = v1] = m1
    BY <1>2, <1>3
  <2>5. Reads("LocalSecrets", m0, b1, [m0 EXCEPT !["Xi"] = v1])
    BY <1>6, <2>1, <2>2, <2>3, ReadsBytesField
  <2> QED
    BY <2>4, <2>5
<1>9. Reads("LocalSecrets", m1, b2, m2)
  <2>1. m1 \in MsgOf["LocalSecrets"]
    BY <1>8, ReadsIs DEF ReadsStep
  <2>2. "LocalSecrets" \in Kinds /\ 2 \in DOMAIN FieldsOf["LocalSecrets"] /\ FieldsOf["LocalSecrets"][2] = Bytes("ShareID")
    BY LocalSecretsFields
  <2>3. m1["ShareID"] = <<>>
    BY <1>3
  <2>4. [m1 EXCEPT !["ShareID"] = v2] = m2
    BY <1>3, <1>4
  <2>5. Reads("LocalSecrets", m1, b2, [m1 EXCEPT !["ShareID"] = v2])
    BY <1>7, <2>1, <2>2, <2>3, ReadsBytesField
  <2> QED
    BY <2>4, <2>5
<1>10. Reads("LocalSecrets", m0, b1 \o b2, m2)
  BY <1>8, <1>9, ReadsBoth
<1>11. LocalSecrets_Marshal(M) = b1 \o b2
  BY <1>1, <1>6, <1>7 DEF LocalSecrets_Marshal
<1> QED
  BY <1>5, <1>10, <1>11

LEMMA ECPointReads ==
    ASSUME NEW M \in ECPoints
    PROVE  Reads("ECPoint", Zero["ECPoint"], ECPoint_Marshal(M), M)
<1>1. PICK v1 \in ByteSeqs, v2 \in ByteSeqs :
          M = [X |-> v1, Y |-> v2]
  BY DEF ECPoints
<1>2. PICK m0 : m0 = [X |-> <<>>, Y |-> <<>>]
  OBVIOUS
<1>3. PICK m1 : m1 = [X |-> v1, Y |-> <<>>]
  OBVIOUS
<1>4. PICK m2 : m2 = [X |-> v1, Y |-> v2]
  OBVIOUS
<1>5. m0 = Zero["ECPoint"] /\ m0 \in MsgOf["ECPoint"] /\ m2 = M
  <2>1. Zero["ECPoint"] = ECPoint /\ "ECPoint" \in Kinds
    BY DEF Zero, Kinds
  <2>2. m0 = ECPoint
    BY <1>2 DEF ECPoint
  <2>3. m0 \in MsgOf["ECPoint"]
    BY <2>1, <2>2, ZeroType
  <2> QED
    BY <1>1, <1>4, <2>1, <2>2, <2>3
<1>6. PICK b1 : b1 = BytesField(1, v1)
  OBVIOUS
<1>7. PICK b2 : b2 = BytesField(2, v2)
  OBVIOUS
<1>8. Reads("ECPoint", m0, b1, m1)
  <2>1. m0 \in MsgOf["ECPoint"]
    BY <1>5
  <2>2. "ECPoint" \in Kinds /\ 1 \in DOMAIN FieldsOf["ECPoint"] /\ FieldsOf["ECPoint"][1] = Bytes("X")
    BY ECPointFields
  <2>3. m0["X"] = <<>>
    BY <1>2
  <2>4. [m0 EXCEPT !["X"] = v1] = m1
    BY <1>2, <1>3
  <2>5. Reads("ECPoint", m0, b1, [m0 EXCEPT !["X"] = v1])
    BY <1>6, <2>1, <2>2, <2>3, ReadsBytesField
  <2> QED
    BY <2>4, <2>5
<1>9. Reads("ECPoint", m1, b2, m2)
  <2>1. m1 \in MsgOf["ECPoint"]
    BY <1>8, ReadsIs DEF ReadsStep
  <2>2. "ECPoint" \in Kinds /\ 2 \in DOMAIN FieldsOf["ECPoint"] /\ FieldsOf["ECPoint"][2] = Bytes("Y")
    BY ECPointFields
  <2>3. m1["Y"] = <<>>
    BY <1>3
  <2>4. [m1 EXCEPT !["Y"] = v2] = m2
    BY <1>3, <1>4
  <2>5. Reads("ECPoint", m1, b2, [m1 EXCEPT !["Y"] = v2])
    BY <1>7, <2>1, <2>2, <2>3, ReadsBytesField
  <2> QED
    BY <2>4, <2>5
<1>10. Reads("ECPoint", m0, b1 \o b2, m2)
  BY <1>8, <1>9, ReadsBoth
<1>11. ECPoint_Marshal(M) = b1 \o b2
  BY <1>1, <1>6, <1>7 DEF ECPoint_Marshal
<1> QED
  BY <1>5, <1>10, <1>11

LEMMA ECPointsRead ==
    ASSUME NEW ps \in Seq(ECPoints), NEW cs, cs = Each(ECPoint_Marshal, ps)
    PROVE  ReadEach("ECPoint", cs, ps)
<1>1. PICK l \in Nat : l = Len(ps) /\ DOMAIN ps = 1..l
  OBVIOUS
<1>2. cs = [i \in 1..l |-> ECPoint_Marshal(ps[i])]
  BY <1>1 DEF Each
<1>3. ASSUME NEW i \in 1..l PROVE ECPoint_Marshal(ps[i]) \in ByteSeqs /\ Reads("ECPoint", Zero["ECPoint"], ECPoint_Marshal(ps[i]), ps[i])
  <2>1. ps[i] \in ECPoints
    BY <1>1
  <2>2. Reads("ECPoint", Zero["ECPoint"], ECPoint_Marshal(ps[i]), ps[i])
    BY <2>1, ECPointReads
  <2> QED
    BY <2>2, ReadsIs
<1>4. cs \in Seq(ByteSeqs) /\ Len(cs) = l
  BY <1>2, <1>3
<1>5. MsgOf["ECPoint"] = ECPoints
  BY ECPointFields
<1>6. ASSUME NEW i \in 1..l PROVE Reads("ECPoint", Zero["ECPoint"], cs[i], ps[i])
  <2>1. cs[i] = ECPoint_Marshal(ps[i])
    BY <1>2
  <2> QED
    BY <1>3, <2>1
<1> QED
  BY <1>1, <1>4, <1>5, <1>6 DEF ReadEach

SaveDataOf(a1, a2, a3, a4, a5, a6, a7, a8, a9) ==
    [LocalPreParams |-> a1, LocalSecrets |-> a2, Ks |-> a3, NTildej |-> a4, H1J |-> a5, H2J |-> a6,
     BigXj |-> a7, PaillierPKs |-> a8, EcdsaPub |-> a9]
Put(m, x, v) == [m EXCEPT ![x] = v]

LEMMA SaveDataSet ==
    ASSUME NEW a1, NEW a2, NEW a3, NEW a4, NEW a5, NEW a6, NEW a7, NEW a8, NEW a9, NEW v
    PROVE  /\ Put(SaveDataOf(a1, a2, a3, a4, a5, a6, a7, a8, a9), "LocalPreParams", v) = SaveDataOf(v, a2, a3, a4, a5, a6, a7, a8, a9)
           /\ Put(SaveDataOf(a1, a2, a3, a4, a5, a6, a7, a8, a9), "LocalSecrets", v) = SaveDataOf(a1, v, a3, a4, a5, a6, a7, a8, a9)
           /\ Put(SaveDataOf(a1, a2, a3, a4, a5, a6, a7, a8, a9), "Ks", v) = SaveDataOf(a1, a2, v, a4, a5, a6, a7, a8, a9)
           /\ Put(SaveDataOf(a1, a2, a3, a4, a5, a6, a7, a8, a9), "NTildej", v) = SaveDataOf(a1, a2, a3, v, a5, a6, a7, a8, a9)
           /\ Put(SaveDataOf(a1, a2, a3, a4, a5, a6, a7, a8, a9), "H1J", v) = SaveDataOf(a1, a2, a3, a4, v, a6, a7, a8, a9)
           /\ Put(SaveDataOf(a1, a2, a3, a4, a5, a6, a7, a8, a9), "H2J", v) = SaveDataOf(a1, a2, a3, a4, a5, v, a7, a8, a9)
           /\ Put(SaveDataOf(a1, a2, a3, a4, a5, a6, a7, a8, a9), "BigXj", v) = SaveDataOf(a1, a2, a3, a4, a5, a6, v, a8, a9)
           /\ Put(SaveDataOf(a1, a2, a3, a4, a5, a6, a7, a8, a9), "PaillierPKs", v) = SaveDataOf(a1, a2, a3, a4, a5, a6, a7, v, a9)
           /\ Put(SaveDataOf(a1, a2, a3, a4, a5, a6, a7, a8, a9), "EcdsaPub", v) = SaveDataOf(a1, a2, a3, a4, a5, a6, a7, a8, v)
<1>1. Put(SaveDataOf(a1, a2, a3, a4, a5, a6, a7, a8, a9), "LocalPreParams", v) = SaveDataOf(v, a2, a3, a4, a5, a6, a7, a8, a9)
  BY SMT DEF SaveDataOf, Put
<1>2. Put(SaveDataOf(a1, a2, a3, a4, a5, a6, a7, a8, a9), "LocalSecrets", v) = SaveDataOf(a1, v, a3, a4, a5, a6, a7, a8, a9)
  BY SMT DEF SaveDataOf, Put
<1>3. Put(SaveDataOf(a1, a2, a3, a4, a5, a6, a7, a8, a9), "Ks", v) = SaveDataOf(a1, a2, v, a4, a5, a6, a7, a8, a9)
  BY SMT DEF SaveDataOf, Put
<1>4. Put(SaveDataOf(a1, a2, a3, a4, a5, a6, a7, a8, a9), "NTildej", v) = SaveDataOf(a1, a2, a3, v, a5, a6, a7, a8, a9)
  BY SMT DEF SaveDataOf, Put
<1>5. Put(SaveDataOf(a1, a2, a3, a4, a5, a6, a7, a8, a9), "H1J", v) = SaveDataOf(a1, a2, a3, a4, v, a6, a7, a8, a9)
  BY SMT DEF SaveDataOf, Put
<1>6. Put(SaveDataOf(a1, a2, a3, a4, a5, a6, a7, a8, a9), "H2J", v) = SaveDataOf(a1, a2, a3, a4, a5, v, a7, a8, a9)
  BY SMT DEF SaveDataOf, Put
<1>7. Put(SaveDataOf(a1, a2, a3, a4, a5, a6, a7, a8, a9), "BigXj", v) = SaveDataOf(a1, a2, a3, a4, a5, a6, v, a8, a9)
  BY SMT DEF SaveDataOf, Put
<1>8. Put(SaveDataOf(a1, a2, a3, a4, a5, a6, a7, a8, a9), "PaillierPKs", v) = SaveDataOf(a1, a2, a3, a4, a5, a6, a7, v, a9)
  BY SMT DEF SaveDataOf, Put
<1>9. Put(SaveDataOf(a1, a2, a3, a4, a5, a6, a7, a8, a9), "EcdsaPub", v) = SaveDataOf(a1, a2, a3, a4, a5, a6, a7, a8, v)
  BY SMT DEF SaveDataOf, Put
<1> QED
  BY <1>1, <1>2, <1>3, <1>4, <1>5, <1>6, <1>7, <1>8, <1>9, Zenon

LEMMA LocalPartySaveDataReads ==
    ASSUME NEW M \in SaveData, NEW e1 \in PreParams, M.LocalPreParams = <<e1>>, NEW s1 \in PrivateKeys,
           e1.PaillierSK = <<s1>>, NEW e2 \in Secrets, M.LocalSecrets = <<e2>>, NEW e9 \in ECPoints,
           M.EcdsaPub = <<e9>>
    PROVE  Reads("LocalPartySaveData", Zero["LocalPartySaveData"], LocalPartySaveData_Marshal(M), M)
<1>1. PICK v1 \in Seq(PreParams), v2 \in Seq(Secrets), v3 \in Seq(ByteSeqs), v4 \in Seq(ByteSeqs),
     v5 \in Seq(ByteSeqs), v6 \in Seq(ByteSeqs), v7 \in Seq(ECPoints), v8 \in Seq(ByteSeqs),
     v9 \in Seq(ECPoints) :
          M = [LocalPreParams |-> v1, LocalSecrets |-> v2, Ks |-> v3, NTildej |-> v4, H1J |-> v5, H2J |-> v6,
               BigXj |-> v7, PaillierPKs |-> v8, EcdsaPub |-> v9]
  BY DEF SaveData
<1>2. PICK m0 : m0 = SaveDataOf(<<>>, <<>>, <<>>, <<>>, <<>>, <<>>, <<>>, <<>>, <<>>)
  OBVIOUS
<1>3. PICK m1 : m1 = SaveDataOf(v1, <<>>, <<>>, <<>>, <<>>, <<>>, <<>>, <<>>, <<>>)
  OBVIOUS
<1>4. PICK m2 : m2 = SaveDataOf(v1, v2, <<>>, <<>>, <<>>, <<>>, <<>>, <<>>, <<>>)
  OBVIOUS
<1>5. PICK m3 : m3 = SaveDataOf(v1, v2, v3, <<>>, <<>>, <<>>, <<>>, <<>>, <<>>)
  OBVIOUS
<1>6. PICK m4 : m4 = SaveDataOf(v1, v2, v3, v4, <<>>, <<>>, <<>>, <<>>, <<>>)
  OBVIOUS
<1>7. PICK m5 : m5 = SaveDataOf(v1, v2, v3, v4, v5, <<>>, <<>>, <<>>, <<>>)
  OBVIOUS
<1>8. PICK m6 : m6 = SaveDataOf(v1, v2, v3, v4, v5, v6, <<>>, <<>>, <<>>)
  OBVIOUS
<1>9. PICK m7 : m7 = SaveDataOf(v1, v2, v3, v4, v5, v6, v7, <<>>, <<>>)
  OBVIOUS
<1>10. PICK m8 : m8 = SaveDataOf(v1, v2, v3, v4, v5, v6, v7, v8, <<>>)
  OBVIOUS
<1>11. PICK m9 : m9 = SaveDataOf(v1, v2, v3, v4, v5, v6, v7, v8, v9)
  OBVIOUS
<1>12. m0 = Zero["LocalPartySaveData"] /\ m0 \in MsgOf["LocalPartySaveData"] /\ m9 = M
  <2>1. Zero["LocalPartySaveData"] = LocalPartySaveData /\ "LocalPartySaveData" \in Kinds
    BY DEF Zero, Kinds
  <2>2. m0 = LocalPartySaveData
    BY <1>2 DEF LocalPartySaveData, SaveDataOf
  <2>3. m0 \in MsgOf["LocalPartySaveData"]
    BY <2>1, <2>2, ZeroType
  <2> QED
    BY <1>1, <1>11, <2>1, <2>2, <2>3 DEF SaveDataOf
<1>13. PICK b1 : b1 = ListField(1, Each(LocalPreParams_Marshal, v1))
  OBVIOUS
<1>14. PICK b2 : b2 = ListField(2, Each(LocalSecrets_Marshal, v2))
  OBVIOUS
<1>15. PICK b3 : b3 = ListField(3, v3)
  OBVIOUS
<1>16. PICK b4 : b4 = ListField(4, v4)
  OBVIOUS
<1>17. PICK b5 : b5 = ListField(5, v5)
  OBVIOUS
<1>18. PICK b6 : b6 = ListField(6, v6)
  OBVIOUS
<1>19. PICK b7 : b7 = ListField(7, Each(ECPoint_Marshal, v7))
  OBVIOUS
<1>20. PICK b8 : b8 = ListField(8, v8)
  OBVIOUS
<1>21. PICK b9 : b9 = ListField(9, Each(ECPoint_Marshal, v9))
  OBVIOUS
<1>22. Reads("LocalPartySaveData", m0, b1, m1)
  <2>1. m0 \in MsgOf["LocalPartySaveData"]
    BY <1>12
  <2>2. "LocalPartySaveData" \in Kinds /\ 1 \in DOMAIN FieldsOf["LocalPartySaveData"] /\ FieldsOf["LocalPartySaveData"][1] = Message("LocalPreParams", "LocalPreParams")
    BY LocalPartySaveDataFields
  <2>3. m0["LocalPreParams"] = <<>>
    BY <1>2 DEF SaveDataOf
  <2>4. [m0 EXCEPT !["LocalPreParams"] = v1] = m1
    <3>1. Put(m0, "LocalPreParams", v1) = m1
      BY <1>2, <1>3, SaveDataSet
    <3> QED
      BY <3>1 DEF Put
  <2>5. PICK c : c = LocalPreParams_Marshal(e1)
    OBVIOUS
  <2>6. "LocalPreParams" \in Kinds /\ Reads("LocalPreParams", Zero["LocalPreParams"], c, e1)
    BY <2>5, LocalPreParamsReads, LocalPreParamsFields
  <2>7. v1 = <<e1>>
    BY <1>1
  <2>8. b1 = ListField(1, <<c>>)
    <3>1. Each(LocalPreParams_Marshal, v1) = <<c>>
      BY <2>5, <2>7 DEF Each
    <3> QED
      BY <1>13, <3>1
  <2>9. Get(m0["LocalPreParams"], "LocalPreParams") = Zero["LocalPreParams"]
    BY <2>3 DEF Get
  <2>10. Reads("LocalPartySaveData", m0, ListField(1, <<c>>), [m0 EXCEPT !["LocalPreParams"] = <<e1>>])
    BY <2>1, <2>2, <2>6, <2>9, ReadsMessageField
  <2> QED
    BY <2>4, <2>10, <2>7, <2>8
<1>23. Reads("LocalPartySaveData", m1, b2, m2)
  <2>1. m1 \in MsgOf["LocalPartySaveData"]
    BY <1>22, ReadsIs DEF ReadsStep
  <2>2. "LocalPartySaveData" \in Kinds /\ 2 \in DOMAIN FieldsOf["LocalPartySaveData"] /\ FieldsOf["LocalPartySaveData"][2] = Message("LocalSecrets", "LocalSecrets")
    BY LocalPartySaveDataFields
  <2>3. m1["LocalSecrets"] = <<>>
    BY <1>3 DEF SaveDataOf
  <2>4. [m1 EXCEPT !["LocalSecrets"] = v2] = m2
    <3>1. Put(m1, "LocalSecrets", v2) = m2
      BY <1>3, <1>4, SaveDataSet
    <3> QED
      BY <3>1 DEF Put
  <2>5. PICK c : c = LocalSecrets_Marshal(e2)
    OBVIOUS
  <2>6. "LocalSecrets" \in Kinds /\ Reads("LocalSecrets", Zero["LocalSecrets"], c, e2)
    BY <2>5, LocalSecretsReads, LocalSecretsFields
  <2>7. v2 = <<e2>>
    BY <1>1
  <2>8. b2 = ListField(2, <<c>>)
    <3>1. Each(LocalSecrets_Marshal, v2) = <<c>>
      BY <2>5, <2>7 DEF Each
    <3> QED
      BY <1>14, <3>1
  <2>9. Get(m1["LocalSecrets"], "LocalSecrets") = Zero["LocalSecrets"]
    BY <2>3 DEF Get
  <2>10. Reads("LocalPartySaveData", m1, ListField(2, <<c>>), [m1 EXCEPT !["LocalSecrets"] = <<e2>>])
    BY <2>1, <2>2, <2>6, <2>9, ReadsMessageField
  <2> QED
    BY <2>4, <2>10, <2>7, <2>8
<1>24. Reads("LocalPartySaveData", m2, b3, m3)
  <2>1. m2 \in MsgOf["LocalPartySaveData"]
    BY <1>23, ReadsIs DEF ReadsStep
  <2>2. "LocalPartySaveData" \in Kinds /\ 3 \in DOMAIN FieldsOf["LocalPartySaveData"] /\ FieldsOf["LocalPartySaveData"][3] = BytesList("Ks")
    BY LocalPartySaveDataFields
  <2>3. m2["Ks"] = <<>>
    BY <1>4 DEF SaveDataOf
  <2>4. [m2 EXCEPT !["Ks"] = v3] = m3
    <3>1. Put(m2, "Ks", v3) = m3
      BY <1>4, <1>5, SaveDataSet
    <3> QED
      BY <3>1 DEF Put
  <2>5. Reads("LocalPartySaveData", m2, b3, [m2 EXCEPT !["Ks"] = v3])
    BY <1>15, <2>1, <2>2, <2>3, ReadsBytesList
  <2> QED
    BY <2>4, <2>5
<1>25. Reads("LocalPartySaveData", m3, b4, m4)
  <2>1. m3 \in MsgOf["LocalPartySaveData"]
    BY <1>24, ReadsIs DEF ReadsStep
  <2>2. "LocalPartySaveData" \in Kinds /\ 4 \in DOMAIN FieldsOf["LocalPartySaveData"] /\ FieldsOf["LocalPartySaveData"][4] = BytesList("NTildej")
    BY LocalPartySaveDataFields
  <2>3. m3["NTildej"] = <<>>
    BY <1>5 DEF SaveDataOf
  <2>4. [m3 EXCEPT !["NTildej"] = v4] = m4
    <3>1. Put(m3, "NTildej", v4) = m4
      BY <1>5, <1>6, SaveDataSet
    <3> QED
      BY <3>1 DEF Put
  <2>5. Reads("LocalPartySaveData", m3, b4, [m3 EXCEPT !["NTildej"] = v4])
    BY <1>16, <2>1, <2>2, <2>3, ReadsBytesList
  <2> QED
    BY <2>4, <2>5
<1>26. Reads("LocalPartySaveData", m4, b5, m5)
  <2>1. m4 \in MsgOf["LocalPartySaveData"]
    BY <1>25, ReadsIs DEF ReadsStep
  <2>2. "LocalPartySaveData" \in Kinds /\ 5 \in DOMAIN FieldsOf["LocalPartySaveData"] /\ FieldsOf["LocalPartySaveData"][5] = BytesList("H1J")
    BY LocalPartySaveDataFields
  <2>3. m4["H1J"] = <<>>
    BY <1>6 DEF SaveDataOf
  <2>4. [m4 EXCEPT !["H1J"] = v5] = m5
    <3>1. Put(m4, "H1J", v5) = m5
      BY <1>6, <1>7, SaveDataSet
    <3> QED
      BY <3>1 DEF Put
  <2>5. Reads("LocalPartySaveData", m4, b5, [m4 EXCEPT !["H1J"] = v5])
    BY <1>17, <2>1, <2>2, <2>3, ReadsBytesList
  <2> QED
    BY <2>4, <2>5
<1>27. Reads("LocalPartySaveData", m5, b6, m6)
  <2>1. m5 \in MsgOf["LocalPartySaveData"]
    BY <1>26, ReadsIs DEF ReadsStep
  <2>2. "LocalPartySaveData" \in Kinds /\ 6 \in DOMAIN FieldsOf["LocalPartySaveData"] /\ FieldsOf["LocalPartySaveData"][6] = BytesList("H2J")
    BY LocalPartySaveDataFields
  <2>3. m5["H2J"] = <<>>
    BY <1>7 DEF SaveDataOf
  <2>4. [m5 EXCEPT !["H2J"] = v6] = m6
    <3>1. Put(m5, "H2J", v6) = m6
      BY <1>7, <1>8, SaveDataSet
    <3> QED
      BY <3>1 DEF Put
  <2>5. Reads("LocalPartySaveData", m5, b6, [m5 EXCEPT !["H2J"] = v6])
    BY <1>18, <2>1, <2>2, <2>3, ReadsBytesList
  <2> QED
    BY <2>4, <2>5
<1>28. Reads("LocalPartySaveData", m6, b7, m7)
  <2>1. m6 \in MsgOf["LocalPartySaveData"]
    BY <1>27, ReadsIs DEF ReadsStep
  <2>2. "LocalPartySaveData" \in Kinds /\ 7 \in DOMAIN FieldsOf["LocalPartySaveData"] /\ FieldsOf["LocalPartySaveData"][7] = MessageList("BigXj", "ECPoint")
    BY LocalPartySaveDataFields
  <2>3. m6["BigXj"] = <<>>
    BY <1>8 DEF SaveDataOf
  <2>4. [m6 EXCEPT !["BigXj"] = v7] = m7
    <3>1. Put(m6, "BigXj", v7) = m7
      BY <1>8, <1>9, SaveDataSet
    <3> QED
      BY <3>1 DEF Put
  <2>5. PICK cs : cs = Each(ECPoint_Marshal, v7)
    OBVIOUS
  <2>6. "ECPoint" \in Kinds /\ ReadEach("ECPoint", cs, v7)
    BY <2>5, ECPointsRead, ECPointFields
  <2>7. Reads("LocalPartySaveData", m6, ListField(7, cs), [m6 EXCEPT !["BigXj"] = v7])
    BY <2>1, <2>2, <2>3, <2>6, ReadsMessageList
  <2> QED
    BY <2>4, <2>7, <1>19, <2>5
<1>29. Reads("LocalPartySaveData", m7, b8, m8)
  <2>1. m7 \in MsgOf["LocalPartySaveData"]
    BY <1>28, ReadsIs DEF ReadsStep
  <2>2. "LocalPartySaveData" \in Kinds /\ 8 \in DOMAIN FieldsOf["LocalPartySaveData"] /\ FieldsOf["LocalPartySaveData"][8] = BytesList("PaillierPKs")
    BY LocalPartySaveDataFields
  <2>3. m7["PaillierPKs"] = <<>>
    BY <1>9 DEF SaveDataOf
  <2>4. [m7 EXCEPT !["PaillierPKs"] = v8] = m8
    <3>1. Put(m7, "PaillierPKs", v8) = m8
      BY <1>9, <1>10, SaveDataSet
    <3> QED
      BY <3>1 DEF Put
  <2>5. Reads("LocalPartySaveData", m7, b8, [m7 EXCEPT !["PaillierPKs"] = v8])
    BY <1>20, <2>1, <2>2, <2>3, ReadsBytesList
  <2> QED
    BY <2>4, <2>5
<1>30. Reads("LocalPartySaveData", m8, b9, m9)
  <2>1. m8 \in MsgOf["LocalPartySaveData"]
    BY <1>29, ReadsIs DEF ReadsStep
  <2>2. "LocalPartySaveData" \in Kinds /\ 9 \in DOMAIN FieldsOf["LocalPartySaveData"] /\ FieldsOf["LocalPartySaveData"][9] = Message("EcdsaPub", "ECPoint")
    BY LocalPartySaveDataFields
  <2>3. m8["EcdsaPub"] = <<>>
    BY <1>10 DEF SaveDataOf
  <2>4. [m8 EXCEPT !["EcdsaPub"] = v9] = m9
    <3>1. Put(m8, "EcdsaPub", v9) = m9
      BY <1>10, <1>11, SaveDataSet
    <3> QED
      BY <3>1 DEF Put
  <2>5. PICK c : c = ECPoint_Marshal(e9)
    OBVIOUS
  <2>6. "ECPoint" \in Kinds /\ Reads("ECPoint", Zero["ECPoint"], c, e9)
    BY <2>5, ECPointReads, ECPointFields
  <2>7. v9 = <<e9>>
    BY <1>1
  <2>8. b9 = ListField(9, <<c>>)
    <3>1. Each(ECPoint_Marshal, v9) = <<c>>
      BY <2>5, <2>7 DEF Each
    <3> QED
      BY <1>21, <3>1
  <2>9. Get(m8["EcdsaPub"], "ECPoint") = Zero["ECPoint"]
    BY <2>3 DEF Get
  <2>10. Reads("LocalPartySaveData", m8, ListField(9, <<c>>), [m8 EXCEPT !["EcdsaPub"] = <<e9>>])
    BY <2>1, <2>2, <2>6, <2>9, ReadsMessageField
  <2> QED
    BY <2>4, <2>10, <2>7, <2>8
<1>31. Reads("LocalPartySaveData", m0, b1 \o b2, m2)
  BY <1>22, <1>23, ReadsBoth
<1>32. Reads("LocalPartySaveData", m0, b1 \o b2 \o b3, m3)
  BY <1>31, <1>24, ReadsBoth
<1>33. Reads("LocalPartySaveData", m0, b1 \o b2 \o b3 \o b4, m4)
  BY <1>32, <1>25, ReadsBoth
<1>34. Reads("LocalPartySaveData", m0, b1 \o b2 \o b3 \o b4 \o b5, m5)
  BY <1>33, <1>26, ReadsBoth
<1>35. Reads("LocalPartySaveData", m0, b1 \o b2 \o b3 \o b4 \o b5 \o b6, m6)
  BY <1>34, <1>27, ReadsBoth
<1>36. Reads("LocalPartySaveData", m0, b1 \o b2 \o b3 \o b4 \o b5 \o b6 \o b7, m7)
  BY <1>35, <1>28, ReadsBoth
<1>37. Reads("LocalPartySaveData", m0, b1 \o b2 \o b3 \o b4 \o b5 \o b6 \o b7 \o b8, m8)
  BY <1>36, <1>29, ReadsBoth
<1>38. Reads("LocalPartySaveData", m0, b1 \o b2 \o b3 \o b4 \o b5 \o b6 \o b7 \o b8 \o b9, m9)
  BY <1>37, <1>30, ReadsBoth
<1>39. LocalPartySaveData_Marshal(M) = b1 \o b2 \o b3 \o b4 \o b5 \o b6 \o b7 \o b8 \o b9
  BY <1>1, <1>13, <1>14, <1>15, <1>16, <1>17, <1>18, <1>19, <1>20, <1>21 DEF LocalPartySaveData_Marshal
<1> QED
  BY <1>12, <1>38, <1>39

\* What Unmarshal of an input starts with.
Start(in) ==
    IF in.kind = "ThresholdSigner" THEN [ThresholdSigner EXCEPT !.GroupInfo = <<GroupInfo>>] ELSE Zero[in.kind]

LEMMA InfoIs ==
    ASSUME NEW in \in Inputs, in.kind = "ThresholdSigner"
    PROVE  /\ in.value \in Signers /\ in.value.thresholdKey \in Keys
           /\ OnCurve(in.value.thresholdKey.ECDSAPub)
           /\ \A i \in DOMAIN in.value.thresholdKey.BigXj : OnCurve(in.value.thresholdKey.BigXj[i])
           /\ InfoOf(in).DishonestThreshold = in.value.dishonestThreshold
           /\ in.value.dishonestThreshold \in Int32s
<1>1. in.value \in ValuesOf["ThresholdSigner"]
  BY WireAssumption
<1>2. /\ in.value \in Signers /\ OnCurve(in.value.thresholdKey.ECDSAPub)
      /\ \A i \in DOMAIN in.value.thresholdKey.BigXj : OnCurve(in.value.thresholdKey.BigXj[i])
  BY <1>1 DEF ValuesOf
<1>3. in.value.thresholdKey \in Keys /\ in.value.dishonestThreshold \in Int32s
  BY <1>2 DEF Signers
<1>4. Signed(in.value.dishonestThreshold, IntBits) = in.value.dishonestThreshold
  BY <1>3, SignedBack
<1> QED
  BY <1>2, <1>3, <1>4, Zenon DEF InfoOf

LEMMA SignerReads ==
    ASSUME NEW in \in Inputs, in.kind = "ThresholdSigner"
    PROVE  Reads("ThresholdSigner", Start(in), Encoded(in), Sent(in))
<1>1. PICK info, c, kb : info = InfoOf(in) /\ c = GroupInfo_Marshal(info) /\ kb = LocalPartySaveData_Marshal(KeyOf(in))
  OBVIOUS
<1>2. /\ info \in GroupInfos /\ c \in ByteSeqs /\ kb \in ByteSeqs
      /\ Sent(in) = [GroupInfo |-> <<info>>, ThresholdKey |-> kb]
      /\ Encoded(in) = InfoPart(in) \o KeyPart(in)
  BY <1>1, SignerParts
<1>3. Reads("GroupInfo", Zero["GroupInfo"], c, info)
  <2>1. info.DishonestThreshold \in Int32s
    BY <1>1, InfoIs
  <2> QED
    BY <1>1, <1>2, <2>1, GroupInfoReads
<1>4. PICK s : s = Start(in)
  OBVIOUS
<1>5. s = [GroupInfo |-> <<GroupInfo>>, ThresholdKey |-> <<>>]
  BY <1>4 DEF Start, ThresholdSigner
<1>6. /\ "ThresholdSigner" \in Kinds /\ "GroupInfo" \in Kinds /\ 1 \in DOMAIN FieldsOf["ThresholdSigner"]
      /\ 2 \in DOMAIN FieldsOf["ThresholdSigner"] /\ MsgOf["ThresholdSigner"] = SignerMsgs
      /\ FieldsOf["ThresholdSigner"][1] = Message("GroupInfo", "GroupInfo")
      /\ FieldsOf["ThresholdSigner"][2] = Bytes("ThresholdKey")
  BY ThresholdSignerFields, GroupInfoFields
<1>7. Zero["GroupInfo"] = GroupInfo /\ GroupInfo \in GroupInfos
  <2>1. Zero["GroupInfo"] = GroupInfo
    BY DEF Zero
  <2> QED
    BY <2>1, ZeroType, GroupInfoFields
<1>8. s \in SignerMsgs /\ s["GroupInfo"] = <<GroupInfo>>
  <2>1. <<GroupInfo>> \in Seq(GroupInfos)
    BY <1>7, OneOf
  <2>2. <<>> \in ByteSeqs
    BY EmptyByteSeq
  <2> QED
    BY <1>5, <2>1, <2>2 DEF SignerMsgs
<1>9. Get(s["GroupInfo"], "GroupInfo") = Zero["GroupInfo"]
  BY <1>7, <1>8 DEF Get
<1>10. PICK t : t = [s EXCEPT !["GroupInfo"] = <<info>>]
  OBVIOUS
<1>11. Reads("ThresholdSigner", s, ListField(1, <<c>>), t)
  BY <1>3, <1>6, <1>8, <1>9, <1>10, ReadsMessageField, Zenon
<1>12. t = [GroupInfo |-> <<info>>, ThresholdKey |-> <<>>]
  BY <1>5, <1>10
<1>13. t \in SignerMsgs /\ t["ThresholdKey"] = <<>>
  <2>1. <<info>> \in Seq(GroupInfos)
    BY <1>2, OneOf
  <2>2. <<>> \in ByteSeqs
    BY EmptyByteSeq
  <2> QED
    BY <1>12, <2>1, <2>2 DEF SignerMsgs
<1>14. Reads("ThresholdSigner", t, BytesField(2, kb), [t EXCEPT !["ThresholdKey"] = kb])
  BY <1>2, <1>6, <1>13, ReadsBytesField, Zenon
<1>15. [t EXCEPT !["ThresholdKey"] = kb] = Sent(in)
  BY <1>2, <1>12
<1>16. ListField(1, <<c>>) = InfoPart(in) /\ BytesField(2, kb) = KeyPart(in)
  <2>1. 1 \in Nums
    BY DEF Nums
  <2>2. ListField(1, <<c>>) = Delimited(1, c)
    BY <1>2, <2>1, ListOfOne
  <2> QED
    BY <1>1, <2>2, Zenon DEF InfoPart, KeyPart
<1>17. Reads("ThresholdSigner", t, BytesField(2, kb), Sent(in))
  BY <1>14, <1>15, Zenon
<1>18. Reads("ThresholdSigner", s, ListField(1, <<c>>) \o BytesField(2, kb), Sent(in))
  BY <1>11, <1>17, ReadsBoth, Zenon
<1> QED
  BY <1>2, <1>4, <1>16, <1>18, Zenon

\* An input is read back from its encoding.
LEMMA SentReads ==
    ASSUME NEW in \in Inputs
    PROVE  Reads(in.kind, Start(in), Encoded(in), Sent(in))
<1>1. in.kind \in MessageKinds \cup {"ThresholdSigner"} /\ Sent(in) \in MsgOf[in.kind] /\ Encoded(in) = MarshalOf(in.kind, Sent(in))
  BY EncodedIs
<1>2. CASE in.kind = "ThresholdSigner"
  BY <1>2, SignerReads, Zenon
<1>3. CASE in.kind = "ReadyMessage"
  <2>1. Encoded(in) = ReadyMessage_Marshal(Sent(in)) /\ Sent(in) \in ReadyMsgs /\ Start(in) = Zero["ReadyMessage"]
    BY <1>1, <1>3, ReadyMessageFields DEF MarshalOf, Start
  <2> QED
    BY <1>3, <2>1, ReadyMessageReads, Zenon
<1>4. CASE in.kind = "AnnounceMessage"
  <2>1. Encoded(in) = AnnounceMessage_Marshal(Sent(in)) /\ Sent(in) \in AnnounceMsgs /\ Start(in) = Zero["AnnounceMessage"]
    BY <1>1, <1>4, AnnounceMessageFields DEF MarshalOf, Start
  <2> QED
    BY <1>4, <2>1, AnnounceMessageReads, Zenon
<1>5. CASE in.kind = "TSSProtocolMessage"
  <2>1. Encoded(in) = TSSProtocolMessage_Marshal(Sent(in)) /\ Sent(in) \in TSSMsgs /\ Start(in) = Zero["TSSProtocolMessage"]
    BY <1>1, <1>5, TSSProtocolMessageFields DEF MarshalOf, Start
  <2> QED
    BY <1>5, <2>1, TSSProtocolMessageReads, Zenon
<1>6. CASE in.kind = "RecoveryMessage"
  <2>1. Encoded(in) = RecoveryMessage_Marshal(Sent(in)) /\ Sent(in) \in RecoveryMsgs /\ Start(in) = Zero["RecoveryMessage"]
    BY <1>1, <1>6, RecoveryMessageFields DEF MarshalOf, Start
  <2>2. in.value \in ValuesOf["RecoveryMessage"]
    BY <1>6, WireAssumption
  <2>3. in.value.MaxFeePerVByte \in Int32s
    BY <2>2 DEF ValuesOf
  <2>4. Sent(in) = in.value
    BY <1>6 DEF Sent
  <2> QED
    BY <1>6, <2>1, <2>3, <2>4, RecoveryMessageReads, Zenon
<1> QED
  BY <1>1, <1>2, <1>3, <1>4, <1>5, <1>6 DEF MessageKinds

\* The numbers and the points of a key are read back from their bytes.
LEMMA EachBack ==
    ASSUME NEW list \in Seq(Nat)
    PROVE  Each(SetBytes, Each(BigBytes, list)) = list
<1>1. PICK n \in Nat : n = Len(list) /\ DOMAIN list = 1..n /\ list = [i \in 1..n |-> list[i]]
  OBVIOUS
<1>2. Each(BigBytes, list) = [i \in 1..n |-> BigBytes(list[i])]
  BY <1>1, Zenon DEF Each
<1>3. Each(SetBytes, Each(BigBytes, list)) = [i \in 1..n |-> SetBytes(BigBytes(list[i]))]
  BY <1>2 DEF Each
<1>4. ASSUME NEW i \in 1..n PROVE SetBytes(BigBytes(list[i])) = list[i]
  <2>1. list[i] \in Nat
    BY <1>1
  <2> QED
    BY <2>1, BigBytesRead
<1>5. [i \in 1..n |-> SetBytes(BigBytes(list[i]))] = [i \in 1..n |-> list[i]]
  BY <1>4, Zenon
<1> QED
  BY <1>1, <1>3, <1>5, Zenon

LEMMA PointBack ==
    ASSUME NEW p \in Points
    PROVE  NewECPoint([X |-> BigBytes(p.x), Y |-> BigBytes(p.y)]) = p
<1>1. p.x \in Nat /\ p.y \in Nat /\ p = [x |-> p.x, y |-> p.y]
  BY DEF Points
<1>2. SetBytes(BigBytes(p.x)) = p.x /\ SetBytes(BigBytes(p.y)) = p.y
  BY <1>1, BigBytesRead
<1>3. NewECPoint([X |-> BigBytes(p.x), Y |-> BigBytes(p.y)]) = [x |-> SetBytes(BigBytes(p.x)), y |-> SetBytes(BigBytes(p.y))]
  BY DEF NewECPoint
<1> QED
  BY <1>1, <1>2, <1>3, Zenon

PointsOf(list) == [i \in DOMAIN list |-> [X |-> BigBytes(list[i].x), Y |-> BigBytes(list[i].y)]]

LEMMA PointsBack ==
    ASSUME NEW list \in Seq(Points)
    PROVE  /\ DOMAIN PointsOf(list) = DOMAIN list
           /\ \A i \in DOMAIN list : NewECPoint(PointsOf(list)[i]) = list[i]
           /\ Each(NewECPoint, PointsOf(list)) = list
<1>1. PICK n \in Nat : n = Len(list) /\ DOMAIN list = 1..n /\ list = [i \in 1..n |-> list[i]]
  OBVIOUS
<1>2. PICK ps : ps = PointsOf(list)
  OBVIOUS
<1>3. DOMAIN ps = 1..n /\ \A i \in 1..n : ps[i] = [X |-> BigBytes(list[i].x), Y |-> BigBytes(list[i].y)]
  BY <1>1, <1>2, Zenon DEF PointsOf
<1>4. ASSUME NEW i \in 1..n PROVE NewECPoint(ps[i]) = list[i]
  <2>1. list[i] \in Points
    BY <1>1
  <2>2. NewECPoint([X |-> BigBytes(list[i].x), Y |-> BigBytes(list[i].y)]) = list[i]
    BY <2>1, PointBack
  <2> QED
    BY <1>3, <2>2, Zenon
<1>5. Each(NewECPoint, ps) = [i \in 1..n |-> NewECPoint(ps[i])]
  BY <1>3, Zenon DEF Each
<1>6. [i \in 1..n |-> NewECPoint(ps[i])] = [i \in 1..n |-> list[i]]
  BY <1>4, Zenon
<1> QED
  BY <1>1, <1>2, <1>3, <1>4, <1>5, <1>6, Zenon

\* The threshold key of a signer: it is read back from its encoding, its points are
\* on the curve, and its numbers are those of the signer.
LEMMA KeyReads ==
    ASSUME NEW tk \in Keys, NEW pb, pb = ThresholdKey_Marshal(tk)
    PROVE  /\ Reads("LocalPartySaveData", Zero["LocalPartySaveData"], LocalPartySaveData_Marshal(pb), pb)
           /\ ThresholdKey_Unmarshal(pb) = tk
           /\ OnCurve(tk.ECDSAPub) /\ (\A i \in DOMAIN tk.BigXj : OnCurve(tk.BigXj[i])) => Decodes(pb)
<1>1. \A x \in {tk.N, tk.LambdaN, tk.PhiN, tk.NTildei, tk.H1i, tk.H2i, tk.Alpha, tk.Beta, tk.P, tk.Q,
                tk.Xi, tk.ShareID} : BigBytes(x) \in ByteSeqs /\ SetBytes(BigBytes(x)) = x
  BY BigBytesType, BigBytesRead DEF Keys
<1>2. \A l \in {tk.Ks, tk.NTildej, tk.H1j, tk.H2j, tk.PaillierPKs} : Each(SetBytes, Each(BigBytes, l)) = l
  BY EachBack DEF Keys
<1>3. tk.BigXj \in Seq(Points) /\ tk.ECDSAPub \in Points
  BY DEF Keys
<1>4. PICK points : points = PointsOf(tk.BigXj)
  OBVIOUS
<1>5. PICK pub : pub = [X |-> BigBytes(tk.ECDSAPub.x), Y |-> BigBytes(tk.ECDSAPub.y)]
  OBVIOUS
<1>6. PICK sk : sk = [PublicKey |-> BigBytes(tk.N), LambdaN |-> BigBytes(tk.LambdaN), PhiN |-> BigBytes(tk.PhiN)]
  OBVIOUS
<1>7. PICK pre : pre = [PaillierSK |-> <<sk>>,
                         NTilde |-> BigBytes(tk.NTildei), H1I |-> BigBytes(tk.H1i), H2I |-> BigBytes(tk.H2i),
                         Alpha |-> BigBytes(tk.Alpha), Beta |-> BigBytes(tk.Beta),
                         P |-> BigBytes(tk.P), Q |-> BigBytes(tk.Q)]
  OBVIOUS
<1>8. PICK sec : sec = [Xi |-> BigBytes(tk.Xi), ShareID |-> BigBytes(tk.ShareID)]
  OBVIOUS
<1>9. pb = [LocalPreParams |-> <<pre>>, LocalSecrets |-> <<sec>>,
           Ks |-> Each(BigBytes, tk.Ks), NTildej |-> Each(BigBytes, tk.NTildej),
           H1J |-> Each(BigBytes, tk.H1j), H2J |-> Each(BigBytes, tk.H2j),
           BigXj |-> points, PaillierPKs |-> Each(BigBytes, tk.PaillierPKs), EcdsaPub |-> <<pub>>]
  BY <1>4, <1>5, <1>6, <1>7, <1>8, Zenon DEF ThresholdKey_Marshal, PointsOf
<1>10. /\ pb.LocalPreParams = <<pre>> /\ pb.LocalSecrets = <<sec>> /\ pb.EcdsaPub = <<pub>> /\ pb.BigXj = points
       /\ pb.Ks = Each(BigBytes, tk.Ks) /\ pb.NTildej = Each(BigBytes, tk.NTildej)
       /\ pb.H1J = Each(BigBytes, tk.H1j) /\ pb.H2J = Each(BigBytes, tk.H2j)
       /\ pb.PaillierPKs = Each(BigBytes, tk.PaillierPKs)
  BY <1>9
<1>11. sk \in PrivateKeys /\ sec \in Secrets /\ pub \in ECPoints
  BY <1>1, <1>3, <1>5, <1>6, <1>8, PointBytes DEF PrivateKeys, Secrets
<1>12. pre.PaillierSK = <<sk>>
  BY <1>7
<1>13. pre \in PreParams
  <2>1. <<sk>> \in Seq(PrivateKeys)
    BY <1>11, OneOf
  <2> QED
    BY <1>1, <1>7, <2>1 DEF PreParams
<1>14. Reads("LocalPartySaveData", Zero["LocalPartySaveData"], LocalPartySaveData_Marshal(pb), pb)
  <2>1. pb \in SaveData
    BY ThresholdKeyType
  <2> QED
    BY <1>10, <1>11, <1>12, <1>13, <2>1, LocalPartySaveDataReads, Zenon
<1>15. Get(<<pre>>, "LocalPreParams") = pre /\ Get(<<sk>>, "PrivateKey") = sk
       /\ Get(<<sec>>, "LocalSecrets") = sec /\ Get(<<pub>>, "ECPoint") = pub
  BY DEF Get
<1>16. NewECPoint(pub) = tk.ECDSAPub
  BY <1>3, <1>5, PointBack
<1>17. /\ DOMAIN points = DOMAIN tk.BigXj /\ \A i \in DOMAIN tk.BigXj : NewECPoint(points[i]) = tk.BigXj[i]
       /\ Each(NewECPoint, points) = tk.BigXj
  BY <1>3, <1>4, PointsBack
<1>18. ASSUME OnCurve(tk.ECDSAPub), \A i \in DOMAIN tk.BigXj : OnCurve(tk.BigXj[i])
       PROVE  Decodes(pb)
  BY <1>10, <1>15, <1>16, <1>17, <1>18, Zenon DEF Decodes
<1>19. ThresholdKey_Unmarshal(pb) =
          [N |-> SetBytes(sk.PublicKey), LambdaN |-> SetBytes(sk.LambdaN), PhiN |-> SetBytes(sk.PhiN),
           NTildei |-> SetBytes(pre.NTilde), H1i |-> SetBytes(pre.H1I), H2i |-> SetBytes(pre.H2I),
           Alpha |-> SetBytes(pre.Alpha), Beta |-> SetBytes(pre.Beta),
           P |-> SetBytes(pre.P), Q |-> SetBytes(pre.Q),
           Xi |-> SetBytes(sec.Xi), ShareID |-> SetBytes(sec.ShareID),
           Ks |-> tk.Ks, NTildej |-> tk.NTildej, H1j |-> tk.H1j, H2j |-> tk.H2j,
           BigXj |-> tk.BigXj, PaillierPKs |-> tk.PaillierPKs, ECDSAPub |-> tk.ECDSAPub]
  <2>1. /\ Each(SetBytes, pb.Ks) = tk.Ks /\ Each(SetBytes, pb.NTildej) = tk.NTildej
        /\ Each(SetBytes, pb.H1J) = tk.H1j /\ Each(SetBytes, pb.H2J) = tk.H2j
        /\ Each(SetBytes, pb.PaillierPKs) = tk.PaillierPKs /\ Each(NewECPoint, pb.BigXj) = tk.BigXj
    BY <1>2, <1>10, <1>17, Zenon
  <2>2. Get(pb.LocalPreParams, "LocalPreParams") = pre /\ Get(pre.PaillierSK, "PrivateKey") = sk
        /\ Get(pb.LocalSecrets, "LocalSecrets") = sec /\ NewECPoint(Get(pb.EcdsaPub, "ECPoint")) = tk.ECDSAPub
    BY <1>10, <1>12, <1>15, <1>16, Zenon
  <2> QED
    BY <2>1, <2>2, Zenon DEF ThresholdKey_Unmarshal
<1>20. /\ SetBytes(sk.PublicKey) = tk.N /\ SetBytes(sk.LambdaN) = tk.LambdaN /\ SetBytes(sk.PhiN) = tk.PhiN
       /\ SetBytes(sec.Xi) = tk.Xi /\ SetBytes(sec.ShareID) = tk.ShareID
  BY <1>1, <1>6, <1>8
<1>21. /\ SetBytes(pre.NTilde) = tk.NTildei /\ SetBytes(pre.H1I) = tk.H1i /\ SetBytes(pre.H2I) = tk.H2i
       /\ SetBytes(pre.Alpha) = tk.Alpha /\ SetBytes(pre.Beta) = tk.Beta
       /\ SetBytes(pre.P) = tk.P /\ SetBytes(pre.Q) = tk.Q
  BY <1>1, <1>7
<1>22. tk = [N |-> tk.N, LambdaN |-> tk.LambdaN, PhiN |-> tk.PhiN,
             NTildei |-> tk.NTildei, H1i |-> tk.H1i, H2i |-> tk.H2i, Alpha |-> tk.Alpha, Beta |-> tk.Beta,
             P |-> tk.P, Q |-> tk.Q, Xi |-> tk.Xi, ShareID |-> tk.ShareID,
             Ks |-> tk.Ks, NTildej |-> tk.NTildej, H1j |-> tk.H1j, H2j |-> tk.H2j,
             BigXj |-> tk.BigXj, PaillierPKs |-> tk.PaillierPKs, ECDSAPub |-> tk.ECDSAPub]
  BY DEF Keys
<1>23. ThresholdKey_Unmarshal(pb) = tk
  BY <1>19, <1>20, <1>21, <1>22, Zenon
<1> QED
  BY <1>14, <1>18, <1>23

LEMMA SignerBack ==
    ASSUME NEW in \in Inputs, in.kind = "ThresholdSigner"
    PROVE  /\ Reads("LocalPartySaveData", LocalPartySaveData, LocalPartySaveData_Marshal(KeyOf(in)), KeyOf(in))
           /\ Decodes(KeyOf(in)) /\ Signer_Unmarshal(InfoOf(in), ThresholdKey_Unmarshal(KeyOf(in))) = in.value
<1>1. PICK tk : tk = in.value.thresholdKey
  OBVIOUS
<1>2. KeyOf(in) = ThresholdKey_Marshal(tk) /\ tk \in Keys
  BY <1>1, InfoIs DEF KeyOf
<1>3. OnCurve(tk.ECDSAPub) /\ \A i \in DOMAIN tk.BigXj : OnCurve(tk.BigXj[i])
  BY <1>1, InfoIs, Zenon
<1>4. Zero["LocalPartySaveData"] = LocalPartySaveData
  BY DEF Zero
<1>5. /\ Reads("LocalPartySaveData", Zero["LocalPartySaveData"], LocalPartySaveData_Marshal(KeyOf(in)), KeyOf(in))
      /\ ThresholdKey_Unmarshal(KeyOf(in)) = tk /\ Decodes(KeyOf(in))
  BY <1>2, <1>3, KeyReads, Zenon
<1>6. InfoOf(in).DishonestThreshold = in.value.dishonestThreshold /\ in.value \in Signers
  BY InfoIs
<1>7. in.value = [groupID |-> in.value.groupID, memberID |-> in.value.memberID,
                  groupMemberIDs |-> in.value.groupMemberIDs,
                  dishonestThreshold |-> in.value.dishonestThreshold, thresholdKey |-> in.value.thresholdKey]
  BY <1>6 DEF Signers
<1>8. /\ InfoOf(in).GroupID = in.value.groupID /\ InfoOf(in).MemberID = in.value.memberID
      /\ InfoOf(in).GroupMemberIDs = in.value.groupMemberIDs
  BY DEF InfoOf
<1>9. Signer_Unmarshal(InfoOf(in), tk) = in.value
  BY <1>1, <1>6, <1>7, <1>8, Zenon DEF Signer_Unmarshal
<1> QED
  BY <1>4, <1>5, <1>9, Zenon

-----------------------------------------------------------------------------
(* Reading goes on: what is left of the data of a call.                     *)

\* From index i on the data is b.
From(data, i, b) == b \in ByteSeqs /\ i + Len(b) = Len(data) /\ \A j \in 1..Len(b) : data[i + j] = b[j]

LEMMA FromStart == ASSUME NEW b \in ByteSeqs PROVE From(b, 0, b)
<1>1. Len(b) \in Nat
  BY LenByteSeq
<1> QED
  BY <1>1 DEF From

LEMMA FromSplit ==
    ASSUME NEW data \in ByteSeqs, NEW i \in Nat, NEW x \in ByteSeqs, NEW r \in ByteSeqs, From(data, i, x \o r)
    PROVE  /\ i + Len(x) \in Nat /\ i + Len(x) <= Len(data) /\ \A j \in 1..Len(x) : data[i + j] = x[j]
           /\ From(data, i + Len(x), r)
<1>1. PICK l, n, p \in Nat : l = Len(x) /\ n = Len(r) /\ p = Len(data)
  BY LenByteSeq
<1>2. Len(x \o r) = l + n
  BY <1>1, ConcatType
<1>3. i + (l + n) = p /\ \A j \in 1..(l + n) : data[i + j] = (x \o r)[j]
  BY <1>1, <1>2 DEF From
<1>4. (\A j \in 1..l : (x \o r)[j] = x[j]) /\ \A j \in 1..n : (x \o r)[l + j] = r[j]
  BY <1>1, ConcatAt
<1>5. \A j \in 1..l : data[i + j] = x[j]
  <2> SUFFICES ASSUME NEW j \in 1..l PROVE data[i + j] = x[j]
    OBVIOUS
  <2>2. j \in 1..(l + n)
    BY <1>1
  <2> QED
    BY <1>3, <1>4, <2>2
<1>6. \A j \in 1..n : data[(i + l) + j] = r[j]
  <2> SUFFICES ASSUME NEW j \in 1..n PROVE data[(i + l) + j] = r[j]
    OBVIOUS
  <2>2. l + j \in 1..(l + n) /\ i + (l + j) = (i + l) + j
    BY <1>1
  <2> QED
    BY <1>3, <1>4, <2>2
<1>7. From(data, i + l, r)
  BY <1>1, <1>3, <1>6 DEF From
<1>8. i + l \in Nat /\ i + l <= p
  BY <1>1, <1>3
<1> QED
  BY <1>1, <1>5, <1>7, <1>8

LEMMA FromTake ==
    ASSUME NEW data \in ByteSeqs, NEW i \in Nat, NEW x \in ByteSeqs, i + Len(x) <= Len(data),
           \A j \in 1..Len(x) : data[i + j] = x[j]
    PROVE  SubSeq(data, i + 1, i + Len(x)) = x
<1>1. PICK l, p \in Nat : l = Len(x) /\ p = Len(data)
  BY LenByteSeq
<1>2. data \in Seq(Byte) /\ x \in Seq(Byte)
  BY DEF ByteSeqs
<1>3. PICK s : s = SubSeq(data, i + 1, i + l)
  OBVIOUS
<1>4. s \in Seq(Byte) /\ Len(s) = l /\ \A j \in 1..l : s[j] = data[i + j]
  <2>1. PICK a, b \in Int : a = i + 1 /\ b = i + l
    BY <1>1
  <2>2. \A j \in a..b : data[j] \in Byte
    BY <1>1, <1>2, <2>1
  <2>3. /\ s \in Seq(Byte) /\ Len(s) = IF a <= b THEN b - a + 1 ELSE 0
        /\ \A j \in 1..(b - a + 1) : s[j] = data[a + j - 1]
    BY <1>3, <2>1, <2>2, SubSeqProperties
  <2>4. \A j \in 1..l : s[j] = data[i + j]
    <3> SUFFICES ASSUME NEW j \in 1..l PROVE s[j] = data[i + j]
      OBVIOUS
    <3>2. j \in 1..(b - a + 1) /\ a + j - 1 = i + j
      BY <2>1
    <3> QED
      BY <2>3, <3>2
  <2>5. Len(s) = l
    BY <2>1, <2>3
  <2> QED
    BY <2>3, <2>4, <2>5
<1>5. \A j \in 1..l : s[j] = x[j]
  BY <1>1, <1>4
<1>6. s = x
  BY <1>1, <1>2, <1>4, <1>5, SeqEqual
<1> QED
  BY <1>1, <1>3, <1>6

LEMMA Cancel ==
    ASSUME NEW a \in ByteSeqs, NEW b \in ByteSeqs, NEW c \in ByteSeqs, a \o b = a \o c
    PROVE  b = c
<1>1. PICK l, n, p \in Nat : l = Len(a) /\ n = Len(b) /\ p = Len(c)
  BY LenByteSeq
<1>2. l + n = l + p
  BY <1>1, ConcatType
<1>3. n = p
  BY <1>2
<1>4. ASSUME NEW j \in 1..n PROVE b[j] = c[j]
  <2>1. (a \o b)[l + j] = b[j] /\ (a \o c)[l + j] = c[j]
    BY <1>1, <1>3, ConcatAt
  <2> QED
    BY <2>1
<1>5. Len(b) = Len(c) /\ \A j \in 1..Len(b) : b[j] = c[j]
  BY <1>1, <1>3, <1>4
<1> QED
  BY <1>5, SeqEqual DEF ByteSeqs
-----------------------------------------------------------------------------
(* Unknown fields: what is left of them after some of their elements.       *)

Tails(field, G) ==
    /\ G \in [0..Len(field) -> ByteSeqs] /\ G[0] = FieldBytes(field) /\ G[Len(field)] = <<>>
    /\ \A n \in 0..(Len(field) - 1) : G[n] = ElementBytes(field[n + 1]) \o G[n + 1]

LEMMA TailsExist ==
    ASSUME NEW field \in Seq(Elements)
    PROVE  \E G : Tails(field, G)
<1>1. PICK L \in Nat : L = Len(field)
  OBVIOUS
<1>2. PICK F \in [0..L -> ByteSeqs] :
          /\ F[0] = <<>> /\ \A k \in 1..L : F[k] = F[k - 1] \o ElementBytes(field[k])
          /\ FieldBytes(field) = F[L]
  BY <1>1, FieldBytesIs
<1>3. \A k \in 1..L : ElementBytes(field[k]) \in ByteSeqs
  <2> SUFFICES ASSUME NEW k \in 1..L PROVE ElementBytes(field[k]) \in ByteSeqs
    OBVIOUS
  <2>2. field[k] \in Elements
    BY <1>1
  <2> QED
    BY <2>2, ElementBytesIs
<1> DEFINE T == {n \in Nat : n <= L => \E g \in ByteSeqs : F[L] = F[L - n] \o g}
<1>4. 0 \in T
  <2>1. F[L] \o <<>> = F[L] /\ L - 0 = L /\ <<>> \in ByteSeqs
    BY <1>2, ConcatEmpty, EmptyByteSeq
  <2> QED
    BY <2>1
<1>5. ASSUME NEW n \in Nat, n \in T PROVE n + 1 \in T
  <2> SUFFICES ASSUME n + 1 <= L PROVE \E g \in ByteSeqs : F[L] = F[L - (n + 1)] \o g
    OBVIOUS
  <2>2. PICK g \in ByteSeqs : F[L] = F[L - n] \o g
    BY <1>5
  <2>3. PICK k \in 1..L : k = L - n /\ L - (n + 1) = k - 1 /\ k - 1 \in 0..L
    OBVIOUS
  <2>4. PICK e \in ByteSeqs : e = ElementBytes(field[k])
    BY <1>3, <2>3
  <2>5. F[k] = F[k - 1] \o e /\ F[k - 1] \in ByteSeqs
    BY <1>2, <2>3, <2>4
  <2>6. F[L] = F[k - 1] \o (e \o g) /\ e \o g \in ByteSeqs
    <3>1. (F[k - 1] \o e) \o g = F[k - 1] \o (e \o g)
      BY <2>4, <2>5, ConcatAssoc
    <3>2. F[L] = F[k] \o g
      BY <2>2, <2>3, Zenon
    <3>3. e \o g \in ByteSeqs
      BY ConcatType
    <3> QED
      BY <2>5, <3>1, <3>2, <3>3, Zenon
  <2> QED
    BY <2>3, <2>6
<1>6. Nat \subseteq T
  <2> HIDE DEF T
  <2> QED
    BY <1>4, <1>5, Induction
<1>7. ASSUME NEW n \in 0..L PROVE \E g \in ByteSeqs : F[L] = F[n] \o g
  <2>1. L - n \in Nat /\ L - n <= L /\ L - (L - n) = n
    OBVIOUS
  <2>2. L - n \in T
    BY <1>6, <2>1
  <2> QED
    BY <2>1, <2>2
<1> HIDE DEF T
<1> DEFINE G == [n \in 0..L |-> CHOOSE g \in ByteSeqs : F[L] = F[n] \o g]
<1>8. \A n \in 0..L : G[n] \in ByteSeqs /\ F[L] = F[n] \o G[n]
  BY <1>7
<1>9. G \in [0..L -> ByteSeqs]
  BY <1>8
<1> HIDE DEF G
<1>10. G[0] = FieldBytes(field)
  <2>1. G[0] \in ByteSeqs /\ F[L] = F[0] \o G[0]
    BY <1>1, <1>8
  <2> QED
    BY <1>2, <2>1, EmptyConcat, Zenon
<1>11. G[L] = <<>>
  <2>1. G[L] \in ByteSeqs /\ F[L] = F[L] \o G[L] /\ F[L] \in ByteSeqs
    BY <1>1, <1>2, <1>8
  <2>2. F[L] \o <<>> = F[L] /\ <<>> \in ByteSeqs
    BY <2>1, ConcatEmpty, EmptyByteSeq
  <2> QED
    BY <2>1, <2>2, Cancel, Zenon
<1>12. ASSUME NEW n \in 0..(L - 1) PROVE G[n] = ElementBytes(field[n + 1]) \o G[n + 1]
  <2>1. n \in 0..L /\ n + 1 \in 1..L /\ n + 1 \in 0..L /\ (n + 1) - 1 = n
    OBVIOUS
  <2>2. PICK e \in ByteSeqs : e = ElementBytes(field[n + 1])
    BY <1>3, <2>1
  <2>3. F[n + 1] = F[n] \o e /\ F[n] \in ByteSeqs
    BY <1>2, <2>1, <2>2
  <2>4. G[n] \in ByteSeqs /\ F[L] = F[n] \o G[n] /\ G[n + 1] \in ByteSeqs /\ F[L] = F[n + 1] \o G[n + 1]
    BY <1>8, <2>1
  <2>5. PICK a, g, h \in ByteSeqs : a = F[n] /\ g = G[n] /\ h = G[n + 1]
    BY <2>3, <2>4, Zenon
  <2>6. F[L] = a \o (e \o h) /\ e \o h \in ByteSeqs
    <3>1. (a \o e) \o h = a \o (e \o h)
      BY ConcatAssoc
    <3>2. F[L] = (a \o e) \o h
      BY <2>3, <2>4, <2>5, Zenon
    <3>3. e \o h \in ByteSeqs
      BY ConcatType
    <3> QED
      BY <3>1, <3>2, <3>3, Zenon
  <2>7. a \o g = a \o (e \o h)
    BY <2>4, <2>5, <2>6, Zenon
  <2>8. g = e \o h
    BY <2>6, <2>7, Cancel
  <2> QED
    BY <2>2, <2>5, <2>8, Zenon
<1> QED
  BY <1>1, <1>9, <1>10, <1>11, <1>12 DEF Tails

\* From index i to p the data is b.
Has(data, i, b, p) == p = i + Len(b) /\ p <= Len(data) /\ \A j \in 1..Len(b) : data[i + j] = b[j]

LEMMA HoldsBoth ==
    ASSUME NEW data \in ByteSeqs, NEW i \in Nat, NEW a \in ByteSeqs, NEW b \in ByteSeqs, NEW p, Has(data, i, a \o b, p)
    PROVE  \E q \in Nat : Has(data, i, a, q) /\ Has(data, q, b, p)
<1>1. PICK l, n, d \in Nat : l = Len(a) /\ n = Len(b) /\ d = Len(data)
  BY LenByteSeq
<1>2. Len(a \o b) = l + n
  BY <1>1, ConcatType
<1>3. p = i + (l + n) /\ p <= d /\ \A j \in 1..(l + n) : data[i + j] = (a \o b)[j]
  BY <1>1, <1>2 DEF Has
<1>4. (\A j \in 1..l : (a \o b)[j] = a[j]) /\ \A j \in 1..n : (a \o b)[l + j] = b[j]
  BY <1>1, ConcatAt
<1>5. PICK q \in Nat : q = i + l
  BY <1>1
<1>6. \A j \in 1..l : data[i + j] = a[j]
  <2> SUFFICES ASSUME NEW j \in 1..l PROVE data[i + j] = a[j]
    OBVIOUS
  <2>2. j \in 1..(l + n)
    BY <1>1
  <2> QED
    BY <1>3, <1>4, <2>2
<1>7. \A j \in 1..n : data[q + j] = b[j]
  <2> SUFFICES ASSUME NEW j \in 1..n PROVE data[q + j] = b[j]
    OBVIOUS
  <2>2. l + j \in 1..(l + n) /\ i + (l + j) = q + j
    BY <1>1, <1>5
  <2> QED
    BY <1>3, <1>4, <2>2
<1>8. p = q + n /\ q <= d
  BY <1>1, <1>3, <1>5
<1> QED
  BY <1>1, <1>3, <1>5, <1>6, <1>7, <1>8 DEF Has

LEMMA FromHolds ==
    ASSUME NEW data \in ByteSeqs, NEW i \in Nat, NEW x \in ByteSeqs, NEW r \in ByteSeqs, From(data, i, x \o r)
    PROVE  \E p \in Nat : p = i + Len(x) /\ Has(data, i, x, p) /\ From(data, p, r)
BY FromSplit DEF Has

\* A number that was written is read.
LEMMA NumberAt ==
    ASSUME NEW data \in ByteSeqs, NEW i \in Nat, NEW v \in Nat, v < 2^WordBits, NEW p, Has(data, i, encodeVarint(v), p),
           NEW bits \in Nat
    PROVE  decodeVarint(data, i, bits) = [ok |-> TRUE, value |-> v % 2^bits, next |-> p]
<1>1. Len(encodeVarint(v)) = sov(v) /\ sov(v) \in Nat
  BY EncodedType
<1>2. p = i + sov(v) /\ Written(data, i, v)
  BY <1>1 DEF Has, Written
<1>3. Decoded(data, i, v, bits)
  BY <1>2, DecodeWritten DEF ByteSeqs
<1> QED
  BY <1>2, <1>3, Zenon DEF Decoded

\* The varint of an unknown element ends at its last byte.
LEMMA GroupsAt ==
    ASSUME NEW data \in ByteSeqs, NEW i \in Nat, NEW c \in ByteSeqs, Len(c) \in 1..Groups,
           \A k \in DOMAIN c : c[k] < 128 <=> k = Len(c), NEW p, Has(data, i, c, p)
    PROVE  LET v == decodeVarint(data, i, WordBits) IN v.ok /\ v.next = p
<1>1. PICK l, d \in Nat : l = Len(c) /\ d = Len(data)
  BY LenByteSeq
<1>2. Groups \in Nat /\ l - 1 \in 0..(Groups - 1)
  <2>1. Groups \in Int
    BY WidthsAre DEF Groups
  <2> QED
    BY <1>1, <2>1
<1>3. p = i + l /\ p <= d /\ \A j \in 1..l : data[i + j] = c[j]
  BY <1>1 DEF Has
<1>4. DOMAIN c = 1..l
  BY <1>1 DEF ByteSeqs
<1>5. PICK T : T = Ends(data, i)
  OBVIOUS
<1>6. T \subseteq Nat
  BY <1>2, <1>5 DEF Ends
<1>7. l - 1 \in T
  <2>1. i + (l - 1) < d /\ i + (l - 1) + 1 = i + l
    BY <1>1, <1>2, <1>3
  <2>2. data[i + l] < 128
    BY <1>1, <1>3, <1>4
  <2> QED
    BY <1>1, <1>2, <1>5, <2>1, <2>2 DEF Ends
<1>8. ASSUME NEW y \in T PROVE l - 1 <= y
  <2>1. y \in Nat /\ data[i + y + 1] < 128
    BY <1>2, <1>5 DEF Ends
  <2> SUFFICES ASSUME y < l - 1 PROVE FALSE
    BY <1>1, <2>1
  <2>3. PICK k \in 1..l : k = y + 1 /\ i + y + 1 = i + k /\ k # l
    BY <2>1
  <2>4. c[k] < 128
    BY <1>3, <2>1, <2>3
  <2> QED
    BY <1>1, <1>4, <2>3, <2>4
<1>9. Min(T) = l - 1
  <2>1. PICK n : n = Min(T) /\ n \in T /\ n <= l - 1
    BY <1>6, <1>7, MinIs
  <2>2. n \in Nat /\ l - 1 <= n
    BY <1>6, <1>8, <2>1
  <2> QED
    BY <1>1, <2>1, <2>2
<1>10. PICK g : g = GroupsValue(ReadGroups(data, i, Min(T) + 1), WordBits)
  OBVIOUS
<1>11. decodeVarint(data, i, WordBits) = [ok |-> TRUE, value |-> g, next |-> i + Min(T) + 1]
  <2>1. T # {}
    BY <1>7
  <2> QED
    BY <1>5, <1>10, <2>1, DecodeIs, Zenon
<1>12. i + Min(T) + 1 = p
  BY <1>1, <1>3, <1>9
<1> QED
  BY <1>11, <1>12

\* What skipMessage reads of an element that starts at index i and ends at p.
ElementAt(data, i, e, p) ==
    LET wire == decodeVarint(data, i, WordBits)
        v == decodeVarint(data, wire.next, WordBits)
    IN /\ wire.ok /\ wire.value % 8 = e.wireType /\ Signed(wire.value \div 8, IntBits) = e.num
       /\ wire.next \in Nat
       /\ e.wireType = 0 => v.ok /\ v.next = p
       /\ e.wireType = 1 => wire.next + 8 = p
       /\ e.wireType = 2 => /\ v.ok /\ Signed(v.value, WordBits) >= 0
                            /\ Signed(v.next + Signed(v.value, WordBits), WordBits) = p
       /\ e.wireType \in {3, 4} => wire.next = p
       /\ e.wireType = 5 => wire.next + 4 = p

\* The length of a string, or nothing.
LengthPart(e) == IF e.wireType = 2 THEN encodeVarint(Len(e.content)) ELSE <<>>

LEMMA ElementPartsAre ==
    ASSUME NEW e \in Elements
    PROVE  /\ encodeVarint(8 * e.num + e.wireType) \in ByteSeqs /\ LengthPart(e) \in ByteSeqs
           /\ Len(encodeVarint(8 * e.num + e.wireType)) > 0
           /\ ElementBytes(e) = (encodeVarint(8 * e.num + e.wireType) \o LengthPart(e)) \o e.content
<1>1. e.content \in ByteSeqs /\ 8 * e.num + e.wireType \in Nat
  BY ElementIs
<1>2. encodeVarint(8 * e.num + e.wireType) \in ByteSeqs /\ Len(encodeVarint(8 * e.num + e.wireType)) > 0
  <2>1. PICK t \in Nat : t = 8 * e.num + e.wireType
    BY <1>1
  <2>2. encodeVarint(t) \in ByteSeqs /\ Len(encodeVarint(t)) = sov(t) /\ sov(t) \in Nat \ {0}
    BY EncodedType, SovIs
  <2>3. Len(encodeVarint(t)) > 0
    BY <2>2
  <2> QED
    BY <2>1, <2>2, <2>3, Zenon
<1>3. LengthPart(e) \in ByteSeqs
  <2>1. Len(e.content) \in Nat
    BY <1>1, LenByteSeq
  <2> QED
    BY <2>1, EncodedType, EmptyByteSeq DEF LengthPart
<1>4. ElementBytes(e) = (encodeVarint(8 * e.num + e.wireType) \o LengthPart(e)) \o e.content
  BY Zenon DEF ElementBytes, LengthPart
<1> QED
  BY <1>2, <1>3, <1>4

LEMMA ElementNonempty ==
    ASSUME NEW e \in Elements
    PROVE  Len(ElementBytes(e)) \in Nat /\ Len(ElementBytes(e)) > 0
<1>1. PICK a, b, c \in ByteSeqs : ElementBytes(e) = (a \o b) \o c /\ Len(a) > 0
  <2>1. e.content \in ByteSeqs
    BY ElementIs
  <2> QED
    BY <2>1, ElementPartsAre, Zenon
<1>2. a \o b \in ByteSeqs /\ Len(a \o b) = Len(a) + Len(b) /\ Len((a \o b) \o c) = Len(a \o b) + Len(c)
  BY ConcatType
<1>3. Len(a) \in Nat /\ Len(b) \in Nat /\ Len(c) \in Nat
  BY LenByteSeq
<1> QED
  BY <1>1, <1>2, <1>3

LEMMA ElementContent ==
    ASSUME NEW e \in Elements
    PROVE  /\ e.wireType = 0 => /\ Len(e.content) \in 1..Groups
                                /\ \A i \in DOMAIN e.content : e.content[i] < 128 <=> i = Len(e.content)
           /\ e.wireType = 1 => Len(e.content) = 8
           /\ e.wireType \in {3, 4} => Len(e.content) = 0
           /\ e.wireType = 5 => Len(e.content) = 4
<1>1. e.wireType \in 0..5
  BY ElementIs
<1>2. e.wireType \in {3, 4} => e.content = <<>>
  BY <1>1 DEF Elements
<1>3. e.wireType \in {3, 4} => Len(e.content) = 0
  BY <1>2
<1> QED
  BY <1>1, <1>3 DEF Elements

LEMMA ElementReads ==
    ASSUME NEW e \in Elements, NEW data \in ByteSeqs, NEW i \in Nat, NEW p, Has(data, i, ElementBytes(e), p),
           Len(data) < 2^(WordBits - 1)
    PROVE  ElementAt(data, i, e, p)
<1>1. /\ e.num \in Nat /\ e.num > 0 /\ e.num < 2^(IntBits - 3) /\ e.wireType \in 0..5
      /\ e.content \in ByteSeqs
  BY ElementIs
<1>2. PICK t \in Nat : t = 8 * e.num + e.wireType /\ t < 2^WordBits
  BY ElementIs
<1>3. PICK a, b, c \in ByteSeqs : /\ a = encodeVarint(t) /\ b = LengthPart(e) /\ c = e.content
                                  /\ ElementBytes(e) = (a \o b) \o c
  BY <1>1, <1>2, ElementPartsAre, Zenon
<1>4. a \o b \in ByteSeqs
  BY ConcatType
<1>5. PICK q \in Nat : Has(data, i, a \o b, q) /\ Has(data, q, c, p)
  <2>1. Has(data, i, (a \o b) \o c, p)
    BY <1>3, Zenon
  <2> QED
    BY <1>4, <2>1, HoldsBoth
<1>6. PICK r \in Nat : Has(data, i, a, r) /\ Has(data, r, b, q)
  BY <1>5, HoldsBoth
<1>7. PICK wire : wire = decodeVarint(data, i, WordBits)
  OBVIOUS
<1>8. wire = [ok |-> TRUE, value |-> t % 2^WordBits, next |-> r]
  BY <1>2, <1>3, <1>6, <1>7, WidthsAre, NumberAt
<1>9. PICK W \in Nat : W = 2^WordBits /\ W > 0
  BY WidthsAre, PowType
<1>10. t % W = t
  BY <1>2, <1>9
<1>11. wire.ok /\ wire.value = t /\ wire.next = r
  BY <1>8, <1>9, <1>10
<1>12. t % 8 = e.wireType /\ t \div 8 = e.num
  <2>1. PICK n \in Nat : n = e.num
    BY <1>1
  <2>2. PICK w \in 0..5 : w = e.wireType
    BY <1>1
  <2>3. t = 8 * n + w
    BY <1>2, <2>1, <2>2
  <2>4. t % 8 = w /\ t \div 8 = n
    BY <2>3
  <2> QED
    BY <2>1, <2>2, <2>4
<1>13. Signed(e.num, IntBits) = e.num
  <2>1. IntBits \in Nat /\ 8 <= IntBits
    BY WidthAssumption
  <2>2. IntBits - 3 \in Nat /\ IntBits - 1 \in Nat /\ IntBits - 3 <= IntBits - 1
    BY <2>1
  <2>3. PICK x, y \in Nat : x = 2^(IntBits - 3) /\ y = 2^(IntBits - 1) /\ x <= y
    BY <2>2, PowType, PowMonotone
  <2>4. e.num < 2^(IntBits - 1)
    BY <1>1, <2>3
  <2> QED
    BY <1>1, <2>1, <2>4, SignedSmall
<1>14. PICK v : v = decodeVarint(data, r, WordBits)
  OBVIOUS
<1>15. PICK lb, lc, d \in Nat : lb = Len(b) /\ lc = Len(c) /\ d = Len(data)
  BY LenByteSeq
<1>16. q = r + lb /\ p = q + lc /\ p <= d
  BY <1>5, <1>6, <1>15 DEF Has
<1>17. e.wireType # 2 => q = r
  <2> SUFFICES ASSUME e.wireType # 2 PROVE lb = 0
    BY <1>15, <1>16
  <2>2. b = <<>>
    BY <1>3 DEF LengthPart
  <2> QED
    BY <1>15, <2>2
<1>18. e.wireType = 0 => v.ok /\ v.next = p
  <2> SUFFICES ASSUME e.wireType = 0 PROVE v.ok /\ v.next = p
    OBVIOUS
  <2>2. Has(data, r, c, p)
    BY <1>5, <1>17
  <2>3. Len(c) \in 1..Groups /\ \A k \in DOMAIN c : c[k] < 128 <=> k = Len(c)
    BY <1>3, ElementContent
  <2> QED
    BY <1>14, <2>2, <2>3, GroupsAt
<1>lc. (e.wireType = 1 => lc = 8) /\ (e.wireType \in {3, 4} => lc = 0) /\ (e.wireType = 5 => lc = 4)
  <2>1. lc = Len(e.content)
    BY <1>3, <1>15, Zenon
  <2>2. (e.wireType = 1 => Len(e.content) = 8) /\ (e.wireType \in {3, 4} => Len(e.content) = 0)
        /\ (e.wireType = 5 => Len(e.content) = 4)
    BY ElementContent
  <2> QED
    BY <2>1, <2>2, Zenon
<1>19. e.wireType = 1 => r + 8 = p
  <2> SUFFICES ASSUME e.wireType = 1 PROVE r + 8 = p
    OBVIOUS
  <2>2. e.wireType # 2
    OBVIOUS
  <2>3. lc = 8 /\ q = r
    BY <1>17, <1>lc, <2>2, Zenon
  <2>4. p = r + 8
    BY <1>16, <2>3, Zenon
  <2> QED
    BY <2>4, Zenon
<1>20. e.wireType = 5 => r + 4 = p
  <2> SUFFICES ASSUME e.wireType = 5 PROVE r + 4 = p
    OBVIOUS
  <2>2. e.wireType # 2
    OBVIOUS
  <2>3. lc = 4 /\ q = r
    BY <1>17, <1>lc, <2>2, Zenon
  <2> QED
    BY <1>16, <2>3
<1>21. e.wireType \in {3, 4} => r = p
  BY <1>15, <1>16, <1>17, <1>lc
<1>22. ASSUME e.wireType = 2
       PROVE  v.ok /\ Signed(v.value, WordBits) >= 0 /\ Signed(v.next + Signed(v.value, WordBits), WordBits) = p
  <2>1. b = encodeVarint(lc)
    BY <1>3, <1>15, <1>22 DEF LengthPart
  <2>2. WordBits - 1 \in Nat /\ WordBits - 1 <= WordBits
    BY WidthsAre
  <2>3. PICK H \in Nat : H = 2^(WordBits - 1) /\ H <= W
    BY <1>9, <2>2, WidthsAre, PowType, PowMonotone
  <2>4. lc < H /\ p < H /\ lc < W /\ p \in Nat
    BY <1>9, <1>15, <1>16, <2>3
  <2>5. v = [ok |-> TRUE, value |-> lc % 2^WordBits, next |-> q]
    BY <1>6, <1>9, <1>14, <2>1, <2>4, WidthsAre, NumberAt
  <2>6. lc % W = lc
    BY <1>9, <2>4
  <2>7. v.ok /\ v.value = lc /\ v.next = q
    BY <1>9, <2>5, <2>6
  <2>8. Signed(lc, WordBits) = lc /\ Signed(p, WordBits) = p
    BY <2>3, <2>4, WidthsAre, SignedSmall
  <2>9. Signed(v.value, WordBits) = lc
    BY <2>7, <2>8, Zenon
  <2>10. v.next + lc = p
    BY <1>16, <2>7
  <2> QED
    BY <2>7, <2>8, <2>9, <2>10
<1>23. wire.value % 8 = e.wireType /\ Signed(wire.value \div 8, IntBits) = e.num
  BY <1>11, <1>12, <1>13, Zenon
<1> QED
  BY <1>7, <1>11, <1>14, <1>18, <1>19, <1>20, <1>21, <1>22, <1>23, Zenon DEF ElementAt

\* How deep in groups an element leaves the reader.
OfType(field, n, w) == {i \in 1..n : field[i].wireType = w}

LEMMA CountStep ==
    ASSUME NEW field, NEW n \in Nat, NEW w
    PROVE  /\ Cardinality(OfType(field, n, w)) \in Nat
           /\ Cardinality(OfType(field, n + 1, w)) =
                 IF field[n + 1].wireType = w THEN Cardinality(OfType(field, n, w)) + 1
                 ELSE Cardinality(OfType(field, n, w))
<1>1. PICK s : s = OfType(field, n, w)
  OBVIOUS
<1>2. IsFiniteSet(1..n)
  BY FS_Interval
<1>3. s \subseteq 1..n
  BY <1>1 DEF OfType
<1>4. IsFiniteSet(s) /\ Cardinality(s) \in Nat
  BY <1>2, <1>3, FS_Subset, FS_CardinalityType
<1>5. n + 1 \notin s
  BY <1>3
<1>6. Cardinality(s \cup {n + 1}) = Cardinality(s) + 1
  BY <1>4, <1>5, FS_AddElement
<1>7. field[n + 1].wireType = w => OfType(field, n + 1, w) = s \cup {n + 1}
  BY <1>1 DEF OfType
<1>8. field[n + 1].wireType # w => OfType(field, n + 1, w) = s
  BY <1>1 DEF OfType
<1> QED
  BY <1>1, <1>4, <1>6, <1>7, <1>8

DepthStep(field, n) ==
    /\ Depth(field, n) \in Int
    /\ Depth(field, n + 1) =
          IF field[n + 1].wireType = 3 THEN Depth(field, n) + 1
          ELSE IF field[n + 1].wireType = 4 THEN Depth(field, n) - 1 ELSE Depth(field, n)

LEMMA DepthSteps == ASSUME NEW field, NEW n \in Nat PROVE DepthStep(field, n)
<1>1. PICK a, b \in Nat : a = Cardinality(OfType(field, n, 3)) /\ b = Cardinality(OfType(field, n, 4))
  BY CountStep
<1>2. Depth(field, n) = a - b
  BY <1>1, Zenon DEF Depth, OfType
<1>3. PICK c, d : c = Cardinality(OfType(field, n + 1, 3)) /\ d = Cardinality(OfType(field, n + 1, 4))
  OBVIOUS
<1>4. Depth(field, n + 1) = c - d
  BY <1>3, Zenon DEF Depth, OfType
<1>5. c = IF field[n + 1].wireType = 3 THEN a + 1 ELSE a
  <2>1. Cardinality(OfType(field, n + 1, 3)) =
           IF field[n + 1].wireType = 3 THEN Cardinality(OfType(field, n, 3)) + 1
           ELSE Cardinality(OfType(field, n, 3))
    BY CountStep
  <2> QED
    BY <1>1, <1>3, <2>1
<1>6. d = IF field[n + 1].wireType = 4 THEN b + 1 ELSE b
  <2>1. Cardinality(OfType(field, n + 1, 4)) =
           IF field[n + 1].wireType = 4 THEN Cardinality(OfType(field, n, 4)) + 1
           ELSE Cardinality(OfType(field, n, 4))
    BY CountStep
  <2> QED
    BY <1>1, <1>3, <2>1
<1> QED
  BY <1>1, <1>2, <1>4, <1>5, <1>6 DEF DepthStep

LEMMA DepthStart == ASSUME NEW field PROVE Depth(field, 0) = 0
<1>1. {i \in 1..0 : field[i].wireType = 3} = {} /\ {i \in 1..0 : field[i].wireType = 4} = {}
  OBVIOUS
<1>2. Cardinality({}) = 0
  BY FS_EmptySet
<1> QED
  BY <1>1, <1>2 DEF Depth

\* The next element of an unknown field.
NextElement(field, n, e) ==
    /\ e = field[n + 1] /\ e \in Elements /\ Depth(field, n) \in Nat /\ Depth(field, n + 1) \in Nat
    /\ e.wireType = 3 => Depth(field, n + 1) = Depth(field, n) + 1
    /\ e.wireType = 4 => Depth(field, n) > 0 /\ Depth(field, n + 1) = Depth(field, n) - 1
    /\ e.wireType \notin {3, 4} => Depth(field, n + 1) = Depth(field, n)
    /\ n = 0 => e.wireType # 4 /\ \A k \in Kinds : e.num \notin DOMAIN FieldsOf[k]
    /\ n + 1 < Len(field) => Depth(field, n + 1) > 0
    /\ n + 1 = Len(field) => Depth(field, n + 1) = 0

LEMMA AdditionIs ==
    ASSUME NEW field \in Additions
    PROVE  /\ field \in Seq(Elements) /\ Len(field) \in Nat /\ Len(field) > 0
           /\ \A n \in 0..(Len(field) - 1) : NextElement(field, n, field[n + 1])
<1>1. field \in UnknownFields
  BY WireAssumption
<1>2. /\ field \in Seq(Elements) /\ field # <<>> /\ \A kind \in DOMAIN FieldsOf : field[1].num \notin DOMAIN FieldsOf[kind]
      /\ Depth(field, Len(field)) = 0 /\ \A n \in 1..(Len(field) - 1) : Depth(field, n) > 0
  BY <1>1, Zenon DEF UnknownFields
<1>3. PICK L \in Nat : L = Len(field) /\ L > 0
  BY <1>2, EmptySeq
<1>4. DOMAIN FieldsOf = Kinds
  BY DEF FieldsOf, Kinds
<1>5. \A n \in Nat : DepthStep(field, n)
  BY DepthSteps
<1>6. \A n \in 0..L : Depth(field, n) \in Nat
  <2> SUFFICES ASSUME NEW n \in 0..L PROVE Depth(field, n) \in Nat
    OBVIOUS
  <2>2. Depth(field, n) \in Int
    BY <1>5 DEF DepthStep
  <2>3. CASE n = 0
    BY <2>3, DepthStart
  <2>4. CASE n = L
    BY <1>2, <1>3, <2>4
  <2>5. CASE n # 0 /\ n # L
    <3>1. n \in 1..(L - 1)
      BY <2>5
    <3>2. Depth(field, n) > 0
      BY <1>2, <1>3, <3>1
    <3> QED
      BY <2>2, <3>2
  <2> QED
    BY <2>3, <2>4, <2>5
<1>7. ASSUME NEW n \in 0..(L - 1) PROVE NextElement(field, n, field[n + 1])
  <2>1. PICK e : e = field[n + 1]
    OBVIOUS
  <2>2. n \in Nat /\ n + 1 \in 1..L /\ n \in 0..L /\ n + 1 \in 0..L
    BY <1>3
  <2>3. e \in Elements
    BY <1>2, <1>3, <2>1, <2>2
  <2>4. PICK x, y \in Nat : x = Depth(field, n) /\ y = Depth(field, n + 1)
    BY <1>6, <2>2
  <2>5. y = IF e.wireType = 3 THEN x + 1 ELSE IF e.wireType = 4 THEN x - 1 ELSE x
    <3>1. DepthStep(field, n)
      BY <1>5, <2>2
    <3> QED
      BY <2>1, <2>4, <3>1 DEF DepthStep
  <2>6. e.wireType = 4 => x > 0 /\ y = x - 1
    BY <2>4, <2>5
  <2>7. n = 0 => x = 0
    BY <2>4, DepthStart
  <2>8. n = 0 => e.wireType # 4
    BY <2>6, <2>7
  <2>9. n = 0 => \A k \in Kinds : e.num \notin DOMAIN FieldsOf[k]
    <3> SUFFICES ASSUME n = 0 PROVE e = field[1]
      BY <1>2, <1>4, Zenon
    <3> QED
      BY <2>1
  <2>10. n + 1 < L => y > 0
    <3> SUFFICES ASSUME n + 1 < L PROVE y > 0
      OBVIOUS
    <3>2. n + 1 \in 1..(L - 1)
      OBVIOUS
    <3>3. Depth(field, n + 1) > 0
      BY <1>2, <1>3, <3>2
    <3> QED
      BY <2>4, <3>3
  <2>11. n + 1 = L => y = 0
    BY <1>2, <1>3, <2>4
  <2>12. (e.wireType = 3 => y = x + 1) /\ (e.wireType \notin {3, 4} => y = x)
    BY <2>5
  <2> QED
    BY <1>3, <2>1, <2>3, <2>4, <2>6, <2>8, <2>9, <2>10, <2>11, <2>12 DEF NextElement
<1> QED
  BY <1>2, <1>3, <1>7

\* No item is empty.
LEMMA ItemNonempty ==
    ASSUME NEW k \in Kinds, NEW m, NEW b \in ByteSeqs, NEW new, Item(ReadsRel, k, m, b, new)
    PROVE  Len(b) \in Nat /\ Len(b) > 0
<1>1. Len(b) \in Nat
  BY LenByteSeq
<1>2. CASE \E field \in Additions : b = FieldBytes(field) /\ new = m
  <2>1. PICK field \in Additions : b = FieldBytes(field)
    BY <1>2
  <2>2. field \in Seq(Elements) /\ Len(field) \in Nat /\ Len(field) > 0 /\ NextElement(field, 0, field[0 + 1])
    BY AdditionIs
  <2>3. PICK G : Tails(field, G)
    BY <2>2, TailsExist
  <2>4. PICK e \in Elements : e = field[0 + 1]
    BY <2>2 DEF NextElement
  <2>5. G[0] = ElementBytes(e) \o G[1] /\ G[1] \in ByteSeqs /\ G[0] = b
    BY <2>1, <2>2, <2>3, <2>4 DEF Tails
  <2>6. ElementBytes(e) \in ByteSeqs /\ Len(ElementBytes(e)) \in Nat /\ Len(ElementBytes(e)) > 0 /\ Len(G[1]) \in Nat
    BY <2>5, ElementBytesIs, ElementNonempty, LenByteSeq
  <2>7. Len(ElementBytes(e) \o G[1]) = Len(ElementBytes(e)) + Len(G[1])
    BY <2>5, <2>6, ConcatType
  <2> QED
    BY <2>5, <2>6, <2>7
<1>3. CASE \E n \in DOMAIN FieldsOf[k] : \E v \in TypeOf(FieldsOf[k][n]) :
              /\ FieldItem(ReadsRel, FieldsOf[k][n], n, m[FieldsOf[k][n].name], b, v)
              /\ new = [m EXCEPT ![FieldsOf[k][n].name] = v]
  <2>0. PICK n \in DOMAIN FieldsOf[k] : \E v \in TypeOf(FieldsOf[k][n]) :
              /\ FieldItem(ReadsRel, FieldsOf[k][n], n, m[FieldsOf[k][n].name], b, v)
              /\ new = [m EXCEPT ![FieldsOf[k][n].name] = v]
    BY <1>3
  <2>1. PICK v : FieldItem(ReadsRel, FieldsOf[k][n], n, m[FieldsOf[k][n].name], b, v)
    BY <2>0
  <2>2. n \in Nums
    BY FieldNums
  <2>3. CASE \E c \in ByteSeqs : b = Delimited(n, c)
    <3>1. PICK c \in ByteSeqs : b = Delimited(n, c)
      BY <2>3
    <3>2. PICK l \in Nat : l = Len(c)
      BY LenByteSeq
    <3>3. Len(b) = DelimitedSize(l)
      BY <2>2, <3>1, <3>2, DelimitedIs
    <3>4. sov(l) \in Nat
      BY EncodedType
    <3> QED
      BY <3>2, <3>3, <3>4 DEF DelimitedSize
  <2>4. CASE \E c \in ByteSeqs : b = Tag(n, 0) \o c
    <3>1. PICK c \in ByteSeqs : b = Tag(n, 0) \o c
      BY <2>4
    <3>2. Tag(n, 0) \in ByteSeqs /\ Len(Tag(n, 0)) = 1
      BY <2>2, TagIs
    <3>3. Len(b) = 1 + Len(c) /\ Len(c) \in Nat
      BY <3>1, <3>2, ConcatType, LenByteSeq
    <3> QED
      BY <3>3
  <2>5. (\E c \in ByteSeqs : b = Delimited(n, c)) \/ (\E c \in ByteSeqs : b = Tag(n, 0) \o c)
    <3>1. \A x \in Int32s : encodeVarint(Word(x)) \in ByteSeqs
      BY Int32sAre, WordType, EncodedType
    <3>2. <<1>> \in ByteSeqs
      BY DEF ByteSeqs, Byte
    <3> QED
      BY <2>1, <3>1, <3>2, Zenon DEF FieldItem
  <2> QED
    BY <1>1, <2>3, <2>4, <2>5
<1> QED
  BY <1>1, <1>2, <1>3, Zenon DEF Item

-----------------------------------------------------------------------------
(* A running call of Unmarshal, and the message it reads on to.             *)

\* Behind the index there are bytes from which the call reads message to.
ReadsOn(c, to) ==
    /\ ~c.skipping /\ c.depth = 0
    /\ \E rest \in ByteSeqs : From(c.data, c.iNdEx, rest) /\ Reads(c.kind, c.m, rest, to)

\* The call is in an unknown field, and reads on behind it.
InField(c, to, field, G, n, rest) ==
    /\ Tails(field, G) /\ c.depth = Depth(field, n) /\ From(c.data, c.iNdEx, G[n] \o rest)
    /\ Reads(c.kind, c.m, rest, to)
SkipsOn(c, to) ==
    /\ c.skipping
    /\ \E field \in Additions : \E n \in 0..(Len(field) - 1) : \E rest \in ByteSeqs : \E G :
          InField(c, to, field, G, n, rest)
GoesOn(c, to) == ReadsOn(c, to) \/ SkipsOn(c, to)

LEMMA ReadsEnd ==
    ASSUME NEW c \in Calls, NEW to, ReadsOn(c, to), c.iNdEx = Len(c.data)
    PROVE  c.m = to
<1>1. PICK rest \in ByteSeqs : From(c.data, c.iNdEx, rest) /\ Reads(c.kind, c.m, rest, to)
  BY DEF ReadsOn
<1>2. c.data \in ByteSeqs /\ c.iNdEx \in Nat
  BY CallIs
<1>3. Len(rest) = 0
  <2>1. PICK l, d \in Nat : l = Len(rest) /\ d = Len(c.data)
    BY <1>2, LenByteSeq
  <2>2. d + l = d
    BY <1>1, <2>1 DEF From
  <2> QED
    BY <2>1, <2>2
<1>4. c.kind \in Kinds /\ ReadsStep(ReadsRel, c.kind, c.m, rest, to)
  BY <1>1, ReadsIs
<1>5. ASSUME NEW x \in ByteSeqs, NEW r \in ByteSeqs, NEW new, rest = x \o r, Item(ReadsRel, c.kind, c.m, x, new)
      PROVE  FALSE
  <2>1. Len(x) \in Nat /\ Len(x) > 0 /\ Len(r) \in Nat
    BY <1>4, <1>5, ItemNonempty, LenByteSeq
  <2>2. Len(rest) = Len(x) + Len(r)
    BY <1>5, ConcatType
  <2> QED
    BY <1>3, <2>1, <2>2
<1> QED
  BY <1>4, <1>5, Zenon DEF ReadsStep

NextItem(c, to, x, new, r) ==
    /\ Item(ReadsRel, c.kind, c.m, x, new) /\ From(c.data, c.iNdEx, x \o r)
    /\ Reads(c.kind, new, r, to)

LEMMA ReadsNext ==
    ASSUME NEW c \in Calls, NEW to, ReadsOn(c, to), c.iNdEx < Len(c.data)
    PROVE  \E x \in ByteSeqs, r \in ByteSeqs, new \in MsgOf[c.kind] : NextItem(c, to, x, new, r)
<1>1. PICK rest \in ByteSeqs : From(c.data, c.iNdEx, rest) /\ Reads(c.kind, c.m, rest, to)
  BY DEF ReadsOn
<1>2. c.data \in ByteSeqs /\ c.iNdEx \in Nat
  BY CallIs
<1>3. rest # <<>>
  <2> SUFFICES ASSUME rest = <<>> PROVE FALSE
    OBVIOUS
  <2>2. Len(rest) = 0
    OBVIOUS
  <2>3. PICK i, d \in Nat : i = c.iNdEx /\ d = Len(c.data)
    BY <1>2, LenByteSeq
  <2>4. i + 0 = d
    BY <1>1, <2>2, <2>3 DEF From
  <2> QED
    BY <2>3, <2>4
<1>4. c.kind \in Kinds /\ ReadsStep(ReadsRel, c.kind, c.m, rest, to)
  BY <1>1, ReadsIs
<1>5. PICK x \in ByteSeqs, r \in ByteSeqs, new \in MsgOf[c.kind] :
          rest = x \o r /\ Item(ReadsRel, c.kind, c.m, x, new) /\ <<c.kind, new, r, to>> \in ReadsRel
  BY <1>3, <1>4, Zenon DEF ReadsStep
<1>6. NextItem(c, to, x, new, r)
  BY <1>1, <1>5, Zenon DEF NextItem, Reads
<1> QED
  BY <1>6

\* An element is skipped: the call is at p, and at depth dp.
Skipped(c, p, dp) == [c EXCEPT !.iNdEx = p, !.depth = dp, !.skipping = dp > 0]
Deeper(e, depth, dp) ==
    /\ e.wireType = 3 => dp = depth + 1
    /\ e.wireType = 4 => depth > 0 /\ dp = depth - 1
    /\ e.wireType \notin {3, 4} => dp = depth

LEMMA SkipNext ==
    ASSUME NEW c \in Calls, NEW to, SkipsOn(c, to), Len(c.data) < 2^(WordBits - 1)
    PROVE  \E e \in Elements, p \in Nat, dp \in Nat :
              /\ p <= Len(c.data) /\ ElementAt(c.data, c.iNdEx, e, p) /\ Deeper(e, c.depth, dp)
              /\ GoesOn(Skipped(c, p, dp), to)
<1>1. PICK field \in Additions : \E n \in 0..(Len(field) - 1) : \E rest \in ByteSeqs : \E G :
          InField(c, to, field, G, n, rest)
  BY DEF SkipsOn
<1>2. PICK n \in 0..(Len(field) - 1) : \E rest \in ByteSeqs : \E G : InField(c, to, field, G, n, rest)
  BY <1>1
<1>3. PICK rest \in ByteSeqs : \E G : InField(c, to, field, G, n, rest)
  BY <1>2
<1>4. PICK G : InField(c, to, field, G, n, rest)
  BY <1>3
<1>5. PICK L \in Nat : L = Len(field) /\ field \in Seq(Elements) /\ n \in 0..(L - 1)
  BY AdditionIs
<1>6. NextElement(field, n, field[n + 1])
  BY AdditionIs
<1>7. PICK e \in Elements : e = field[n + 1] /\ NextElement(field, n, e)
  BY <1>6 DEF NextElement
<1>8. PICK dp \in Nat : dp = Depth(field, n + 1)
  BY <1>7 DEF NextElement
<1>9. n \in Nat /\ n + 1 \in 0..L
  BY <1>5
<1>10. PICK b, g \in ByteSeqs : b = ElementBytes(e) /\ g = G[n + 1] /\ G[n] = b \o g
  <2>1. G[n + 1] \in ByteSeqs /\ G[n] = ElementBytes(field[n + 1]) \o G[n + 1]
    BY <1>4, <1>5, <1>9 DEF InField, Tails
  <2>2. ElementBytes(e) \in ByteSeqs
    BY ElementBytesIs
  <2> QED
    BY <1>7, <2>1, <2>2, Zenon
<1>11. c.data \in ByteSeqs /\ c.iNdEx \in Nat
  BY CallIs
<1>12. From(c.data, c.iNdEx, b \o (g \o rest)) /\ g \o rest \in ByteSeqs
  <2>1. (b \o g) \o rest = b \o (g \o rest)
    BY ConcatAssoc
  <2>2. From(c.data, c.iNdEx, (b \o g) \o rest)
    BY <1>4, <1>10, Zenon DEF InField
  <2>3. g \o rest \in ByteSeqs
    BY ConcatType
  <2> QED
    BY <2>1, <2>2, <2>3, Zenon
<1>13. PICK p \in Nat : Has(c.data, c.iNdEx, b, p) /\ From(c.data, p, g \o rest)
  BY <1>11, <1>12, FromHolds
<1>14. ElementAt(c.data, c.iNdEx, e, p)
  BY <1>10, <1>11, <1>13, ElementReads
<1>15. p <= Len(c.data)
  BY <1>13 DEF Has
<1>16. Deeper(e, c.depth, dp)
  <2>1. c.depth = Depth(field, n)
    BY <1>4 DEF InField
  <2> QED
    BY <1>7, <1>8, <2>1, Zenon DEF Deeper, NextElement
<1>17. PICK d : d = Skipped(c, p, dp)
  OBVIOUS
<1>18. /\ d.kind = c.kind /\ d.m = c.m /\ d.data = c.data /\ d.iNdEx = p /\ d.depth = dp
       /\ d.skipping = (dp > 0)
  <2>1. c \in CallsOf(c.kind)
    BY CallIs
  <2> QED
    BY <1>17, <2>1 DEF Skipped, CallsOf
<1>19. Reads(d.kind, d.m, rest, to)
  BY <1>4, <1>18, Zenon DEF InField
<1>20. CASE n + 1 = L
  <2>1. dp = 0
    BY <1>5, <1>7, <1>8, <1>20 DEF NextElement
  <2>2. g = <<>>
    BY <1>4, <1>5, <1>10, <1>20 DEF InField, Tails
  <2>3. From(d.data, d.iNdEx, rest)
    BY <1>13, <1>18, <2>2, EmptyConcat, Zenon
  <2>4. ~d.skipping
    <3>1. ~(dp > 0)
      BY <2>1
    <3> QED
      BY <1>18, <3>1, Zenon
  <2> QED
    BY <1>14, <1>15, <1>16, <1>17, <1>18, <1>19, <2>1, <2>3, <2>4 DEF GoesOn, ReadsOn
<1>21. CASE n + 1 # L
  <2>1. PICK q \in 0..(L - 1) : q = n + 1
    BY <1>5, <1>9, <1>21
  <2>2. dp > 0
    <3>1. n + 1 < Len(field)
      BY <1>5, <1>21
    <3> QED
      BY <1>7, <1>8, <3>1 DEF NextElement
  <2>3. d.skipping
    BY <1>18, <2>2
  <2>4. InField(d, to, field, G, q, rest)
    BY <1>4, <1>8, <1>10, <1>13, <1>18, <1>19, <2>1, Zenon DEF InField
  <2>5. SkipsOn(d, to)
    BY <1>5, <2>3, <2>4 DEF SkipsOn
  <2> QED
    BY <1>14, <1>15, <1>16, <1>17, <2>5 DEF GoesOn
<1> QED
  BY <1>20, <1>21

LEMMA SkipEndsAt ==
    ASSUME NEW c \in Calls, NEW p \in Nat, p <= Len(c.data), NEW dp, SkipEnds(c, p, dp)
    PROVE  Replace(Skipped(c, p, dp)) /\ Goes
<1>1. Len(c.data) \in Nat
  BY CallIs
<1>2. ~(p < 0 \/ p > Len(c.data))
  BY <1>1
<1> QED
  BY <1>2, Zenon DEF SkipEnds, Skipped

LEMMA SkipGoes ==
    ASSUME NEW c \in Calls, c = Top, skipMessage, NEW e \in Elements, NEW p \in Nat, NEW dp \in Nat, p <= Len(c.data),
           ElementAt(c.data, c.iNdEx, e, p), Deeper(e, c.depth, dp)
    PROVE  Replace(Skipped(c, p, dp)) /\ Goes
<1>1. PICK wire, v, w, length : /\ wire = decodeVarint(c.data, c.iNdEx, WordBits)
                                /\ v = decodeVarint(c.data, wire.next, WordBits)
                                /\ w = wire.value % 8 /\ length = Signed(v.value, WordBits)
  OBVIOUS
<1>2. IF ~wire.ok \/ (w \in {0, 2} /\ ~v.ok) \/ w \in {6, 7} THEN Fail
      ELSE CASE w = 0 -> SkipEnds(c, v.next, c.depth)
             [] w = 1 -> SkipEnds(c, wire.next + 8, c.depth)
             [] w = 2 -> IF length < 0 THEN Fail
                         ELSE SkipEnds(c, Signed(v.next + length, WordBits), c.depth)
             [] w = 3 -> SkipEnds(c, wire.next, c.depth + 1)
             [] w = 4 -> IF c.depth = 0 THEN Fail ELSE SkipEnds(c, wire.next, c.depth - 1)
             [] w = 5 -> SkipEnds(c, wire.next + 4, c.depth)
  BY <1>1, Zenon DEF skipMessage
<1>3. e.wireType \in 0..5 /\ w = e.wireType /\ wire.ok
  BY <1>1, ElementIs, Zenon DEF ElementAt
<1>4. /\ w = 0 => v.ok /\ v.next = p
      /\ w = 1 => wire.next + 8 = p
      /\ w = 2 => v.ok /\ length >= 0 /\ Signed(v.next + length, WordBits) = p
      /\ w \in {3, 4} => wire.next = p
      /\ w = 5 => wire.next + 4 = p
  BY <1>1, <1>3, Zenon DEF ElementAt
<1>5. /\ w = 3 => dp = c.depth + 1
      /\ w = 4 => c.depth > 0 /\ dp = c.depth - 1
      /\ w \notin {3, 4} => dp = c.depth
  BY <1>3, Zenon DEF Deeper
<1>6. c.depth \in Nat
  BY CallIs
<1>7. w \in {0, 1, 2, 3, 4, 5}
  BY <1>3
<1>8. ~(~wire.ok \/ (w \in {0, 2} /\ ~v.ok) \/ w \in {6, 7})
  BY <1>3, <1>4, <1>7
<1>9. CASE w = 0
  <2>1. SkipEnds(c, v.next, c.depth)
    BY <1>2, <1>8, <1>9
  <2>2. v.next = p /\ c.depth = dp
    BY <1>4, <1>5, <1>9
  <2> QED
    BY <2>1, <2>2, SkipEndsAt, Zenon
<1>10. CASE w = 1
  <2>1. SkipEnds(c, wire.next + 8, c.depth)
    BY <1>2, <1>8, <1>10
  <2>2. wire.next + 8 = p /\ c.depth = dp
    BY <1>4, <1>5, <1>10
  <2> QED
    BY <2>1, <2>2, SkipEndsAt, Zenon
<1>11. CASE w = 2
  <2>0. length >= 0 => ~(length < 0)
    <3>1. wire.next \in Nat
      BY <1>1, Zenon DEF ElementAt
    <3>2. v.value \in Int
      BY <1>1, <3>1, DecodedIs
    <3>3. length \in Int
      BY <1>1, <3>2, WidthsAre, SignedType
    <3> QED
      BY <3>3
  <2>1. SkipEnds(c, Signed(v.next + length, WordBits), c.depth)
    BY <1>2, <1>4, <1>8, <1>11, <2>0
  <2>2. Signed(v.next + length, WordBits) = p /\ c.depth = dp
    BY <1>4, <1>5, <1>11
  <2> QED
    BY <2>1, <2>2, SkipEndsAt, Zenon
<1>12. CASE w = 3
  <2>1. SkipEnds(c, wire.next, c.depth + 1)
    BY <1>2, <1>8, <1>12
  <2>2. wire.next = p /\ c.depth + 1 = dp
    BY <1>4, <1>5, <1>12
  <2> QED
    BY <2>1, <2>2, SkipEndsAt, Zenon
<1>13. CASE w = 4
  <2>1. c.depth # 0
    BY <1>5, <1>6, <1>13
  <2>2. SkipEnds(c, wire.next, c.depth - 1)
    BY <1>2, <1>8, <1>13, <2>1
  <2>3. wire.next = p /\ c.depth - 1 = dp
    BY <1>4, <1>5, <1>13
  <2> QED
    BY <2>2, <2>3, SkipEndsAt, Zenon
<1>14. CASE w = 5
  <2>1. SkipEnds(c, wire.next + 4, c.depth)
    BY <1>2, <1>8, <1>14
  <2>2. wire.next + 4 = p /\ c.depth = dp
    BY <1>4, <1>5, <1>14
  <2> QED
    BY <2>1, <2>2, SkipEndsAt, Zenon
<1> QED
  BY <1>7, <1>9, <1>10, <1>11, <1>12, <1>13, <1>14

\* A field has been read: the call goes on at p.
SetCall(c, x, v, p) == [c EXCEPT !.m[x] = v, !.iNdEx = p]
IsSetCall(c, x, v, p, d) ==
    /\ d \in Calls /\ SameCall(d, c) /\ d.m = [c.m EXCEPT ![x] = v] /\ d.iNdEx = p
    /\ d.skipping = c.skipping /\ d.depth = c.depth

LEMMA SetCallIs ==
    ASSUME NEW c \in Calls, NEW x, NEW v, [c.m EXCEPT ![x] = v] \in MsgOf[c.kind], NEW p \in Nat, p <= Len(c.data)
    PROVE  IsSetCall(c, x, v, p, SetCall(c, x, v, p))
<1>1. PICK d : d = SetCall(c, x, v, p)
  OBVIOUS
<1>2. d \in Calls /\ SameCall(d, c)
  BY <1>1, CallSet, Zenon DEF SetCall
<1>3. PICK k \in Kinds : k = c.kind /\ c \in CallsOf(k)
  BY CallIs
<1>4. PICK m : m = [c.m EXCEPT ![x] = v]
  OBVIOUS
<1>5. d = [c EXCEPT !.m = m, !.iNdEx = p]
  BY <1>1, <1>4 DEF SetCall
<1>6. d.m = m /\ d.iNdEx = p /\ d.skipping = c.skipping /\ d.depth = c.depth
  BY <1>3, <1>5 DEF CallsOf
<1> QED
  BY <1>1, <1>2, <1>4, <1>6 DEF IsSetCall

\* A call that reads on behind the field it has read.
LEMMA SetReadsOn ==
    ASSUME NEW c \in Calls, ~c.skipping, c.depth = 0, NEW x, NEW v, NEW p \in Nat, NEW d, IsSetCall(c, x, v, p, d),
           NEW r \in ByteSeqs, From(c.data, p, r), NEW to, Reads(c.kind, [c.m EXCEPT ![x] = v], r, to)
    PROVE  ReadsOn(d, to)
<1>1. /\ d.kind = c.kind /\ d.data = c.data /\ d.m = [c.m EXCEPT ![x] = v] /\ d.iNdEx = p
      /\ ~d.skipping /\ d.depth = 0
  BY Zenon DEF IsSetCall, SameCall
<1>2. From(d.data, d.iNdEx, r) /\ Reads(d.kind, d.m, r, to)
  BY <1>1, Zenon
<1> QED
  BY <1>1, <1>2, Zenon DEF ReadsOn

\* A delimited field that was written is taken.
LEMMA DelimitedTaken ==
    ASSUME StackOk(stack), ReadField, NEW c \in Calls, c = Top, NEW n \in DOMAIN FieldsOf[c.kind],
           FieldsOf[c.kind][n].type \notin {"bool", "int32"}, Len(c.data) < 2^(WordBits - 1),
           NEW b \in ByteSeqs, NEW r \in ByteSeqs, From(c.data, c.iNdEx, Delimited(n, b) \o r)
    PROVE  \E p \in Nat : p <= Len(c.data) /\ From(c.data, p, r) /\ Takes(c, FieldsOf[c.kind][n], b, p)
<1>1. c.kind \in Kinds /\ c.data \in ByteSeqs /\ c.iNdEx \in Nat
  BY CallIs
<1>2. n \in Nums
  BY <1>1, FieldNums
<1>3. PICK x \in ByteSeqs : x = Delimited(n, b) /\ Len(x) = DelimitedSize(Len(b))
  BY <1>2, DelimitedIs
<1>4. PICK i, l, d \in Nat : i = c.iNdEx /\ l = Len(b) /\ d = Len(c.data)
  BY <1>1, LenByteSeq
<1>5. PICK p \in Nat : p = i + Len(x) /\ Has(c.data, i, x, p) /\ From(c.data, p, r)
  BY <1>1, <1>3, <1>4, FromHolds
<1>6. PICK H \in Nat : H = 2^(WordBits - 1)
  <2>1. WordBits - 1 \in Nat
    BY WidthsAre
  <2> QED
    BY <2>1, PowType
<1>7. p = i + DelimitedSize(l) /\ p <= d /\ p < H
  <2>1. p <= d
    BY <1>4, <1>5 DEF Has
  <2>2. d < H
    BY <1>4, <1>6
  <2> QED
    BY <1>3, <1>4, <1>5, <2>1, <2>2
<1>8. DelimitedAt(c.data, i, n, l)
  <2>1. i + DelimitedSize(Len(b)) < 2^(WordBits - 1)
    BY <1>4, <1>6, <1>7
  <2>2. Partly(c.data, i, Delimited(n, b))
    BY <1>3, <1>5 DEF Partly, Has
  <2>3. i < d
    <3>1. sov(l) \in Nat
      BY EncodedType
    <3> QED
      BY <1>7, <3>1 DEF DelimitedSize
  <2>4. DelimitedAt(c.data, i, n, Len(b))
    BY <1>1, <1>2, <1>4, <2>1, <2>2, <2>3, DelimitedReads
  <2> QED
    BY <1>4, <2>4
<1>9. SubSeq(c.data, p - l + 1, p) = b
  <2>1. PICK a, e \in ByteSeqs : a = Tag(n, 2) /\ e = encodeVarint(l)
    <3>1. Tag(n, 2) \in ByteSeqs
      BY <1>2, TagIs
    <3> QED
      BY <3>1, EncodedType
  <2>2. x = (a \o e) \o b /\ a \o e \in ByteSeqs
    <3>1. x = (a \o e) \o b
      BY <1>3, <1>4, <2>1, Zenon DEF Delimited
    <3> QED
      BY <3>1, ConcatType
  <2>3. PICK q \in Nat : Has(c.data, q, b, p)
    BY <1>1, <1>4, <1>5, <2>2, HoldsBoth
  <2>4. p = q + l /\ p <= Len(c.data) /\ \A j \in 1..Len(b) : c.data[q + j] = b[j]
    BY <1>4, <2>3 DEF Has
  <2>5. SubSeq(c.data, q + 1, q + Len(b)) = b
    BY <1>1, <1>4, <2>4, FromTake, Zenon
  <2>6. p - l + 1 = q + 1 /\ q + Len(b) = p
    BY <1>4, <2>4
  <2> QED
    BY <2>5, <2>6, Zenon
<1>10. \/ Fail /\ p > Len(c.data)
       \/ p <= Len(c.data) /\ Takes(c, FieldsOf[c.kind][n], SubSeq(c.data, p - l + 1, p), p)
  BY <1>2, <1>4, <1>7, <1>8, ReadFieldDelimited
<1>11. ~(p > Len(c.data)) /\ p <= Len(c.data)
  BY <1>4, <1>7
<1>12. Takes(c, FieldsOf[c.kind][n], b, p)
  BY <1>9, <1>10, <1>11, Zenon
<1> QED
  BY <1>5, <1>11, <1>12

NumberRead(data, i, v, bits, p) == decodeVarint(data, i, bits) = [ok |-> TRUE, value |-> v % 2^bits, next |-> p]
TagRead(data, i, num, w) ==
    /\ decodeVarint(data, i, WordBits) = [ok |-> TRUE, value |-> 8 * num + w, next |-> i + 1]
    /\ Signed((8 * num + w) \div 8, IntBits) = num /\ (8 * num + w) % 8 = w

LEMMA NumberIsRead ==
    ASSUME NEW data \in ByteSeqs, NEW i \in Nat, NEW v \in Nat, v < 2^WordBits, NEW p, Has(data, i, encodeVarint(v), p),
           NEW bits \in Nat
    PROVE  NumberRead(data, i, v, bits, p)
BY NumberAt DEF NumberRead

LEMMA TagIsRead ==
    ASSUME NEW data \in ByteSeqs, NEW i \in Nat, i < Len(data), NEW num \in Nums, NEW w \in 0..7,
           data[i + 1] = 8 * num + w
    PROVE  TagRead(data, i, num, w)
BY ReadTag DEF TagRead

\* A number that was written is taken.
NumberOf(f, x) == IF f.type = "bool" THEN x % 2^WordBits # 0 ELSE Signed(x % 2^IntBits, IntBits)

LEMMA VarintTaken ==
    ASSUME StackOk(stack), ReadField, NEW c \in Calls, c = Top, NEW n \in DOMAIN FieldsOf[c.kind],
           FieldsOf[c.kind][n].type \in {"bool", "int32"},
           NEW x \in Nat, x < 2^WordBits, NEW r \in ByteSeqs,
           From(c.data, c.iNdEx, (Tag(n, 0) \o encodeVarint(x)) \o r)
    PROVE  \E p \in Nat : /\ p <= Len(c.data) /\ From(c.data, p, r)
                          /\ Replace(SetCall(c, FieldsOf[c.kind][n].name, NumberOf(FieldsOf[c.kind][n], x), p)) /\ Goes
<1>1. c.kind \in Kinds /\ c.data \in ByteSeqs /\ c.iNdEx \in Nat
  BY CallIs
<1>2. n \in Nums
  BY <1>1, FieldNums
<1>w. PICK w \in 0..7 : w = 0
  OBVIOUS
<1>3. PICK a, e \in ByteSeqs : a = Tag(n, 0) /\ e = encodeVarint(x) /\ Len(a) = 1 /\ a[1] = 8 * n + w
  <2>1. Tag(n, w) \in ByteSeqs /\ Len(Tag(n, w)) = 1 /\ Tag(n, w)[1] = 8 * n + w
    BY <1>2, TagIs
  <2>2. encodeVarint(x) \in ByteSeqs
    BY EncodedType
  <2> QED
    BY <1>w, <2>1, <2>2, Zenon
<1>4. a \o e \in ByteSeqs
  BY ConcatType
<1>5. PICK i, d \in Nat : i = c.iNdEx /\ d = Len(c.data)
  BY <1>1, LenByteSeq
<1>6. PICK p \in Nat : Has(c.data, i, a \o e, p) /\ From(c.data, p, r)
  BY <1>1, <1>3, <1>4, <1>5, FromHolds
<1>7. PICK q \in Nat : Has(c.data, i, a, q) /\ Has(c.data, q, e, p)
  BY <1>1, <1>6, HoldsBoth
<1>8. q = i + 1 /\ q <= d /\ c.data[i + 1] = 8 * n + w /\ p <= d
  <2>1. q = i + Len(a) /\ q <= Len(c.data) /\ p <= Len(c.data) /\ \A j \in 1..Len(a) : c.data[i + j] = a[j]
    BY <1>7 DEF Has
  <2>2. 1 \in 1..Len(a)
    BY <1>3
  <2> QED
    BY <1>3, <1>5, <2>1, <2>2
<1>9. PICK wire : wire = decodeVarint(c.data, c.iNdEx, WordBits)
  OBVIOUS
<1>10. /\ wire = [ok |-> TRUE, value |-> 8 * n + w, next |-> i + 1]
       /\ Signed((8 * n + w) \div 8, IntBits) = n /\ (8 * n + w) % 8 = w
  <2>1. i < Len(c.data)
    BY <1>5, <1>8
  <2>2. TagRead(c.data, i, n, w)
    BY <1>1, <1>2, <1>8, <2>1, TagIsRead, Zenon
  <2> QED
    BY <1>5, <1>9, <2>2, Zenon DEF TagRead
<1>11. wire.ok /\ wire.value = 8 * n + w /\ wire.next = q
  BY <1>8, <1>10
<1>12. Signed(wire.value \div 8, IntBits) = n /\ wire.value % 8 = 0
  BY <1>w, <1>10, <1>11, Zenon
<1>13. PICK f : f = FieldsOf[c.kind][n]
  OBVIOUS
<1>14. IF ~wire.ok \/ wire.value % 8 = 4 \/ n <= 0 THEN Fail
       ELSE IF n \notin DOMAIN FieldsOf[c.kind] THEN Replace([c EXCEPT !.skipping = TRUE]) /\ Goes
       ELSE IF wire.value % 8 # WireTypeOf(f.type) THEN Fail
       ELSE IF wire.value % 8 = 0 THEN ReadVarint(c, f, wire.next)
       ELSE ReadDelimited(c, f, wire.next)
  BY <1>9, <1>12, <1>13 DEF ReadField
<1>15. ReadVarint(c, f, q)
  <2>1. ~(n <= 0)
    BY <1>2 DEF Nums
  <2>2. WireTypeOf(f.type) = 0
    BY <1>13 DEF WireTypeOf
  <2> QED
    BY <1>11, <1>12, <1>14, <2>1, <2>2
<1>16. PICK bits \in Nat : bits = IF f.type = "bool" THEN WordBits ELSE IntBits
  BY WidthsAre
<1>17. PICK v : v = decodeVarint(c.data, q, bits)
  OBVIOUS
<1>18. v = [ok |-> TRUE, value |-> x % 2^bits, next |-> p]
  <2>1. Has(c.data, q, encodeVarint(x), p)
    BY <1>3, <1>7, Zenon
  <2>2. NumberRead(c.data, q, x, bits, p)
    BY <1>1, <2>1, NumberIsRead, Zenon
  <2> QED
    BY <1>17, <2>2, Zenon DEF NumberRead
<1>19. v.ok /\ v.value = x % 2^bits /\ v.next = p
  BY <1>18
<1>20. PICK value : value = IF f.type = "bool" THEN v.value # 0 ELSE Signed(v.value, IntBits)
  OBVIOUS
<1>21. IF ~v.ok THEN Fail
       ELSE Replace([c EXCEPT !.m[f.name] = value, !.iNdEx = v.next]) /\ Goes
  BY <1>15, <1>16, <1>17, <1>20, Zenon DEF ReadVarint
<1>22. Replace(SetCall(c, f.name, value, p)) /\ Goes
  BY <1>19, <1>21, Zenon DEF SetCall
<1>23. value = NumberOf(f, x)
  <2>1. CASE f.type = "bool"
    BY <1>16, <1>19, <1>20, <2>1, Zenon DEF NumberOf
  <2>2. CASE f.type # "bool"
    BY <1>16, <1>19, <1>20, <2>2, Zenon DEF NumberOf
  <2> QED
    BY <2>1, <2>2
<1>24. p <= Len(c.data)
  BY <1>5, <1>8
<1>25. Replace(SetCall(c, f.name, NumberOf(f, x), p))
  BY <1>22, <1>23, Zenon
<1> QED
  BY <1>6, <1>13, <1>22, <1>24, <1>25, Zenon

\* A caller waits for the message e of a nested call, and reads on behind it.
NewValue(c, f, e) == IF f.type = "message" THEN <<e>> ELSE Append(c.m[f.name], e)
Waits(c, d, e, to) ==
    /\ ~c.skipping /\ c.depth = 0
    /\ \E rest \in ByteSeqs :
          /\ From(c.data, d.postIndex, rest)
          /\ Reads(c.kind, [c.m EXCEPT ![FieldFor(c, d).name] = NewValue(c, FieldFor(c, d), e)], rest, to)

\* What a step makes of the running call: it goes on, or waits for a call it makes.
CallGoesOn(c, to) == \E d \in Calls : SameCall(d, c) /\ GoesOn(d, to) /\ Replace(d)
CallsFor(c, to, d, e) ==
    /\ stack' = Append(stack, d) /\ Nested(c, d) /\ Waits(c, d, e, to) /\ ReadsOn(d, e)
    /\ Len(d.data) <= Len(c.data)
CallWaits(c, to) == \E d \in Calls, e \in AnyMsg : CallsFor(c, to, d, e)

LEMMA MakesCall ==
    ASSUME NEW c \in Calls, ~c.skipping, c.depth = 0, NEW n \in DOMAIN FieldsOf[c.kind], NEW f, f = FieldsOf[c.kind][n],
           f.type \in {"message", "messages"}, NEW m, NEW b \in ByteSeqs, NEW e, Reads(f.of, m, b, e),
           NEW p \in Nat, p <= Len(c.data), NEW r \in ByteSeqs, From(c.data, p, r), Len(b) <= Len(c.data),
           NEW to, Reads(c.kind, [c.m EXCEPT ![f.name] = NewValue(c, f, e)], r, to),
           stack' = Append(stack, Call(f.of, m, b, f.name, p))
    PROVE  CallWaits(c, to)
<1>1. c.kind \in Kinds /\ c.m \in MsgOf[c.kind]
  BY CallIs
<1>2. Holds(c.kind, n, c.m)
  BY <1>1, FieldHolds
<1>3. f.of \in Kinds
  BY <1>2 DEF Holds
<1>4. m \in MsgOf[f.of] /\ e \in MsgOf[f.of]
  <2>1. ReadsStep(ReadsRel, f.of, m, b, e)
    BY ReadsIs
  <2> QED
    BY <2>1, Zenon DEF ReadsStep
<1>5. f.name \in Names
  <2>1. f \in Range(FieldsOf[c.kind])
    BY Zenon DEF Range
  <2>2. f.name \in {g.name : g \in Range(FieldsOf[c.kind])}
    BY <2>1
  <2> QED
    BY <1>1, <2>2 DEF Names
<1>6. PICK d \in Calls : d = Call(f.of, m, b, f.name, p)
  BY <1>3, <1>4, <1>5, NewCall
<1>7. /\ d.kind = f.of /\ d.m = m /\ d.data = b /\ d.iNdEx = 0 /\ d.skipping = FALSE /\ d.depth = 0
      /\ d.into = f.name /\ d.postIndex = p
  BY <1>6 DEF Call
<1>8. FieldFor(c, d) = f
  BY <1>2, <1>7, Zenon DEF Holds, FieldFor
<1>9. Nested(c, d)
  BY <1>7 DEF Nested
<1>10. Waits(c, d, e, to)
  BY <1>7, <1>8, Zenon DEF Waits
<1>11. ReadsOn(d, e)
  <2>1. From(d.data, d.iNdEx, b)
    BY <1>7, FromStart, Zenon
  <2>2. Reads(d.kind, d.m, b, e)
    BY <1>7, Zenon
  <2> QED
    BY <1>7, <2>1, <2>2, Zenon DEF ReadsOn
<1>12. e \in AnyMsg
  BY <1>3, <1>4 DEF AnyMsg
<1>13. CallsFor(c, to, d, e)
  BY <1>6, <1>7, <1>9, <1>10, <1>11, Zenon DEF CallsFor
<1> QED
  BY <1>12, <1>13 DEF CallWaits

LEMMA SetGoesOn ==
    ASSUME NEW c \in Calls, ~c.skipping, c.depth = 0, NEW n \in DOMAIN FieldsOf[c.kind], NEW f, f = FieldsOf[c.kind][n],
           NEW v \in TypeOf(f), NEW p \in Nat, p <= Len(c.data), NEW r \in ByteSeqs, From(c.data, p, r),
           NEW to, Reads(c.kind, [c.m EXCEPT ![f.name] = v], r, to), Replace(SetCall(c, f.name, v, p))
    PROVE  CallGoesOn(c, to)
<1>1. [c.m EXCEPT ![f.name] = v] \in MsgOf[c.kind]
  <2>1. Holds(c.kind, n, c.m)
    BY CallIs, FieldHolds
  <2> QED
    BY <2>1 DEF Holds
<1>2. PICK d : d = SetCall(c, f.name, v, p)
  OBVIOUS
<1>3. IsSetCall(c, f.name, v, p, d)
  BY <1>1, <1>2, SetCallIs
<1>4. ReadsOn(d, to)
  BY <1>3, SetReadsOn
<1>5. d \in Calls /\ SameCall(d, c) /\ Replace(d)
  BY <1>2, <1>3, Zenon DEF IsSetCall
<1> QED
  BY <1>4, <1>5 DEF CallGoesOn, GoesOn

\* What is written for a bool or a number that is not zero.
NumberBytes(f, n, v, x) ==
    \/ f.type = "bool" /\ v = TRUE /\ x = Tag(n, 0) \o <<1>>
    \/ f.type = "int32" /\ v \in Int32s /\ x = Tag(n, 0) \o encodeVarint(Word(v))

\* A number or a bool is read.
LEMMA ReadsNumberField ==
    ASSUME StackOk(stack), ReadField, NEW c \in Calls, c = Top, ~c.skipping, c.depth = 0,
           NEW n \in DOMAIN FieldsOf[c.kind], NEW f, f = FieldsOf[c.kind][n],
           NEW v \in TypeOf(f), NEW x \in ByteSeqs, NumberBytes(f, n, v, x),
           NEW r \in ByteSeqs, From(c.data, c.iNdEx, x \o r),
           NEW to, Reads(c.kind, [c.m EXCEPT ![f.name] = v], r, to)
    PROVE  Goes /\ CallGoesOn(c, to)
<1> \/ f.type = "bool" /\ v = TRUE /\ x = Tag(n, 0) \o <<1>>
    \/ f.type = "int32" /\ v \in Int32s /\ x = Tag(n, 0) \o encodeVarint(Word(v))
  BY DEF NumberBytes
<1>1. \E w \in Nat : w < 2^WordBits /\ x = Tag(n, 0) \o encodeVarint(w) /\ NumberOf(f, w) = v
  <2>1. CASE f.type = "bool" /\ v = TRUE /\ x = Tag(n, 0) \o <<1>>
    <3>1. PICK w \in 0..127 : w = 1
      OBVIOUS
    <3>2. sov(w) = 1 /\ encodeVarint(w)[1] = w /\ w < 2^WordBits
      BY SmallVarint
    <3>3. encodeVarint(w) \in Seq(Byte) /\ Len(encodeVarint(w)) = 1
      <4>1. w \in Nat
        BY <3>1
      <4> QED
        BY <3>2, <4>1, EncodeIs
    <3>4. encodeVarint(w) = <<1>>
      BY <3>1, <3>2, <3>3
    <3>5. PICK W \in Nat : W = 2^WordBits /\ W > 0
      BY WidthsAre, PowType
    <3>6. w % W = 1
      <4>1. w \in Nat /\ w < W
        BY <3>1, <3>2, <3>5
      <4>2. w % W = w
        BY <4>1, ModSmall
      <4> QED
        BY <3>1, <4>2
    <3>7. NumberOf(f, w) = (w % W # 0)
      BY <2>1, <3>5 DEF NumberOf
    <3>8. NumberOf(f, w) = TRUE
      <4>1. w % W # 0
        BY <3>6
      <4> QED
        BY <3>7, <4>1, Zenon
    <3>9. w \in Nat
      BY <3>1
    <3> QED
      BY <2>1, <3>2, <3>4, <3>8, <3>9, Zenon
  <2>2. CASE f.type = "int32" /\ v \in Int32s /\ x = Tag(n, 0) \o encodeVarint(Word(v))
    <3>1. PICK w \in Nat : w = Word(v) /\ w < 2^WordBits
      BY <2>2, Int32sAre, WordType
    <3>2. Signed(w % 2^IntBits, IntBits) = v
      BY <2>2, <3>1, SignedBack, Zenon
    <3>3. NumberOf(f, w) = Signed(w % 2^IntBits, IntBits)
      <4>1. f.type # "bool"
        BY <2>2
      <4> QED
        BY <4>1, Zenon DEF NumberOf
    <3> QED
      BY <2>2, <3>1, <3>2, <3>3, Zenon
  <2> QED
    BY <2>1, <2>2
<1>2. PICK w \in Nat : w < 2^WordBits /\ x = Tag(n, 0) \o encodeVarint(w) /\ NumberOf(f, w) = v
  BY <1>1
<1>3. f.type \in {"bool", "int32"}
  OBVIOUS
<1>4. PICK p \in Nat : p <= Len(c.data) /\ From(c.data, p, r) /\ Replace(SetCall(c, f.name, NumberOf(f, w), p)) /\ Goes
  <2>1. From(c.data, c.iNdEx, (Tag(n, 0) \o encodeVarint(w)) \o r)
    BY <1>2, Zenon
  <2> QED
    BY <1>2, <1>3, <2>1, VarintTaken, Zenon
<1>5. Replace(SetCall(c, f.name, v, p))
  BY <1>2, <1>4, Zenon
<1> QED
  BY <1>4, <1>5, SetGoesOn

\* A delimited field is read.
LEMMA ReadsDelimitedField ==
    ASSUME StackOk(stack), ReadField, NEW c \in Calls, c = Top, ~c.skipping, c.depth = 0,
           Len(c.data) < 2^(WordBits - 1), NEW n \in DOMAIN FieldsOf[c.kind], NEW f, f = FieldsOf[c.kind][n],
           f.type \in {"bytes", "list", "message", "messages"},
           NEW v \in TypeOf(f), NEW x \in ByteSeqs, FieldItem(ReadsRel, f, n, c.m[f.name], x, v),
           NEW r \in ByteSeqs, From(c.data, c.iNdEx, x \o r),
           NEW to, Reads(c.kind, [c.m EXCEPT ![f.name] = v], r, to)
    PROVE  Goes /\ (CallGoesOn(c, to) \/ CallWaits(c, to))
<1>1. ASSUME NEW b \in ByteSeqs, x = Delimited(n, b)
      PROVE  \E p \in Nat : p <= Len(c.data) /\ From(c.data, p, r) /\ Takes(c, f, b, p)
  <2>1. From(c.data, c.iNdEx, Delimited(n, b) \o r)
    BY <1>1, Zenon
  <2>2. f.type \notin {"bool", "int32"}
    OBVIOUS
  <2> QED
    BY <2>1, <2>2, DelimitedTaken, Zenon
<1>2. ASSUME NEW b \in ByteSeqs, x = Delimited(n, b) PROVE Len(b) <= Len(c.data)
  <2>1. c.kind \in Kinds /\ c.data \in ByteSeqs /\ c.iNdEx \in Nat
    BY CallIs
  <2>2. n \in Nums
    BY <2>1, FieldNums
  <2>3. PICK l, d, i, z \in Nat : l = Len(b) /\ d = Len(c.data) /\ i = c.iNdEx /\ z = Len(x)
    BY <2>1, LenByteSeq
  <2>4. z = DelimitedSize(l) /\ sov(l) \in Nat
    BY <1>2, <2>2, <2>3, DelimitedIs, EncodedType
  <2>5. i + z <= d
    BY <2>1, <2>3, FromSplit
  <2> QED
    BY <2>3, <2>4, <2>5 DEF DelimitedSize
<1>3. CASE f.type = "bytes"
  <2>1. v \in ByteSeqs /\ x = Delimited(n, v)
    BY <1>3 DEF FieldItem
  <2>2. PICK p \in Nat : p <= Len(c.data) /\ From(c.data, p, r) /\ Takes(c, f, v, p)
    BY <1>1, <2>1
  <2>3. Replace(SetCall(c, f.name, v, p)) /\ Goes
    BY <1>3, <2>2 DEF Takes, SetCall
  <2> QED
    BY <2>2, <2>3, SetGoesOn
<1>4. CASE f.type = "list"
  <2>1. PICK b \in ByteSeqs : x = Delimited(n, b) /\ v = Append(c.m[f.name], b)
    BY <1>4 DEF FieldItem
  <2>2. PICK p \in Nat : p <= Len(c.data) /\ From(c.data, p, r) /\ Takes(c, f, b, p)
    BY <1>1, <2>1, Zenon
  <2>3. Replace(SetCall(c, f.name, Append(c.m[f.name], b), p)) /\ Goes
    BY <1>4, <2>2 DEF Takes, SetCall
  <2>4. Replace(SetCall(c, f.name, v, p))
    BY <2>1, <2>3, Zenon
  <2> QED
    BY <2>2, <2>3, <2>4, SetGoesOn
<1>5. CASE f.type = "message"
  <2>1. PICK b \in ByteSeqs, e \in MsgOf[f.of] :
            x = Delimited(n, b) /\ <<f.of, Get(c.m[f.name], f.of), b, e>> \in ReadsRel /\ v = <<e>>
    BY <1>5 DEF FieldItem
  <2>2. PICK p \in Nat : p <= Len(c.data) /\ From(c.data, p, r) /\ Takes(c, f, b, p)
    BY <1>1, <2>1
  <2>3. PICK m : m = Get(c.m[f.name], f.of)
    OBVIOUS
  <2>4. stack' = Append(stack, Call(f.of, m, b, f.name, p)) /\ Goes
    BY <1>5, <2>2, <2>3, Zenon DEF Takes
  <2>5. Reads(f.of, m, b, e)
    BY <2>1, <2>3, Zenon DEF Reads
  <2>6. v = NewValue(c, f, e)
    BY <1>5, <2>1, Zenon DEF NewValue
  <2>7. Len(b) <= Len(c.data)
    BY <1>2, <2>1
  <2>8. Reads(c.kind, [c.m EXCEPT ![f.name] = NewValue(c, f, e)], r, to)
    BY <2>6, Zenon
  <2>9. CallWaits(c, to)
    BY <1>5, <2>2, <2>4, <2>5, <2>7, <2>8, MakesCall, Zenon
  <2> QED
    BY <2>4, <2>9
<1>6. CASE f.type = "messages"
  <2>1. PICK b \in ByteSeqs, e \in MsgOf[f.of] :
            x = Delimited(n, b) /\ <<f.of, Zero[f.of], b, e>> \in ReadsRel /\ v = Append(c.m[f.name], e)
    BY <1>6, Zenon DEF FieldItem
  <2>2. PICK p \in Nat : p <= Len(c.data) /\ From(c.data, p, r) /\ Takes(c, f, b, p)
    BY <1>1, <2>1, Zenon
  <2>3. PICK m : m = Zero[f.of]
    OBVIOUS
  <2>4. stack' = Append(stack, Call(f.of, m, b, f.name, p)) /\ Goes
    BY <1>6, <2>2, <2>3 DEF Takes
  <2>5. Reads(f.of, m, b, e)
    BY <2>1, <2>3, Zenon DEF Reads
  <2>6. v = NewValue(c, f, e)
    BY <1>6, <2>1, Zenon DEF NewValue
  <2>7. Len(b) <= Len(c.data)
    BY <1>2, <2>1, Zenon
  <2>8. Reads(c.kind, [c.m EXCEPT ![f.name] = NewValue(c, f, e)], r, to)
    BY <2>6, Zenon
  <2>9. CallWaits(c, to)
    BY <1>6, <2>2, <2>4, <2>5, <2>7, <2>8, MakesCall, Zenon
  <2> QED
    BY <2>4, <2>9
<1> QED
  BY <1>3, <1>4, <1>5, <1>6

\* An unknown field is met, and will be skipped.
LEMMA MeetsAddition ==
    ASSUME ReadField, NEW c \in Calls, c = Top, ~c.skipping, c.depth = 0, Len(c.data) < 2^(WordBits - 1),
           NEW field \in Additions, NEW r \in ByteSeqs, From(c.data, c.iNdEx, FieldBytes(field) \o r),
           NEW to, Reads(c.kind, c.m, r, to)
    PROVE  Goes /\ CallGoesOn(c, to)
<1>1. c.kind \in Kinds /\ c.data \in ByteSeqs /\ c.iNdEx \in Nat
  BY CallIs
<1>2. PICK L \in Nat : L = Len(field) /\ L > 0 /\ field \in Seq(Elements)
  BY AdditionIs
<1>3. PICK n \in 0..(L - 1) : n = 0
  BY <1>2
<1>4. NextElement(field, n, field[n + 1])
  BY <1>2, <1>3, AdditionIs
<1>5. PICK e \in Elements : e = field[n + 1] /\ NextElement(field, n, e)
  BY <1>4 DEF NextElement
<1>6. e.wireType # 4 /\ e.num \notin DOMAIN FieldsOf[c.kind] /\ e.num > 0 /\ e.num \in Nat
  <2>1. e.wireType # 4 /\ \A k \in Kinds : e.num \notin DOMAIN FieldsOf[k]
    BY <1>3, <1>5, Zenon DEF NextElement
  <2> QED
    BY <1>1, <2>1, ElementIs
<1>7. PICK G : Tails(field, G)
  BY <1>2, TailsExist
<1>8. PICK b, g \in ByteSeqs : b = ElementBytes(e) /\ FieldBytes(field) = b \o g /\ G[n] = b \o g
  <2>1. n + 1 \in 0..L /\ n \in 0..(Len(field) - 1) /\ n + 1 \in 0..Len(field)
    BY <1>2, <1>3
  <2>2. G[n + 1] \in ByteSeqs /\ G[n] = ElementBytes(field[n + 1]) \o G[n + 1]
    BY <1>7, <2>1 DEF Tails
  <2>3. G[n] = FieldBytes(field)
    BY <1>3, <1>7 DEF Tails
  <2>4. ElementBytes(e) \in ByteSeqs
    BY ElementBytesIs
  <2> QED
    BY <1>5, <2>2, <2>3, <2>4, Zenon
<1>9. PICK p \in Nat : Has(c.data, c.iNdEx, b, p)
  <2>1. (b \o g) \o r = b \o (g \o r)
    BY ConcatAssoc
  <2>2. From(c.data, c.iNdEx, b \o (g \o r)) /\ g \o r \in ByteSeqs
    <3>1. From(c.data, c.iNdEx, (b \o g) \o r)
      BY <1>8, Zenon
    <3>2. g \o r \in ByteSeqs
      BY ConcatType
    <3> QED
      BY <2>1, <3>1, <3>2, Zenon
  <2> QED
    BY <1>1, <2>2, FromHolds
<1>10. ElementAt(c.data, c.iNdEx, e, p)
  BY <1>1, <1>8, <1>9, ElementReads
<1>11. PICK wire : wire = decodeVarint(c.data, c.iNdEx, WordBits)
  OBVIOUS
<1>12. wire.ok /\ wire.value % 8 = e.wireType /\ Signed(wire.value \div 8, IntBits) = e.num
  BY <1>10, <1>11, Zenon DEF ElementAt
<1>13. IF ~wire.ok \/ wire.value % 8 = 4 \/ e.num <= 0 THEN Fail
       ELSE IF e.num \notin DOMAIN FieldsOf[c.kind] THEN Replace([c EXCEPT !.skipping = TRUE]) /\ Goes
       ELSE IF wire.value % 8 # WireTypeOf(FieldsOf[c.kind][e.num].type) THEN Fail
       ELSE IF wire.value % 8 = 0 THEN ReadVarint(c, FieldsOf[c.kind][e.num], wire.next)
       ELSE ReadDelimited(c, FieldsOf[c.kind][e.num], wire.next)
  BY <1>11, <1>12, Zenon DEF ReadField
<1>14. PICK d : d = [c EXCEPT !.skipping = TRUE]
  OBVIOUS
<1>15. Replace(d) /\ Goes
  <2>1. ~(e.num <= 0)
    BY <1>6
  <2>2. ~(~wire.ok \/ wire.value % 8 = 4 \/ e.num <= 0)
    BY <1>6, <1>12, <2>1, Zenon
  <2> QED
    BY <1>6, <1>13, <1>14, <2>2, Zenon
<1>16. d \in Calls /\ SameCall(d, c)
  BY <1>14, CallSkips
<1>17. d.m = c.m /\ d.iNdEx = c.iNdEx /\ d.skipping = TRUE /\ d.depth = 0 /\ d.kind = c.kind /\ d.data = c.data
  <2>1. c \in CallsOf(c.kind)
    BY CallIs
  <2> QED
    BY <1>14, <2>1 DEF CallsOf
<1>18. InField(d, to, field, G, n, r)
  <2>1. d.depth = Depth(field, n)
    BY <1>3, <1>17, DepthStart
  <2>2. From(d.data, d.iNdEx, G[n] \o r)
    BY <1>8, <1>17, Zenon
  <2> QED
    BY <1>7, <1>17, <2>1, <2>2, Zenon DEF InField
<1>19. SkipsOn(d, to)
  <2>1. n \in 0..(Len(field) - 1)
    BY <1>2
  <2> QED
    BY <1>17, <1>18, <2>1 DEF SkipsOn
<1> QED
  BY <1>15, <1>16, <1>19 DEF CallGoesOn, GoesOn

LEMMA ReadGoes ==
    ASSUME StackOk(stack), ReadField, NEW c \in Calls, c = Top, Len(c.data) < 2^(WordBits - 1),
           NEW to, ReadsOn(c, to)
    PROVE  Goes /\ (CallGoesOn(c, to) \/ CallWaits(c, to))
<1>1. ~c.skipping /\ c.depth = 0 /\ c.iNdEx < Len(c.data)
  BY DEF ReadsOn, ReadField
<1>2. PICK x \in ByteSeqs, r \in ByteSeqs, new \in MsgOf[c.kind] : NextItem(c, to, x, new, r)
  BY <1>1, ReadsNext
<1>3. Item(ReadsRel, c.kind, c.m, x, new) /\ From(c.data, c.iNdEx, x \o r) /\ Reads(c.kind, new, r, to)
  BY <1>2, Zenon DEF NextItem
<1>4. CASE \E field \in Additions : x = FieldBytes(field) /\ new = c.m
  <2>1. PICK field \in Additions : x = FieldBytes(field) /\ new = c.m
    BY <1>4
  <2>2. From(c.data, c.iNdEx, FieldBytes(field) \o r) /\ Reads(c.kind, c.m, r, to)
    BY <1>3, <2>1, Zenon
  <2> QED
    BY <1>1, <2>2, MeetsAddition, Zenon
<1>5. CASE \E n \in DOMAIN FieldsOf[c.kind] : \E v \in TypeOf(FieldsOf[c.kind][n]) :
              /\ FieldItem(ReadsRel, FieldsOf[c.kind][n], n, c.m[FieldsOf[c.kind][n].name], x, v)
              /\ new = [c.m EXCEPT ![FieldsOf[c.kind][n].name] = v]
  <2>1. PICK n \in DOMAIN FieldsOf[c.kind] : \E v \in TypeOf(FieldsOf[c.kind][n]) :
              /\ FieldItem(ReadsRel, FieldsOf[c.kind][n], n, c.m[FieldsOf[c.kind][n].name], x, v)
              /\ new = [c.m EXCEPT ![FieldsOf[c.kind][n].name] = v]
    BY <1>5
  <2>2. PICK f : f = FieldsOf[c.kind][n]
    OBVIOUS
  <2>3. PICK v \in TypeOf(f) : FieldItem(ReadsRel, f, n, c.m[f.name], x, v) /\ new = [c.m EXCEPT ![f.name] = v]
    BY <2>1, <2>2, Zenon
  <2>4. Reads(c.kind, [c.m EXCEPT ![f.name] = v], r, to)
    BY <1>3, <2>3, Zenon
  <2>5. CASE f.type \in {"bytes", "list", "message", "messages"}
    BY <1>1, <1>3, <2>2, <2>3, <2>4, <2>5, ReadsDelimitedField, Zenon
  <2>6. CASE \/ f.type = "bool" /\ v = TRUE /\ x = Tag(n, 0) \o <<1>>
             \/ f.type = "int32" /\ v \in Int32s /\ x = Tag(n, 0) \o encodeVarint(Word(v))
    <3>1. NumberBytes(f, n, v, x)
      BY <2>6, Zenon DEF NumberBytes
    <3> QED
      BY <1>1, <1>3, <2>2, <2>4, <3>1, ReadsNumberField, Zenon
  <2> QED
    BY <2>3, <2>5, <2>6, Zenon DEF FieldItem
<1> QED
  BY <1>3, <1>4, <1>5, Zenon DEF Item

-----------------------------------------------------------------------------
(* The calls that are running: the innermost reads on, the others wait, and *)
(* call j reads on to message T[j].                                         *)

Running(s, T) ==
    /\ \A j \in 1..Len(s) : Len(s[j].data) < 2^(WordBits - 1)
    /\ \A j \in 1..(Len(s) - 1) : Waits(s[j], s[j + 1], T[j + 1], T[j])
    /\ GoesOn(s[Len(s)], T[Len(s)])

LEMMA WaitsSame ==
    ASSUME NEW c, NEW d, NEW g, SameCall(g, d), NEW e, NEW to, Waits(c, d, e, to)
    PROVE  Waits(c, g, e, to)
<1>1. g.postIndex = d.postIndex /\ FieldFor(c, g) = FieldFor(c, d)
  BY DEF SameCall, FieldFor
<1> QED
  BY <1>1, Zenon DEF Waits

\* The innermost of the n calls goes on as d.
Replaces(s, n, T, d, t) ==
    /\ s \in Seq(Calls) /\ n \in Nat /\ n = Len(s) /\ n > 0 /\ Running(s, T) /\ d \in Calls
    /\ SameCall(d, s[n]) /\ GoesOn(d, T[n]) /\ t = Append(Front(s), d)

LEMMA RunningReplace ==
    ASSUME NEW s, NEW n, NEW T, NEW d, NEW t, Replaces(s, n, T, d, t)
    PROVE  Running(t, T) /\ t[1].kind = s[1].kind
<1> /\ s \in Seq(Calls) /\ n \in Nat /\ n = Len(s) /\ n > 0 /\ Running(s, T) /\ d \in Calls
    /\ SameCall(d, s[n]) /\ GoesOn(d, T[n]) /\ t = Append(Front(s), d)
  BY DEF Replaces
<1>1. s # <<>>
  OBVIOUS
<1>2. Len(t) = n /\ t[n] = d /\ \A j \in 1..(n - 1) : t[j] = s[j]
  BY <1>1, ReplaceIs
<1>3. ASSUME NEW j \in 1..n PROVE t[j].data = s[j].data /\ t[j].kind = s[j].kind
  <2>1. CASE j = n
    BY <1>2, <2>1 DEF SameCall
  <2>2. CASE j # n
    <3>1. j \in 1..(n - 1)
      BY <2>2
    <3> QED
      BY <1>2, <3>1
  <2> QED
    BY <2>1, <2>2
<1>4. \A j \in 1..Len(t) : Len(t[j].data) < 2^(WordBits - 1)
  BY <1>2, <1>3, Zenon DEF Running
<1>5. ASSUME NEW j \in 1..(n - 1) PROVE Waits(t[j], t[j + 1], T[j + 1], T[j])
  <2>1. Waits(s[j], s[j + 1], T[j + 1], T[j])
    BY DEF Running
  <2>2. t[j] = s[j]
    BY <1>2
  <2>3. CASE j + 1 = n
    <3>1. SameCall(t[j + 1], s[j + 1])
      BY <1>2, <2>3, Zenon
    <3>2. Waits(s[j], t[j + 1], T[j + 1], T[j])
      BY <2>1, <3>1, WaitsSame, Zenon
    <3> QED
      BY <2>2, <3>2, Zenon
  <2>4. CASE j + 1 # n
    <3>1. j + 1 \in 1..(n - 1)
      BY <2>4
    <3>2. t[j + 1] = s[j + 1]
      BY <1>2, <3>1
    <3> QED
      BY <2>1, <2>2, <3>2, Zenon
  <2> QED
    BY <2>3, <2>4
<1>6. GoesOn(t[Len(t)], T[Len(t)])
  BY <1>2, Zenon
<1>7. \A j \in 1..(Len(t) - 1) : Waits(t[j], t[j + 1], T[j + 1], T[j])
  BY <1>2, <1>5
<1>8. 1 \in 1..n
  OBVIOUS
<1> QED
  BY <1>3, <1>4, <1>6, <1>7, <1>8, Zenon DEF Running

\* The innermost of the n calls makes the call d, which reads e.
PushesCall(s, n, T, d, e, t) ==
    /\ s \in Seq(Calls) /\ n \in Nat /\ n = Len(s) /\ n > 0 /\ T \in [Nat -> AnyMsg] /\ Running(s, T)
    /\ d \in Calls /\ e \in AnyMsg /\ Waits(s[n], d, e, T[n]) /\ ReadsOn(d, e)
    /\ Len(d.data) <= Len(s[n].data) /\ t = Append(s, d)

LEMMA RunningPush ==
    ASSUME NEW s, NEW n, NEW T, NEW d, NEW e, NEW t, PushesCall(s, n, T, d, e, t)
    PROVE  \E U \in [Nat -> AnyMsg] : Running(t, U) /\ U[1] = T[1] /\ t[1].kind = s[1].kind
<1> /\ s \in Seq(Calls) /\ n \in Nat /\ n = Len(s) /\ n > 0 /\ T \in [Nat -> AnyMsg] /\ Running(s, T)
    /\ d \in Calls /\ e \in AnyMsg /\ Waits(s[n], d, e, T[n]) /\ ReadsOn(d, e)
    /\ Len(d.data) <= Len(s[n].data) /\ t = Append(s, d)
  BY DEF PushesCall
<1>1. PICK U : U = [T EXCEPT ![n + 1] = e]
  OBVIOUS
<1>2. U \in [Nat -> AnyMsg] /\ U[n + 1] = e /\ \A j \in 1..n : U[j] = T[j]
  BY <1>1
<1>3. Len(t) = n + 1 /\ t[n + 1] = d /\ \A j \in 1..n : t[j] = s[j]
  OBVIOUS
<1>4. ASSUME NEW j \in 1..(n + 1) PROVE Len(t[j].data) < 2^(WordBits - 1)
  <2>1. CASE j = n + 1
    <3>1. PICK H \in Nat : H = 2^(WordBits - 1)
      <4>1. WordBits - 1 \in Nat
        BY WidthsAre
      <4> QED
        BY <4>1, PowType
    <3>2. n \in 1..Len(s)
      OBVIOUS
    <3>3. s[n] \in Calls
      OBVIOUS
    <3>4. PICK a, b \in Nat : a = Len(d.data) /\ b = Len(s[n].data)
      BY <3>3, CallIs
    <3>5. b < H
      BY <3>1, <3>2, <3>4 DEF Running
    <3>6. a < H
      BY <3>4, <3>5
    <3> QED
      BY <1>3, <2>1, <3>1, <3>4, <3>6, Zenon
  <2>2. CASE j # n + 1
    <3>1. j \in 1..n
      BY <2>2
    <3> QED
      BY <1>3, <3>1 DEF Running
  <2> QED
    BY <2>1, <2>2
<1>5. ASSUME NEW j \in 1..n PROVE Waits(t[j], t[j + 1], U[j + 1], U[j])
  <2>1. t[j] = s[j] /\ U[j] = T[j]
    BY <1>2, <1>3
  <2>2. CASE j = n
    <3>1. t[j + 1] = d /\ U[j + 1] = e
      BY <1>2, <1>3, <2>2
    <3> QED
      BY <2>1, <2>2, <3>1, Zenon
  <2>3. CASE j # n
    <3>1. j + 1 \in 1..n /\ j \in 1..(Len(s) - 1)
      BY <2>3
    <3>2. t[j + 1] = s[j + 1] /\ U[j + 1] = T[j + 1]
      BY <1>2, <1>3, <3>1
    <3>3. Waits(s[j], s[j + 1], T[j + 1], T[j])
      BY <3>1 DEF Running
    <3> QED
      BY <2>1, <3>2, <3>3, Zenon
  <2> QED
    BY <2>2, <2>3
<1>6. GoesOn(t[Len(t)], U[Len(t)])
  BY <1>2, <1>3, Zenon DEF GoesOn
<1>7. Running(t, U)
  <2>1. Len(t) - 1 = n
    BY <1>3
  <2> QED
    BY <1>3, <1>4, <1>5, <1>6, <2>1, Zenon DEF Running
<1>8. 1 \in 1..n
  OBVIOUS
<1>9. U[1] = T[1] /\ t[1].kind = s[1].kind
  BY <1>2, <1>3, <1>8, Zenon
<1> QED
  BY <1>2, <1>7, <1>9

\* The innermost of the n calls returns, and its caller goes on as g.
Pops(s, n, T, g, t) ==
    /\ s \in Seq(Calls) /\ n \in Nat /\ n = Len(s) /\ n > 1 /\ Running(s, T)
    /\ ~s[n].skipping /\ s[n].iNdEx = Len(s[n].data)
    /\ IsSetCall(s[n - 1], FieldFor(s[n - 1], s[n]).name, NewValue(s[n - 1], FieldFor(s[n - 1], s[n]), s[n].m),
                 s[n].postIndex, g)
    /\ t = Append(Front(Front(s)), g)

LEMMA RunningPop ==
    ASSUME NEW s, NEW n, NEW T, NEW g, NEW t, Pops(s, n, T, g, t)
    PROVE  Running(t, T) /\ t[1].kind = s[1].kind
<1> /\ s \in Seq(Calls) /\ n \in Nat /\ n = Len(s) /\ n > 1 /\ Running(s, T)
    /\ ~s[n].skipping /\ s[n].iNdEx = Len(s[n].data)
    /\ IsSetCall(s[n - 1], FieldFor(s[n - 1], s[n]).name, NewValue(s[n - 1], FieldFor(s[n - 1], s[n]), s[n].m),
                 s[n].postIndex, g)
    /\ t = Append(Front(Front(s)), g)
  BY DEF Pops
<1>1. PICK c, d \in Calls : c = s[n - 1] /\ d = s[n]
  OBVIOUS
<1>2. PICK x, v : x = FieldFor(c, d).name /\ v = NewValue(c, FieldFor(c, d), d.m)
  OBVIOUS
<1>3. IsSetCall(c, x, v, d.postIndex, g)
  BY <1>1, <1>2, Zenon
<1>4. g \in Calls /\ SameCall(g, c)
  BY <1>3, Zenon DEF IsSetCall
<1>5. Len(t) = n - 1 /\ t[n - 1] = g /\ \A j \in 1..(n - 2) : t[j] = s[j]
  BY <1>4, ReplaceTwo
<1>6. d.m = T[n]
  <2>1. GoesOn(d, T[n])
    BY <1>1, Zenon DEF Running
  <2>2. ReadsOn(d, T[n])
    BY <1>1, <2>1, Zenon DEF GoesOn, SkipsOn
  <2>3. d.iNdEx = Len(d.data)
    BY <1>1, Zenon
  <2> QED
    BY <2>2, <2>3, ReadsEnd
<1>7. ReadsOn(g, T[n - 1])
  <2>1. n - 1 \in 1..(Len(s) - 1) /\ (n - 1) + 1 = n
    OBVIOUS
  <2>2. Waits(s[n - 1], s[(n - 1) + 1], T[(n - 1) + 1], T[n - 1])
    BY <2>1, Zenon DEF Running
  <2>3. Waits(c, d, d.m, T[n - 1])
    BY <1>1, <1>6, <2>1, <2>2, Zenon
  <2>4. PICK rest \in ByteSeqs : From(c.data, d.postIndex, rest) /\ Reads(c.kind, [c.m EXCEPT ![x] = v], rest, T[n - 1])
    BY <1>2, <2>3, Zenon DEF Waits
  <2>5. ~c.skipping /\ c.depth = 0
    BY <2>3, Zenon DEF Waits
  <2>6. d.postIndex \in Nat
    BY CallIs
  <2> QED
    BY <1>3, <2>4, <2>5, <2>6, SetReadsOn
<1>8. ASSUME NEW j \in 1..(n - 1) PROVE t[j].data = s[j].data /\ t[j].kind = s[j].kind
  <2>1. CASE j = n - 1
    BY <1>1, <1>4, <1>5, <2>1 DEF SameCall
  <2>2. CASE j # n - 1
    <3>1. j \in 1..(n - 2)
      BY <2>2
    <3> QED
      BY <1>5, <3>1
  <2> QED
    BY <2>1, <2>2
<1>9. \A j \in 1..Len(t) : Len(t[j].data) < 2^(WordBits - 1)
  <2> SUFFICES ASSUME NEW j \in 1..(n - 1) PROVE Len(t[j].data) < 2^(WordBits - 1)
    BY <1>5
  <2>2. j \in 1..Len(s)
    OBVIOUS
  <2>3. Len(s[j].data) < 2^(WordBits - 1)
    BY <2>2, Zenon DEF Running
  <2> QED
    BY <1>8, <2>3, Zenon
<1>10. ASSUME NEW j \in 1..(n - 2) PROVE Waits(t[j], t[j + 1], T[j + 1], T[j])
  <2>1. j \in 1..(Len(s) - 1)
    OBVIOUS
  <2>2. Waits(s[j], s[j + 1], T[j + 1], T[j])
    BY <2>1 DEF Running
  <2>3. t[j] = s[j]
    BY <1>5
  <2>4. CASE j + 1 = n - 1
    <3>1. SameCall(t[j + 1], s[j + 1])
      BY <1>1, <1>4, <1>5, <2>4, Zenon
    <3>2. Waits(s[j], t[j + 1], T[j + 1], T[j])
      <4>1. PICK a, b, y, z : a = t[j + 1] /\ b = s[j + 1] /\ y = T[j + 1] /\ z = T[j]
        OBVIOUS
      <4>2. SameCall(a, b) /\ Waits(s[j], b, y, z)
        BY <2>2, <3>1, <4>1, Zenon
      <4>3. Waits(s[j], a, y, z)
        BY <4>2, WaitsSame
      <4> QED
        BY <4>1, <4>3, Zenon
    <3> QED
      BY <2>3, <3>2, Zenon
  <2>5. CASE j + 1 # n - 1
    <3>1. j + 1 \in 1..(n - 2)
      BY <2>5
    <3>2. t[j + 1] = s[j + 1]
      BY <1>5, <3>1
    <3> QED
      BY <2>2, <2>3, <3>2, Zenon
  <2> QED
    BY <2>4, <2>5
<1>11. GoesOn(t[Len(t)], T[Len(t)])
  BY <1>5, <1>7, Zenon DEF GoesOn
<1>12. \A j \in 1..(Len(t) - 1) : Waits(t[j], t[j + 1], T[j + 1], T[j])
  <2>1. Len(t) - 1 = n - 2
    BY <1>5
  <2> QED
    BY <1>10, <2>1, Zenon
<1>13. 1 \in 1..(n - 1)
  OBVIOUS
<1> QED
  BY <1>8, <1>9, <1>11, <1>12, <1>13, Zenon DEF Running

-----------------------------------------------------------------------------
(* The round trip.                                                          *)

\* What the outermost call reads: the message that was sent or, after it, the
\* threshold key of the signer.
Final(k, to) ==
    \/ k = input.kind /\ to = Sent(input)
    \/ /\ k = "LocalPartySaveData" /\ input.kind = "ThresholdSigner" /\ to = KeyOf(input)
       /\ received = [kind |-> "GroupInfo", value |-> InfoOf(input)]
Reading ==
    /\ stack # <<>>
    /\ \E T \in [Nat -> AnyMsg] : Running(stack, T) /\ Final(stack[1].kind, T[1])

\* As long as the bytes were not cut or changed they are read without an error, and
\* what they are read to is what was sent.
RoundInv ==
    damage \subseteq {"added"} =>
        /\ phase # "failed"
        /\ phase = "transfer" => /\ Reads(input.kind, Start(input), dAtA, Sent(input))
                                 /\ Len(dAtA) < 2^(WordBits - 1)
        /\ phase = "unmarshal" => Reading
        /\ phase = "done" => received = input

LEMMA RoundMarshal ==
    ASSUME WireInv, CutInv, RoundInv, Marshal PROVE RoundInv'
<1>1. phase' = "transfer" /\ dAtA' = Encoded(input) /\ input' = input /\ input \in Inputs
  BY DEF Marshal, WireInv
<1>2. Reads(input.kind, Start(input), Encoded(input), Sent(input)) /\ Len(Encoded(input)) < 2^(WordBits - 1)
  BY <1>1, SentReads, EncodedIs
<1>3. Reads(input'.kind, Start(input'), dAtA', Sent(input')) /\ Len(dAtA') < 2^(WordBits - 1)
  BY <1>1, <1>2, Zenon
<1>4. phase' # "failed" /\ phase' # "unmarshal" /\ phase' # "done"
  BY <1>1
<1> QED
  BY <1>3, <1>4, Zenon DEF RoundInv

LEMMA RoundAdd ==
    ASSUME WireInv, CutInv, RoundInv, Add PROVE RoundInv'
<1>1. phase = "transfer" /\ phase' = "transfer" /\ damage = {} /\ input' = input /\ input \in Inputs
  BY DEF Add, WireInv
<1>2. dAtA = Encoded(input)
  BY <1>1 DEF CutInv
<1>3. PICK in, k, m, b, to : in = input /\ k = input.kind /\ m = Start(input) /\ b = Encoded(input) /\ to = Sent(input)
  OBVIOUS
<1>4. Reads(k, m, b, to)
  BY <1>1, <1>3, SentReads, Zenon
<1>5. k \in Kinds /\ b \in ByteSeqs /\ m \in MsgOf[k] /\ to \in MsgOf[k]
  <2>1. k \in Kinds /\ b \in ByteSeqs /\ ReadsStep(ReadsRel, k, m, b, to)
    BY <1>4, ReadsIs
  <2> QED
    BY <2>1, Zenon DEF ReadsStep
<1>6. PICK field \in Additions : dAtA' = FieldBytes(field) \o dAtA \/ dAtA' = dAtA \o FieldBytes(field)
  BY DEF Add
<1>7. PICK a \in ByteSeqs : a = FieldBytes(field)
  <2>1. field \in Seq(Elements)
    BY AdditionIs
  <2> QED
    BY <2>1, FieldBytesIs
<1>8. Reads(k, m, a, m) /\ Reads(k, to, a, to)
  BY <1>5, <1>7, ReadsAddition
<1>9. Reads(k, m, a \o b, to) /\ Reads(k, m, b \o a, to)
  BY <1>4, <1>8, ReadsBoth
<1>10. dAtA' = a \o b \/ dAtA' = b \o a
  BY <1>2, <1>3, <1>6, <1>7, Zenon
<1>11. Len(b) + Len(a) < 2^(WordBits - 1)
  BY <1>1, <1>3, <1>7, WireAssumption, Zenon
<1>12. Len(a \o b) = Len(b) + Len(a) /\ Len(b \o a) = Len(b) + Len(a)
  <2>1. Len(a) \in Nat /\ Len(b) \in Nat
    BY <1>5, LenByteSeq
  <2>2. Len(a \o b) = Len(a) + Len(b) /\ Len(b \o a) = Len(b) + Len(a)
    BY <1>5, ConcatType
  <2> QED
    BY <2>1, <2>2
<1>13. Reads(k, m, dAtA', to) /\ Len(dAtA') < 2^(WordBits - 1)
  <2>1. CASE dAtA' = a \o b
    BY <1>9, <1>11, <1>12, <2>1, Zenon
  <2>2. CASE dAtA' = b \o a
    BY <1>9, <1>11, <1>12, <2>2, Zenon
  <2> QED
    BY <1>10, <2>1, <2>2
<1>14. Reads(input'.kind, Start(input'), dAtA', Sent(input'))
  BY <1>1, <1>3, <1>13, Zenon
<1>15. phase' # "failed" /\ phase' # "unmarshal" /\ phase' # "done"
  BY <1>1
<1> QED
  BY <1>13, <1>14, <1>15, Zenon DEF RoundInv

\* The stack of a call that has just been made.
LEMMA RunningOne ==
    ASSUME NEW c \in Calls, Len(c.data) < 2^(WordBits - 1), NEW to \in AnyMsg, ReadsOn(c, to), NEW s, s = <<c>>
    PROVE  s # <<>> /\ \E T \in [Nat -> AnyMsg] : Running(s, T) /\ T[1] = to /\ s[1] = c
<1>1. PICK T : T = [j \in Nat |-> to]
  OBVIOUS
<1>2. T \in [Nat -> AnyMsg] /\ T[1] = to
  BY <1>1
<1>3. Len(s) = 1 /\ s[1] = c /\ s # <<>>
  OBVIOUS
<1>4. GoesOn(s[1], T[1])
  BY <1>2, <1>3, Zenon DEF GoesOn
<1>5. \A j \in 1..1 : j = 1
  OBVIOUS
<1>6. 1..(1 - 1) = {}
  OBVIOUS
<1>7. Running(s, T)
  BY <1>3, <1>4, <1>5, <1>6, Zenon DEF Running
<1> QED
  BY <1>2, <1>3, <1>7

\* A call that has just been made reads all of its data.
LEMMA ReadsAll ==
    ASSUME NEW k, NEW m, NEW b, NEW to, Reads(k, m, b, to)
    PROVE  \E c \in Calls : /\ c = Call(k, m, b, "none", 0) /\ c.data = b /\ c.kind = k /\ to \in AnyMsg
                            /\ ReadsOn(c, to)
<1>1. k \in Kinds /\ b \in ByteSeqs /\ m \in MsgOf[k] /\ to \in MsgOf[k]
  <2>1. k \in Kinds /\ b \in ByteSeqs /\ ReadsStep(ReadsRel, k, m, b, to)
    BY ReadsIs
  <2> QED
    BY <2>1, Zenon DEF ReadsStep
<1>2. PICK c \in Calls : c = Call(k, m, b, "none", 0)
  BY <1>1, NoneIsName, NewCall
<1>3. c.kind = k /\ c.m = m /\ c.data = b /\ c.iNdEx = 0 /\ c.skipping = FALSE /\ c.depth = 0
  BY <1>2 DEF Call
<1>4. From(c.data, c.iNdEx, b) /\ Reads(c.kind, c.m, b, to)
  BY <1>1, <1>3, FromStart, Zenon
<1>5. ReadsOn(c, to)
  BY <1>1, <1>3, <1>4, Zenon DEF ReadsOn
<1>6. to \in AnyMsg
  BY <1>1 DEF AnyMsg
<1> QED
  BY <1>2, <1>3, <1>5, <1>6

\* The new state of the calls reads on to the same end.
LEMMA ReadingNext ==
    ASSUME stack' # <<>>, NEW T \in [Nat -> AnyMsg], Running(stack', T),
           \/ stack'[1].kind = input'.kind /\ T[1] = Sent(input')
           \/ /\ stack'[1].kind = "LocalPartySaveData" /\ input'.kind = "ThresholdSigner" /\ T[1] = KeyOf(input')
              /\ received' = [kind |-> "GroupInfo", value |-> InfoOf(input')]
    PROVE  Reading'
BY Zenon DEF Reading, Final

LEMMA RoundUnmarshal ==
    ASSUME WireInv, CutInv, RoundInv, Unmarshal PROVE RoundInv'
<1>1. phase = "transfer" /\ phase' = "unmarshal" /\ input' = input /\ damage' = damage /\ input \in Inputs
  BY DEF Unmarshal, WireInv
<1> SUFFICES ASSUME damage \subseteq {"added"} PROVE Reading'
  <2>1. phase' # "failed" /\ phase' # "transfer" /\ phase' # "done"
    BY <1>1
  <2> QED
    BY <1>1, <2>1, Zenon DEF RoundInv
<1>3. Reads(input.kind, Start(input), dAtA, Sent(input)) /\ Len(dAtA) < 2^(WordBits - 1)
  BY <1>1 DEF RoundInv
<1>4. PICK c \in Calls : /\ c = Call(input.kind, Start(input), dAtA, "none", 0) /\ c.data = dAtA /\ c.kind = input.kind
                         /\ Sent(input) \in AnyMsg /\ ReadsOn(c, Sent(input))
  BY <1>3, ReadsAll
<1>5. stack' = <<c>>
  BY <1>4 DEF Unmarshal, Start
<1>6. stack' # <<>> /\ \E T \in [Nat -> AnyMsg] : Running(stack', T) /\ T[1] = Sent(input) /\ stack'[1] = c
  <2>1. Len(c.data) < 2^(WordBits - 1)
    BY <1>3, <1>4, Zenon
  <2> QED
    BY <1>4, <1>5, <2>1, RunningOne
<1>7. PICK T \in [Nat -> AnyMsg] : Running(stack', T) /\ T[1] = Sent(input) /\ stack'[1] = c
  BY <1>6
<1>8. stack'[1].kind = input'.kind /\ T[1] = Sent(input')
  BY <1>1, <1>4, <1>7, Zenon
<1> QED
  BY <1>6, <1>7, <1>8, ReadingNext

LEMMA ReadingStays ==
    ASSUME input' = input, received' = received, stack' # <<>>, NEW T \in [Nat -> AnyMsg],
           Final(stack[1].kind, T[1]), NEW U \in [Nat -> AnyMsg], Running(stack', U), U[1] = T[1],
           stack'[1].kind = stack[1].kind
    PROVE  Reading'
<1>1. PICK k, to : k = stack[1].kind /\ to = T[1]
  OBVIOUS
<1>2. stack'[1].kind = k /\ U[1] = to /\ Final(k, to)
  BY <1>1, Zenon
<1>3. \/ stack'[1].kind = input'.kind /\ U[1] = Sent(input')
      \/ /\ stack'[1].kind = "LocalPartySaveData" /\ input'.kind = "ThresholdSigner" /\ U[1] = KeyOf(input')
         /\ received' = [kind |-> "GroupInfo", value |-> InfoOf(input')]
  BY <1>2, Zenon DEF Final
<1> QED
  BY <1>3, ReadingNext

\* A step of Unmarshal that neither ends nor fails.
LEMMA RoundStays ==
    ASSUME RoundInv, phase = "unmarshal", phase' = phase, damage' = damage, Reading => Reading'
    PROVE  RoundInv'
<1>1. phase' # "failed" /\ phase' # "transfer" /\ phase' # "done"
  OBVIOUS
<1> QED
  BY <1>1, Zenon DEF RoundInv

LEMMA RoundRead ==
    ASSUME WireInv, RoundInv, ReadField PROVE RoundInv'
<1>1. /\ phase = "unmarshal" /\ input' = input /\ received' = received /\ damage' = damage /\ stack # <<>>
      /\ ~Top.skipping /\ StackOk(stack)
  BY DEF ReadField, WireInv
<1>2. CASE ~(damage \subseteq {"added"})
  BY <1>1, <1>2 DEF RoundInv
<1>3. CASE damage \subseteq {"added"}
  <2>1. Reading
    BY <1>1, <1>3 DEF RoundInv
  <2>2. PICK T \in [Nat -> AnyMsg] : Running(stack, T) /\ Final(stack[1].kind, T[1])
    BY <2>1, Zenon DEF Reading
  <2>3. PICK n \in Nat : n = Len(stack) /\ n > 0
    BY <1>1, TopIs
  <2>4. PICK c \in Calls : c = Top /\ c = stack[n]
    BY <1>1, <2>3, TopIs
  <2>5. stack \in Seq(Calls)
    BY <1>1 DEF StackOk
  <2>6. n \in 1..Len(stack)
    BY <2>3
  <2>7. Len(c.data) < 2^(WordBits - 1) /\ GoesOn(c, T[n])
    BY <2>2, <2>3, <2>4, <2>6, Zenon DEF Running
  <2>8. ReadsOn(c, T[n])
    BY <1>1, <2>4, <2>7, Zenon DEF GoesOn, SkipsOn
  <2>9. Goes /\ (CallGoesOn(c, T[n]) \/ CallWaits(c, T[n]))
    BY <1>1, <2>4, <2>7, <2>8, ReadGoes
  <2>10. CASE CallGoesOn(c, T[n])
    <3>1. PICK d \in Calls : SameCall(d, c) /\ GoesOn(d, T[n]) /\ stack' = Append(Front(stack), d)
      BY <2>10, Zenon DEF CallGoesOn, Replace
    <3>2. SameCall(d, stack[n])
      BY <2>4, <3>1, Zenon
    <3>3. Running(stack', T) /\ stack'[1].kind = stack[1].kind
      <4>1. Replaces(stack, n, T, d, stack')
        BY <2>2, <2>3, <2>5, <3>1, <3>2, Zenon DEF Replaces
      <4> QED
        BY <4>1, RunningReplace, Zenon
    <3>4. stack' # <<>>
      BY <1>1, <2>5, <3>1, FrontLast, AppendProperties
    <3>5. Reading'
      BY <1>1, <2>2, <3>3, <3>4, ReadingStays
    <3> QED
      BY <1>1, <2>9, <3>5, RoundStays DEF Goes
  <2>11. CASE CallWaits(c, T[n])
    <3>1. PICK d \in Calls : \E e \in AnyMsg : CallsFor(c, T[n], d, e)
      BY <2>11, Zenon DEF CallWaits
    <3>2. PICK e \in AnyMsg : CallsFor(c, T[n], d, e)
      BY <3>1
    <3>3. stack' = Append(stack, d) /\ Waits(stack[n], d, e, T[n]) /\ ReadsOn(d, e) /\ Len(d.data) <= Len(stack[n].data)
      BY <2>4, <3>2, Zenon DEF CallsFor
    <3>4. PICK U \in [Nat -> AnyMsg] : Running(stack', U) /\ U[1] = T[1] /\ stack'[1].kind = stack[1].kind
      <4>1. PushesCall(stack, n, T, d, e, stack')
        BY <2>2, <2>3, <2>5, <3>3, Zenon DEF PushesCall
      <4> QED
        BY <4>1, RunningPush
    <3>5. stack' # <<>>
      BY <2>5, <3>3, AppendProperties
    <3>6. Reading'
      BY <1>1, <2>2, <3>4, <3>5, ReadingStays
    <3> QED
      BY <1>1, <2>9, <3>6, RoundStays DEF Goes
  <2> QED
    BY <2>9, <2>10, <2>11
<1> QED
  BY <1>2, <1>3

LEMMA RoundSkip ==
    ASSUME WireInv, RoundInv, skipMessage PROVE RoundInv'
<1>1. /\ phase = "unmarshal" /\ input' = input /\ received' = received /\ damage' = damage /\ stack # <<>>
      /\ Top.skipping /\ StackOk(stack)
  BY DEF skipMessage, WireInv
<1>2. CASE ~(damage \subseteq {"added"})
  BY <1>1, <1>2 DEF RoundInv
<1>3. CASE damage \subseteq {"added"}
  <2>1. Reading
    BY <1>1, <1>3 DEF RoundInv
  <2>2. PICK T \in [Nat -> AnyMsg] : Running(stack, T) /\ Final(stack[1].kind, T[1])
    BY <2>1, Zenon DEF Reading
  <2>3. PICK n \in Nat : n = Len(stack) /\ n > 0
    BY <1>1, TopIs
  <2>4. PICK c \in Calls : c = Top /\ c = stack[n]
    BY <1>1, <2>3, TopIs
  <2>5. stack \in Seq(Calls)
    BY <1>1 DEF StackOk
  <2>6. n \in 1..Len(stack)
    BY <2>3
  <2>7. Len(c.data) < 2^(WordBits - 1) /\ GoesOn(c, T[n])
    BY <2>2, <2>3, <2>4, <2>6, Zenon DEF Running
  <2>8. SkipsOn(c, T[n])
    BY <1>1, <2>4, <2>7, Zenon DEF GoesOn, ReadsOn
  <2>9. PICK e \in Elements, p \in Nat, dp \in Nat :
              /\ p <= Len(c.data) /\ ElementAt(c.data, c.iNdEx, e, p) /\ Deeper(e, c.depth, dp)
              /\ GoesOn(Skipped(c, p, dp), T[n])
    BY <2>7, <2>8, SkipNext
  <2>10. Replace(Skipped(c, p, dp)) /\ Goes
    BY <2>4, <2>9, SkipGoes
  <2>11. PICK d : d = Skipped(c, p, dp)
    OBVIOUS
  <2>12. d \in Calls /\ SameCall(d, c)
    BY <2>9, <2>11, CallSkipped, Zenon DEF Skipped
  <2>13. stack' = Append(Front(stack), d) /\ GoesOn(d, T[n]) /\ SameCall(d, stack[n])
    BY <2>4, <2>9, <2>10, <2>11, <2>12, Zenon DEF Replace
  <2>14. Running(stack', T) /\ stack'[1].kind = stack[1].kind
    <3>1. Replaces(stack, n, T, d, stack')
      BY <2>2, <2>3, <2>5, <2>12, <2>13, Zenon DEF Replaces
    <3> QED
      BY <3>1, RunningReplace, Zenon
  <2>15. stack' # <<>>
    BY <1>1, <2>5, <2>12, <2>13, FrontLast, AppendProperties
  <2>16. Reading'
    BY <1>1, <2>2, <2>14, <2>15, ReadingStays
  <2> QED
    BY <1>1, <2>10, <2>16, RoundStays DEF Goes
<1> QED
  BY <1>2, <1>3

LEMMA RoundReturn ==
    ASSUME WireInv, RoundInv, Return PROVE RoundInv'
<1>1. /\ phase = "unmarshal" /\ input' = input /\ received' = received /\ damage' = damage /\ phase' = phase
      /\ ~Top.skipping /\ Top.iNdEx = Len(Top.data) /\ StackOk(stack) /\ Len(stack) > 1
  BY DEF Return, WireInv
<1>2. CASE ~(damage \subseteq {"added"})
  BY <1>1, <1>2 DEF RoundInv
<1>3. CASE damage \subseteq {"added"}
  <2>1. Reading
    BY <1>1, <1>3 DEF RoundInv
  <2>2. PICK T \in [Nat -> AnyMsg] : Running(stack, T) /\ Final(stack[1].kind, T[1])
    BY <2>1, Zenon DEF Reading
  <2>3. stack \in Seq(Calls) /\ stack # <<>>
    BY <1>1 DEF StackOk
  <2>4. PICK n \in Nat : n = Len(stack) /\ n > 1
    BY <1>1, <2>3
  <2>5. PICK d \in Calls : d = Top /\ d = stack[n]
    BY <1>1, <2>3, <2>4, TopIs
  <2>6. PICK c \in Calls : c = stack[n - 1]
    BY <2>3, <2>4
  <2>7. Nested(c, d)
    BY <1>1, <2>4, <2>5, <2>6 DEF StackOk
  <2>8. PICK f : /\ f = FieldFor(c, d)
                 /\ \E i \in DOMAIN FieldsOf[c.kind] : f = FieldsOf[c.kind][i] /\ Holds(c.kind, i, c.m)
                 /\ f.type \in {"message", "messages"} /\ f.name = d.into /\ f.of = d.kind
                 /\ f.of \in Kinds /\ TypeOf(f) = Seq(MsgOf[f.of])
    BY <2>7, NestedField
  <2>9. PICK v : v = NewValue(c, f, d.m)
    OBVIOUS
  <2>10. stack' = Append(Front(Front(stack)), SetCall(c, f.name, v, d.postIndex))
    <3>1. stack' = Append(Front(Front(stack)), Taken(stack[Len(stack) - 1], Top, FieldFor(stack[Len(stack) - 1], Top)))
      BY DEF Return, Taken, FieldFor
    <3>2. stack' = Append(Front(Front(stack)), Taken(c, d, f))
      BY <2>4, <2>5, <2>6, <2>8, <3>1
    <3>3. Taken(c, d, f) = SetCall(c, f.name, v, d.postIndex)
      BY <2>9 DEF Taken, SetCall, NewValue
    <3> QED
      BY <3>2, <3>3
  <2>11. v \in TypeOf(f)
    <3>1. d.m \in MsgOf[f.of]
      BY <2>8, CallIs
    <3>2. c.m[f.name] \in Seq(MsgOf[f.of])
      BY <2>8 DEF Holds
    <3>3. <<d.m>> \in Seq(MsgOf[f.of]) /\ Append(c.m[f.name], d.m) \in Seq(MsgOf[f.of])
      BY <3>1, <3>2, OneOf, AppendProperties
    <3> QED
      BY <2>8, <2>9, <3>3 DEF NewValue
  <2>12. [c.m EXCEPT ![f.name] = v] \in MsgOf[c.kind]
    BY <2>8, <2>11 DEF Holds
  <2>13. PICK g : g = SetCall(c, f.name, v, d.postIndex)
    OBVIOUS
  <2>14. IsSetCall(c, f.name, v, d.postIndex, g)
    <3>1. d.postIndex \in Nat /\ d.postIndex <= Len(c.data)
      BY <2>7, CallIs DEF Nested
    <3> QED
      BY <2>12, <2>13, <3>1, SetCallIs, Zenon
  <2>15. IsSetCall(stack[n - 1], FieldFor(stack[n - 1], stack[n]).name,
                   NewValue(stack[n - 1], FieldFor(stack[n - 1], stack[n]), stack[n].m), stack[n].postIndex, g)
    BY <2>5, <2>6, <2>8, <2>9, <2>14, Zenon
  <2>16. stack' = Append(Front(Front(stack)), g)
    BY <2>10, <2>13, Zenon
  <2>17. ~stack[n].skipping /\ stack[n].iNdEx = Len(stack[n].data)
    BY <1>1, <2>5, Zenon
  <2>18. Running(stack', T) /\ stack'[1].kind = stack[1].kind
    <3>1. Pops(stack, n, T, g, stack')
      BY <2>2, <2>3, <2>4, <2>15, <2>16, <2>17, Zenon DEF Pops
    <3> QED
      BY <3>1, RunningPop, Zenon
  <2>19. stack' # <<>>
    <3>1. g \in Calls
      BY <2>14 DEF IsSetCall
    <3>2. Front(stack) \in Seq(Calls) /\ Len(Front(stack)) = n - 1
      BY <2>3, <2>4, FrontLast, AppendProperties
    <3>3. Front(Front(stack)) \in Seq(Calls)
      BY <2>4, <3>2, FrontLast, AppendProperties
    <3> QED
      BY <2>16, <3>1, <3>3, AppendProperties
  <2>20. Reading'
    BY <1>1, <2>2, <2>18, <2>19, ReadingStays
  <2> QED
    BY <1>1, <2>20, RoundStays
<1> QED
  BY <1>2, <1>3

LEMMA KeyIsShort ==
    ASSUME NEW in \in Inputs, in.kind = "ThresholdSigner"
    PROVE  Len(LocalPartySaveData_Marshal(KeyOf(in))) < 2^(WordBits - 1)
<1>1. PICK k \in ByteSeqs : k = LocalPartySaveData_Marshal(KeyOf(in))
  BY SignerParts
<1>2. PICK a, b \in ByteSeqs : a = InfoPart(in) /\ b = KeyPart(in) /\ Encoded(in) = a \o b
  BY SignerParts
<1>3. b = BytesField(2, k)
  BY <1>1, <1>2 DEF KeyPart
<1>4. PICK x, y, z \in Nat : x = Len(k) /\ y = Len(a) /\ z = Len(b)
  <2>1. Len(k) \in Nat /\ Len(a) \in Nat /\ Len(b) \in Nat
    BY LenByteSeq
  <2> QED
    BY <2>1
<1>5. x <= z
  <2>1. CASE k = <<>>
    BY <1>4, <2>1
  <2>2. CASE k # <<>>
    <3>1. PICK w \in Nums : w = 2
      BY DEF Nums
    <3>2. b = Delimited(w, k)
      BY <1>3, <2>2, <3>1 DEF BytesField
    <3>3. Len(b) = DelimitedSize(Len(k))
      BY <3>2, DelimitedIs
    <3>4. sov(Len(k)) \in Nat
      BY <1>4, EncodedType
    <3>5. Len(b) = 1 + Len(k) + sov(Len(k))
      BY <3>3 DEF DelimitedSize
    <3> QED
      BY <1>4, <3>4, <3>5
  <2> QED
    BY <2>1, <2>2
<1>6. Len(Encoded(in)) = y + z
  BY <1>2, <1>4, ConcatType
<1>7. PICK H \in Nat : H = 2^(WordBits - 1)
  <2>1. WordBits - 1 \in Nat
    BY WidthsAre
  <2> QED
    BY <2>1, PowType
<1>8. y + z < H
  BY <1>6, <1>7, EncodedIs
<1>9. x < H
  BY <1>5, <1>8
<1> QED
  BY <1>1, <1>4, <1>7, <1>9
\* The outermost call has read everything.
LEMMA ReadingEnds ==
    ASSUME WireInv, Reading, Len(stack) = 1, ~Top.skipping, Top.iNdEx = Len(Top.data)
    PROVE  Top \in Calls /\ Final(Top.kind, Top.m)
<1>1. PICK T \in [Nat -> AnyMsg] : Running(stack, T) /\ Final(stack[1].kind, T[1])
  BY Zenon DEF Reading
<1>2. StackOk(stack) /\ stack # <<>>
  BY DEF WireInv, Reading
<1>3. PICK c \in Calls : c = Top /\ c = stack[1]
  BY <1>2, TopIs
<1>4. GoesOn(stack[Len(stack)], T[Len(stack)])
  BY <1>1 DEF Running
<1>5. GoesOn(c, T[1])
  BY <1>3, <1>4, Zenon
<1>6. ReadsOn(c, T[1])
  BY <1>3, <1>5, Zenon DEF GoesOn, SkipsOn
<1>7. c.iNdEx = Len(c.data)
  BY <1>3
<1>8. c.m = T[1]
  BY <1>6, <1>7, ReadsEnd
<1>9. Final(c.kind, c.m)
  BY <1>1, <1>3, <1>8, Zenon
<1> QED
  BY <1>3, <1>9

LEMMA RoundFinish ==
    ASSUME WireInv, RoundInv, Finish PROVE RoundInv'
<1>1. /\ phase = "unmarshal" /\ input' = input /\ damage' = damage /\ input \in Inputs
      /\ Len(stack) = 1 /\ ~Top.skipping /\ Top.iNdEx = Len(Top.data) /\ StackOk(stack)
  BY DEF Finish, WireInv
<1>2. CASE ~(damage \subseteq {"added"})
  BY <1>1, <1>2 DEF RoundInv
<1>3. CASE damage \subseteq {"added"}
  <2>1. Reading
    BY <1>1, <1>3 DEF RoundInv
  <2>2. PICK c \in Calls : c = Top /\ Final(c.kind, c.m)
    BY <1>1, <2>1, ReadingEnds
  <2>3. input.kind \in MessageKinds \cup {"ThresholdSigner"} /\ input = [kind |-> input.kind, value |-> input.value]
    BY <1>1, EncodedIs, WireAssumption
  <2>4. CASE c.kind = "ThresholdSigner"
    <3>1. input.kind = "ThresholdSigner" /\ c.m = Sent(input)
      BY <2>2, <2>4 DEF Final
    <3>2. Sent(input) = [GroupInfo |-> <<InfoOf(input)>>, ThresholdKey |-> LocalPartySaveData_Marshal(KeyOf(input))]
      BY <1>1, <3>1, SignerParts
    <3>3. PICK i, b : i = InfoOf(input) /\ b = LocalPartySaveData_Marshal(KeyOf(input))
      OBVIOUS
    <3>4. c.m = [GroupInfo |-> <<i>>, ThresholdKey |-> b]
      BY <3>1, <3>2, <3>3, Zenon
    <3>5. c.m.ThresholdKey = b /\ c.m.GroupInfo = <<i>>
      BY <3>4
    <3>6. Get(c.m.GroupInfo, "GroupInfo") = i
      BY <3>5 DEF Get
    <3>7. /\ stack' = <<Call("LocalPartySaveData", LocalPartySaveData, c.m.ThresholdKey, "none", 0)>>
          /\ received' = [kind |-> "GroupInfo", value |-> Get(c.m.GroupInfo, "GroupInfo")] /\ phase' = phase
      BY <2>2, <2>4 DEF Finish, Goes
    <3>8. stack' = <<Call("LocalPartySaveData", LocalPartySaveData, b, "none", 0)>> /\ received' = [kind |-> "GroupInfo", value |-> i]
      BY <3>5, <3>6, <3>7, Zenon
    <3>9. PICK to : to = KeyOf(input)
      OBVIOUS
    <3>10. Reads("LocalPartySaveData", LocalPartySaveData, b, to) /\ Len(b) < 2^(WordBits - 1)
      BY <1>1, <3>1, <3>3, <3>9, SignerBack, KeyIsShort
    <3>11. PICK d \in Calls : /\ d = Call("LocalPartySaveData", LocalPartySaveData, b, "none", 0) /\ d.data = b
                              /\ d.kind = "LocalPartySaveData" /\ to \in AnyMsg /\ ReadsOn(d, to)
      BY <3>10, ReadsAll
    <3>12. stack' = <<d>> /\ Len(d.data) < 2^(WordBits - 1)
      BY <3>8, <3>10, <3>11, Zenon
    <3>13. stack' # <<>> /\ \E T \in [Nat -> AnyMsg] : Running(stack', T) /\ T[1] = to /\ stack'[1] = d
      BY <3>11, <3>12, RunningOne
    <3>14. PICK T \in [Nat -> AnyMsg] : Running(stack', T) /\ T[1] = to /\ stack'[1] = d
      BY <3>13
    <3>15. /\ stack'[1].kind = "LocalPartySaveData" /\ input'.kind = "ThresholdSigner" /\ T[1] = KeyOf(input')
           /\ received' = [kind |-> "GroupInfo", value |-> InfoOf(input')]
      BY <1>1, <3>1, <3>3, <3>8, <3>9, <3>11, <3>14, Zenon
    <3>16. Reading'
      BY <3>13, <3>14, <3>15, ReadingNext
    <3> QED
      BY <1>1, <3>7, <3>16, RoundStays
  <2>5. CASE c.kind \in MessageKinds
    <3>1. c.kind # "ThresholdSigner" /\ c.kind # "LocalPartySaveData"
      BY <2>5 DEF MessageKinds
    <3>2. c.kind = input.kind /\ c.m = Sent(input)
      BY <2>2, <3>1 DEF Final
    <3>3. received' = [kind |-> c.kind, value |-> c.m] /\ phase' = "done"
      BY <2>2, <2>5, <3>1 DEF Finish
    <3>4. Sent(input) = input.value
      BY <3>1, <3>2 DEF Sent
    <3>5. received' = input'
      BY <1>1, <2>3, <3>2, <3>3, <3>4, Zenon
    <3>6. phase' # "failed" /\ phase' # "unmarshal" /\ phase' # "transfer"
      BY <3>3
    <3> QED
      BY <3>5, <3>6, Zenon DEF RoundInv
  <2>6. CASE c.kind \notin MessageKinds \cup {"ThresholdSigner"}
    <3>1. /\ input.kind = "ThresholdSigner" /\ c.m = KeyOf(input)
          /\ received = [kind |-> "GroupInfo", value |-> InfoOf(input)]
      BY <2>2, <2>3, <2>6 DEF Final
    <3>2. Decodes(c.m) /\ Signer_Unmarshal(InfoOf(input), ThresholdKey_Unmarshal(c.m)) = input.value
      BY <1>1, <3>1, SignerBack, Zenon
    <3>3. received.value = InfoOf(input)
      BY <3>1
    <3>4. /\ phase' = "done"
          /\ received' = [kind |-> "ThresholdSigner",
                          value |-> Signer_Unmarshal(received.value, ThresholdKey_Unmarshal(c.m))]
      BY <2>2, <2>6, <3>2 DEF Finish
    <3>5. received' = input'
      BY <1>1, <2>3, <3>1, <3>2, <3>3, <3>4, Zenon
    <3>6. phase' # "failed" /\ phase' # "unmarshal" /\ phase' # "transfer"
      BY <3>4
    <3> QED
      BY <3>5, <3>6, Zenon DEF RoundInv
  <2> QED
    BY <2>4, <2>5, <2>6
<1> QED
  BY <1>2, <1>3

LEMMA RoundInvNext == WireInv /\ CutInv /\ RoundInv /\ [WireNext]_wireVars => RoundInv'
<1> SUFFICES ASSUME WireInv, CutInv, RoundInv, [WireNext]_wireVars PROVE RoundInv'
  OBVIOUS
<1>1. CASE UNCHANGED wireVars
  <2>1. /\ input' = input /\ dAtA' = dAtA /\ damage' = damage /\ phase' = phase /\ stack' = stack
        /\ received' = received
    BY <1>1 DEF wireVars
  <2>2. Reading => Reading'
    BY <2>1, Zenon DEF Reading, Final
  <2> QED
    BY <2>1, <2>2, Zenon DEF RoundInv
<1>2. CASE Marshal
  BY <1>2, RoundMarshal
<1>3. CASE Add
  BY <1>3, RoundAdd
<1>4. CASE Cut \/ Change
  <2>1. "cut" \in damage' \/ "changed" \in damage'
    BY <1>4 DEF Cut, Change
  <2>2. ~(damage' \subseteq {"added"})
    BY <2>1
  <2> QED
    BY <2>2, Zenon DEF RoundInv
<1>5. CASE Unmarshal
  BY <1>5, RoundUnmarshal
<1>6. CASE ReadField
  BY <1>6, RoundRead
<1>7. CASE skipMessage
  BY <1>7, RoundSkip
<1>8. CASE Return
  BY <1>8, RoundReturn
<1>9. CASE Finish
  BY <1>9, RoundFinish
<1> QED
  BY <1>1, <1>2, <1>3, <1>4, <1>5, <1>6, <1>7, <1>8, <1>9 DEF WireNext

\* Whatever the message or the signer, and with any field of a later version before
\* or behind it, what Marshal wrote is read back by Unmarshal without an error and
\* unchanged (the generated Marshal, Size and Unmarshal, and marshaling.go).
THEOREM RoundTrips == WireSpec => []RoundTrip
<1>1. WireInit => CutInv /\ RoundInv
  BY DEF WireInit, CutInv, RoundInv
<1>2. WireInv /\ CutInv /\ [WireNext]_wireVars => CutInv'
  BY CutInvNext
<1>3. WireInv /\ CutInv /\ RoundInv /\ [WireNext]_wireVars => RoundInv'
  BY RoundInvNext
<1>4. RoundInv => RoundTrip
  BY DEF RoundInv, RoundTrip
<1> QED
  BY <1>1, <1>2, <1>3, <1>4, UnmarshalTyped, PTL DEF WireSpec

=============================================================================
