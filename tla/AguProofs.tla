------------------------------ MODULE AguProofs -------------------------------
(***************************************************************************)
(* The theorems of address generation, for every register width RB, every  *)
(* mode bit MB and every modifier, offset and origin the guest loads: a    *)
(* pointer is where its net displacement puts it, every effective address  *)
(* stands for the displacement it names, and a bit-reversed walk visits    *)
(* its table in bit-reversed order.                                        *)
(*                                                                         *)
(* The provers know neither powers of two nor bits, so the first part      *)
(* builds both from counting and from division with remainder, by minimal  *)
(* counterexample (NatMinimum).  The second part is update_rn, a lemma per *)
(* mode; the third the inductive invariant.                                *)
(***************************************************************************)
EXTENDS Agu, TLAPS, FiniteSetTheorems, FunctionTheorems, WellFoundedInduction

-------------------------------------------------------------------------------
(* Minimal counterexamples, powers of two, division.                       *)

\* A nonempty set of naturals has a least element: induction, for provers that
\* cannot instantiate an induction scheme.
LEMMA NatMinimum ==
    ASSUME NEW S \in SUBSET Nat, S # {}
    PROVE  \E x \in S : \A y \in S : x <= y
<1>1. PICK x \in S : \A y \in S : ~(<<y, x>> \in OpToRel(<, Nat))
  BY NatLessThanWellFounded, WFMin
<1>2. \A y \in S : ~(y < x)
  BY <1>1, Zenon DEF OpToRel
<1>. QED BY <1>2

\* 2^(k+1) is twice 2^k: the subsets of k + 1 elements are those without the
\* last element and those with it.
LEMMA Doubling ==
    ASSUME NEW k \in Nat
    PROVE  2^k \in Nat \ {0} /\ 2^(k + 1) = 2 * 2^k
<1>. DEFINE S == 1 .. k
            x == k + 1
            A == SUBSET S
            B == {T \cup {x} : T \in A}
            f == [T \in A |-> T \cup {x}]
<1>1. IsFiniteSet(S) /\ Cardinality(S) = k /\ x \notin S
  BY FS_Interval
<1>2. IsFiniteSet(A) /\ Cardinality(A) = 2^k
  BY <1>1, FS_SUBSET
<1>3. S \cup {x} = 1 .. k + 1
  OBVIOUS
<1>4. IsFiniteSet(1 .. k + 1) /\ Cardinality(1 .. k + 1) = k + 1
  BY FS_Interval
<1>5. Cardinality(SUBSET (1 .. k + 1)) = 2^(k + 1)
  BY <1>4, FS_SUBSET
<1>6. SUBSET (S \cup {x}) = A \cup B
  <2>1. ASSUME NEW T \in SUBSET (S \cup {x}) PROVE T \in A \cup B
    <3>1. CASE x \in T
      <4>1. T \ {x} \in A /\ T = (T \ {x}) \cup {x}
        BY <3>1
      <4>. QED BY <4>1
    <3>2. CASE x \notin T
      BY <3>2
    <3>. QED BY <3>1, <3>2
  <2>2. ASSUME NEW T \in A \cup B PROVE T \in SUBSET (S \cup {x})
    OBVIOUS
  <2>. QED BY <2>1, <2>2
<1>7. A \cap B = {}
  BY <1>1
<1>8. f \in Bijection(A, B)
  <2>1. f \in [A -> B] /\ \A T \in B : \E U \in A : f[U] = T
    OBVIOUS
  <2>2. ASSUME NEW T \in A, NEW U \in A, f[T] = f[U] PROVE T = U
    <3>1. T \cup {x} = U \cup {x} /\ x \notin T /\ x \notin U
      BY <1>1, <2>2
    <3>. QED BY <3>1
  <2>. QED BY <2>1, <2>2 DEF Bijection, Injection, Surjection, IsInjective
<1>9. IsFiniteSet(B) /\ Cardinality(B) = Cardinality(A)
  BY <1>2, <1>8, FS_Bijection DEF ExistsBijection
<1>10. Cardinality(A \cup B) = Cardinality(A) + Cardinality(B) - Cardinality(A \cap B)
  BY <1>2, <1>9, FS_Union, Zenon
<1>11. Cardinality(A \cap B) = 0
  BY <1>7, FS_EmptySet, Zenon
<1>12. Cardinality(A) \in Nat /\ Cardinality(A) # 0
  <2>1. A # {}
    OBVIOUS
  <2>. QED BY <1>2, <2>1, FS_CardinalityType, FS_EmptySet, Zenon
<1>13. Cardinality(A \cup B) = 2^(k + 1)
  BY <1>3, <1>5, <1>6, Zenon
<1>. DEFINE a == Cardinality(A)
            b == Cardinality(B)
            u == Cardinality(A \cup B)
<1>14. u = a + b - 0 /\ b = a /\ a \in Nat \ {0}
  BY <1>9, <1>10, <1>11, <1>12
<1>15. a = 2^k /\ u = 2^(k + 1)
  BY <1>2, <1>13
<1>. HIDE DEF a, b, u
<1>16. u = 2 * a
  BY <1>14
<1>. QED BY <1>14, <1>15, <1>16

\* Division with remainder.
LEMMA DivisionFacts ==
    ASSUME NEW a \in Int, NEW K \in Nat \ {0}
    PROVE  /\ a \div K \in Int /\ a % K \in 0 .. K - 1
           /\ a = K * (a \div K) + (a % K)
BY Z3

\* The quotient and the remainder are the only ones.
LEMMA DivisionUnique ==
    ASSUME NEW K \in Nat \ {0}, NEW q \in Int, NEW s \in 0 .. K - 1
    PROVE  (K * q + s) \div K = q /\ (K * q + s) % K = s
<1>. DEFINE a == K * q + s
            p == a \div K
            t == a % K
<1>1. a \in Int
  OBVIOUS
<1>. HIDE DEF a
<1>2. p \in Int /\ t \in 0 .. K - 1 /\ a = K * p + t
  BY <1>1, DivisionFacts
<1>. HIDE DEF p, t
<1>3. K * (p - q) = s - t
  BY <1>2 DEF a
<1>4. p - q < 1 /\ p - q > -1
  <2>1. CASE p - q >= 1
    <3>1. K * (p - q) >= K
      BY <1>2, <2>1, Z3
    <3>. QED BY <1>2, <1>3, <3>1
  <2>2. CASE p - q <= -1
    <3>1. K * (p - q) <= -K
      BY <1>2, <2>2, Z3
    <3>. QED BY <1>2, <1>3, <3>1
  <2>. QED BY <1>2, <2>1, <2>2
<1>5. p = q
  BY <1>2, <1>4
<1>6. t = s
  BY <1>2, <1>3, <1>5
<1>. QED BY <1>5, <1>6 DEF p, t, a

\* Whole periods do not matter to a remainder.
LEMMA ModPeriod ==
    ASSUME NEW a \in Int, NEW j \in Int, NEW K \in Nat \ {0}
    PROVE  (a + K * j) % K = a % K /\ (a + K * j) \div K = (a \div K) + j
<1>. DEFINE q == a \div K
            s == a % K
<1>1. q \in Int /\ s \in 0 .. K - 1 /\ a = K * q + s
  BY DivisionFacts
<1>. HIDE DEF q, s
<1>2. a + K * j = K * (q + j) + s
  BY <1>1, Z3
<1>3. q + j \in Int
  BY <1>1
<1>. DEFINE n_ == q + j
<1>. HIDE DEF n_
<1>4. (K * n_ + s) \div K = n_ /\ (K * n_ + s) % K = s
  BY <1>1, <1>3, DivisionUnique DEF n_
<1>. QED BY <1>2, <1>4 DEF n_, q, s

\* Reducing an addend first changes nothing.
LEMMA ModAdd ==
    ASSUME NEW a \in Int, NEW d \in Int, NEW K \in Nat \ {0}
    PROVE  ((a % K) + d) % K = (a + d) % K
<1>. DEFINE q == a \div K
            s == a % K
<1>1. q \in Int /\ s \in 0 .. K - 1 /\ a = K * q + s
  BY DivisionFacts
<1>. HIDE DEF q, s
<1>2. a + d = (s + d) + K * q
  BY <1>1
<1>3. s + d \in Int
  BY <1>1
<1>4. ((s + d) + K * q) % K = (s + d) % K
  BY <1>1, <1>3, ModPeriod
<1>. QED BY <1>2, <1>4 DEF s

\* Powers of two multiply.
LEMMA PowerSum ==
    ASSUME NEW a \in Nat, NEW b \in Nat
    PROVE  2^(a + b) = 2^a * 2^b
<1>. DEFINE S == {k \in Nat : 2^(a + k) # 2^a * 2^k}
<1>1. SUFFICES ASSUME S # {} PROVE FALSE
  OBVIOUS
<1>2. PICK k \in S : \A j \in S : k <= j
  BY <1>1, NatMinimum
<1>3. k \in Nat /\ 2^(a + k) # 2^a * 2^k
  OBVIOUS
<1>4. 2^a \in Nat /\ 2^0 = 1 /\ a + 0 = a
  BY Doubling
<1>5. ASSUME k = 0 PROVE FALSE
  <2>1. 2^(a + 0) # 2^a * 2^0
    BY <1>3, <1>5
  <2>2. 2^(a + 0) = 2^a
    BY <1>4
  <2>. DEFINE A == 2^a
  <2>3. A * 1 = A
    BY <1>4
  <2>. QED BY <1>4, <2>1, <2>2, <2>3
<1>. DEFINE j == k - 1
<1>6. j \in Nat /\ k = j + 1 /\ a + k = (a + j) + 1
  BY <1>3, <1>5
<1>7. 2^(a + j) = 2^a * 2^j
  BY <1>2, <1>6
<1>8. /\ 2^((a + j) + 1) = 2 * 2^(a + j) /\ 2^(j + 1) = 2 * 2^j
      /\ 2^j \in Nat /\ 2^(a + j) \in Nat
  BY <1>6, Doubling
<1>. DEFINE A == 2^a
            J == 2^j
            T == 2^(a + j)
<1>9. T = A * J /\ A \in Nat /\ J \in Nat /\ T \in Nat
  BY <1>4, <1>7, <1>8
<1>10. 2^(a + k) = 2 * T /\ 2^k = 2 * J
  BY <1>6, <1>8
<1>. HIDE DEF A, J, T
<1>11. 2 * T = A * (2 * J)
  BY <1>9, Z3
<1>. QED BY <1>3, <1>10, <1>11 DEF A

-------------------------------------------------------------------------------
(* Words and their bits.                                                   *)

\* A bit of a word is a bit of what remains below a higher power of two.
LEMMA BitBelow ==
    ASSUME NEW v \in Nat, NEW k \in Nat, NEW i \in 0 .. k - 1
    PROVE  Bit(v % 2^k, i) = Bit(v, i)
<1>. DEFINE I == 2^i
            j == k - 1 - i
            J == 2^j
            K == 2^k
            q == v \div K
            u == v % K
<1>1. i \in Nat /\ j \in Nat /\ k = (i + 1) + j /\ i + 1 \in Nat
  OBVIOUS
<1>2. I \in Nat \ {0} /\ J \in Nat \ {0} /\ K \in Nat \ {0} /\ 2^(i + 1) = 2 * I
  BY <1>1, Doubling
<1>3. K = (2 * I) * J
  <2>1. 2^((i + 1) + j) = 2^(i + 1) * 2^j
    BY <1>1, PowerSum
  <2>2. 2^k = 2^((i + 1) + j)
    BY <1>1
  <2>. QED BY <1>2, <2>1, <2>2
<1>4. q \in Int /\ u \in 0 .. K - 1 /\ v = K * q + u
  <2>1. v \in Int /\ K \in Nat \ {0}
    BY <1>2
  <2>. HIDE DEF K
  <2>. QED BY <2>1, DivisionFacts
<1>5. Bit(v % 2^k, i) = (u \div I) % 2 /\ Bit(v, i) = (v \div I) % 2
  BY DEF Bit
<1>. HIDE DEF I, j, J, K, q, u
<1>6. v = u + I * (2 * J * q)
  BY <1>2, <1>3, <1>4, Z3
<1>7. 2 * J * q \in Int /\ u \in Int /\ J * q \in Int
  BY <1>2, <1>4, Z3
<1>8. v \div I = (u \div I) + 2 * J * q
  <2>. DEFINE z == 2 * J * q
  <2>. HIDE DEF z
  <2>1. (u + I * z) \div I = (u \div I) + z
    BY <1>2, <1>7, ModPeriod DEF z
  <2>. QED BY <1>6, <2>1 DEF z
<1>9. u \div I \in Int
  BY <1>2, <1>7, DivisionFacts
<1>. DEFINE y == u \div I
            w == J * q
<1>10. v \div I = y + 2 * w
  BY <1>2, <1>4, <1>8, Z3
<1>11. y \in Int /\ w \in Int
  BY <1>7, <1>9
<1>. HIDE DEF y, w
<1>12. (y + 2 * w) % 2 = y % 2
  BY <1>11
<1>. QED BY <1>5, <1>10, <1>12 DEF y

\* The top bit of a word and what is below it.
LEMMA BitSplit ==
    ASSUME NEW k \in Nat, NEW v \in 0 .. 2^(k + 1) - 1
    PROVE  /\ Bit(v, k) \in {0, 1} /\ v % 2^k \in 0 .. 2^k - 1
           /\ v = Bit(v, k) * 2^k + (v % 2^k)
<1>. DEFINE K == 2^k
            q == v \div K
            u == v % K
<1>1. K \in Nat \ {0} /\ 2^(k + 1) = 2 * K
  BY Doubling
<1>2. v \in Nat /\ v < 2 * K
  BY <1>1
<1>3. q \in Int /\ u \in 0 .. K - 1 /\ v = K * q + u
  <2>1. v \in Int /\ K \in Nat \ {0}
    BY <1>1, <1>2
  <2>. HIDE DEF K
  <2>. QED BY <2>1, DivisionFacts
<1>4. Bit(v, k) = q % 2
  BY DEF Bit
<1>. HIDE DEF K, q, u
<1>5. q >= 0 /\ q < 2
  <2>1. CASE q < 0
    <3>1. K * q <= -K
      BY <1>1, <1>3, <2>1, Z3
    <3>. QED BY <1>1, <1>2, <1>3, <3>1
  <2>2. CASE q >= 2
    <3>1. K * q >= 2 * K
      BY <1>1, <1>3, <2>2, Z3
    <3>. QED BY <1>1, <1>2, <1>3, <3>1
  <2>. QED BY <1>3, <2>1, <2>2
<1>6. q \in {0, 1} /\ Bit(v, k) = q
  BY <1>3, <1>4, <1>5
<1>7. v = Bit(v, k) * K + u
  BY <1>1, <1>3, <1>6, Z3
<1>. QED BY <1>3, <1>6, <1>7 DEF K, u

\* The converse: a top bit put above a word.
LEMMA BitJoin ==
    ASSUME NEW k \in Nat, NEW b \in {0, 1}, NEW u \in 0 .. 2^k - 1,
           NEW v, v = b * 2^k + u
    PROVE  /\ v \in 0 .. 2^(k + 1) - 1 /\ Bit(v, k) = b /\ v % 2^k = u
           /\ \A i \in 0 .. k - 1 : Bit(v, i) = Bit(u, i)
<1>. DEFINE K == 2^k
<1>1. K \in Nat \ {0} /\ 2^(k + 1) = 2 * K
  BY Doubling
<1>2. u \in 0 .. K - 1 /\ v = b * K + u
  OBVIOUS
<1>. HIDE DEF K
<1>3. v \in 0 .. 2 * K - 1 /\ v = K * b + u /\ v \in Nat
  BY <1>1, <1>2
<1>4. v \div K = b /\ v % K = u
  <2>1. b \in Int
    OBVIOUS
  <2>. QED BY <1>1, <1>2, <1>3, <2>1, DivisionUnique
<1>5. Bit(v, k) = b
  BY <1>4 DEF Bit, K
<1>6. ASSUME NEW i \in 0 .. k - 1 PROVE Bit(v, i) = Bit(u, i)
  BY <1>3, <1>4, BitBelow DEF K
<1>. QED BY <1>1, <1>3, <1>4, <1>5, <1>6 DEF K

\* A word is determined by its bits.
LEMMA BitsUnique ==
    ASSUME NEW k \in Nat, NEW v \in 0 .. 2^k - 1, NEW w \in 0 .. 2^k - 1,
           \A i \in 0 .. k - 1 : Bit(v, i) = Bit(w, i)
    PROVE  v = w
<1>. DEFINE Same(x, y, l) == \A i \in 0 .. l - 1 : Bit(x, i) = Bit(y, i)
            S == {l \in Nat : \E x, y \in 0 .. 2^l - 1 : Same(x, y, l) /\ x # y}
<1>1. SUFFICES ASSUME S # {} PROVE FALSE
  OBVIOUS
<1>2. PICK l \in S : \A j \in S : l <= j
  BY <1>1, NatMinimum
<1>3. PICK x \in 0 .. 2^l - 1, y \in 0 .. 2^l - 1 : Same(x, y, l) /\ x # y
  OBVIOUS
<1>4. l \in Nat
  OBVIOUS
<1>5. ASSUME l = 0 PROVE FALSE
  <2>1. 2^0 = 1
    OBVIOUS
  <2>2. x \in 0 .. 2^0 - 1 /\ y \in 0 .. 2^0 - 1
    BY <1>5
  <2>3. x = 0 /\ y = 0
    BY <2>1, <2>2
  <2>. QED BY <1>3, <2>3
<1>. DEFINE j == l - 1
            xx == x % 2^j
            yy == y % 2^j
<1>6. j \in Nat /\ l = j + 1 /\ j \notin S
  BY <1>2, <1>4, <1>5
<1>7. /\ x = Bit(x, j) * 2^j + xx /\ xx \in 0 .. 2^j - 1
      /\ y = Bit(y, j) * 2^j + yy /\ yy \in 0 .. 2^j - 1
  BY <1>3, <1>6, BitSplit
<1>8. x \in Nat /\ y \in Nat
  BY <1>3
<1>9. Bit(x, j) = Bit(y, j)
  BY <1>3, <1>6
<1>10. Same(xx, yy, j)
  <2>. SUFFICES ASSUME NEW i \in 0 .. j - 1 PROVE Bit(xx, i) = Bit(yy, i)
    OBVIOUS
  <2>1. Bit(xx, i) = Bit(x, i) /\ Bit(yy, i) = Bit(y, i)
    BY <1>6, <1>8, BitBelow
  <2>2. i \in 0 .. l - 1
    BY <1>6
  <2>. QED BY <1>3, <2>1, <2>2
<1>11. xx = yy
  BY <1>6, <1>7, <1>10
<1>. QED BY <1>3, <1>7, <1>9, <1>11

\* Every choice of bits is a word.
LEMMA BitsExist ==
    ASSUME NEW k \in Nat, NEW f \in [0 .. k - 1 -> {0, 1}]
    PROVE  \E v \in 0 .. 2^k - 1 : \A i \in 0 .. k - 1 : Bit(v, i) = f[i]
<1>. DEFINE Has(g, l) == \E v \in 0 .. 2^l - 1 : \A i \in 0 .. l - 1 : Bit(v, i) = g[i]
            S == {l \in Nat : \E g \in [0 .. l - 1 -> {0, 1}] : ~Has(g, l)}
<1>1. SUFFICES ASSUME S # {} PROVE FALSE
  OBVIOUS
<1>2. PICK l \in S : \A j \in S : l <= j
  BY <1>1, NatMinimum
<1>3. PICK g \in [0 .. l - 1 -> {0, 1}] : ~Has(g, l)
  OBVIOUS
<1>4. l \in Nat
  OBVIOUS
<1>5. ASSUME l = 0 PROVE FALSE
  <2>1. 2^0 = 1 /\ 0 \in 0 .. 1 - 1 /\ \A i \in 0 .. 0 - 1 : FALSE
    OBVIOUS
  <2>2. 0 \in 0 .. 2^l - 1
    BY <1>5, <2>1
  <2>3. \A i \in 0 .. l - 1 : FALSE
    BY <1>5, <2>1
  <2>. QED BY <1>3, <2>2, <2>3
<1>. DEFINE j == l - 1
            h == [i \in 0 .. j - 1 |-> g[i]]
<1>6. j \in Nat /\ l = j + 1 /\ j \notin S
  BY <1>2, <1>4, <1>5, SMTT(60)
<1>7. h \in [0 .. j - 1 -> {0, 1}] /\ g[j] \in {0, 1}
  BY <1>6
<1>8. PICK u \in 0 .. 2^j - 1 : \A i \in 0 .. j - 1 : Bit(u, i) = h[i]
  BY <1>6, <1>7
<1>. DEFINE v == g[j] * 2^j + u
<1>9. /\ v \in 0 .. 2^(j + 1) - 1 /\ Bit(v, j) = g[j]
      /\ \A i \in 0 .. j - 1 : Bit(v, i) = Bit(u, i)
  BY <1>6, <1>7, <1>8, BitJoin
<1>. HIDE DEF v
<1>10. ASSUME NEW i \in 0 .. l - 1 PROVE Bit(v, i) = g[i]
  <2>1. CASE i = j
    BY <1>9, <2>1
  <2>2. CASE i # j
    <3>1. i \in 0 .. j - 1
      BY <1>6, <2>2
    <3>2. h[i] = g[i]
      BY <3>1
    <3>. QED BY <1>8, <1>9, <3>1, <3>2
  <2>. QED BY <2>1, <2>2
<1>. QED BY <1>3, <1>6, <1>9, <1>10

\* A bit is 0 or 1.
LEMMA BitRange ==
    ASSUME NEW v \in Int, NEW i \in Nat
    PROVE  Bit(v, i) \in {0, 1}
<1>. DEFINE I == 2^i
            q == v \div I
<1>1. I \in Nat \ {0}
  BY Doubling
<1>. HIDE DEF I
<1>2. q \in Int
  BY <1>1, DivisionFacts
<1>. HIDE DEF q
<1>3. q % 2 \in {0, 1}
  BY <1>2
<1>. QED BY <1>3 DEF Bit, q, I

\* Reversing has the bits it should.
LEMMA ReverseBits ==
    ASSUME NEW v \in Nat
    PROVE  /\ bitrev24(v) \in Addr
           /\ \A i \in 0 .. RB - 1 : Bit(bitrev24(v), i) = Bit(v, RB - 1 - i)
<1>. DEFINE f == [i \in 0 .. RB - 1 |-> Bit(v, RB - 1 - i)]
<1>1. RB \in Nat
  BY AguAssumption
<1>2. f \in [0 .. RB - 1 -> {0, 1}]
  <2>1. ASSUME NEW i \in 0 .. RB - 1 PROVE Bit(v, RB - 1 - i) \in {0, 1}
    <3>1. RB - 1 - i \in Nat
      BY <1>1
    <3>. QED BY <3>1, BitRange
  <2>. QED BY <2>1
<1>3. \E w \in 0 .. 2^RB - 1 : \A i \in 0 .. RB - 1 : Bit(w, i) = f[i]
  BY <1>1, <1>2, BitsExist
<1>4. \E w \in Addr : \A i \in 0 .. RB - 1 : Bit(w, i) = Bit(v, RB - 1 - i)
  BY <1>3 DEF Addr
<1>. QED BY <1>4 DEF bitrev24

\* Reversing twice gives the word back.
LEMMA ReverseTwice ==
    ASSUME NEW v \in Addr
    PROVE  bitrev24(bitrev24(v)) = v
<1>. DEFINE u == bitrev24(v)
            w == bitrev24(u)
<1>1. RB \in Nat /\ v \in Nat /\ v \in 0 .. 2^RB - 1
  BY AguAssumption DEF Addr
<1>2. u \in Addr /\ \A i \in 0 .. RB - 1 : Bit(u, i) = Bit(v, RB - 1 - i)
  BY <1>1, ReverseBits
<1>3. u \in Nat
  BY <1>2 DEF Addr
<1>4. w \in Addr /\ \A i \in 0 .. RB - 1 : Bit(w, i) = Bit(u, RB - 1 - i)
  BY <1>3, ReverseBits
<1>. HIDE DEF u, w
<1>5. ASSUME NEW i \in 0 .. RB - 1 PROVE Bit(w, i) = Bit(v, i)
  <2>1. RB - 1 - i \in 0 .. RB - 1 /\ RB - 1 - (RB - 1 - i) = i
    BY <1>1
  <2>. QED BY <1>2, <1>4, <2>1
<1>6. w \in 0 .. 2^RB - 1
  BY <1>4 DEF Addr
<1>7. w = v
  BY <1>1, <1>5, <1>6, BitsUnique
<1>. QED BY <1>7 DEF u, w

\* Masking has the bits it should.
LEMMA MaskedBits ==
    ASSUME NEW v \in Nat, NEW mask \in Nat
    PROVE  /\ Masked(v, mask) \in Addr
           /\ \A i \in 0 .. RB - 1 : Bit(Masked(v, mask), i) = Bit(v, i) * Bit(mask, i)
<1>. DEFINE f == [i \in 0 .. RB - 1 |-> Bit(v, i) * Bit(mask, i)]
<1>1. RB \in Nat
  BY AguAssumption
<1>2. f \in [0 .. RB - 1 -> {0, 1}]
  <2>1. ASSUME NEW i \in 0 .. RB - 1 PROVE Bit(v, i) * Bit(mask, i) \in {0, 1}
    <3>1. i \in Nat
      BY <1>1
    <3>2. Bit(v, i) \in {0, 1} /\ Bit(mask, i) \in {0, 1}
      BY <3>1, BitRange
    <3>. QED BY <3>2
  <2>. QED BY <2>1
<1>3. \E w \in 0 .. 2^RB - 1 : \A i \in 0 .. RB - 1 : Bit(w, i) = f[i]
  BY <1>1, <1>2, BitsExist
<1>4. \E w \in Addr : \A i \in 0 .. RB - 1 : Bit(w, i) = Bit(v, i) * Bit(mask, i)
  BY <1>3 DEF Addr
<1>. QED BY <1>4 DEF Masked

\* Replacing some bits of a word by others keeps its width: a are the bits
\* taken out of v, b the ones put in.
LEMMA ReplaceBits ==
    ASSUME NEW k \in Nat, NEW v \in 0 .. 2^k - 1, NEW a \in 0 .. 2^k - 1,
           NEW b \in 0 .. 2^k - 1,
           \A i \in 0 .. k - 1 : Bit(a, i) = Bit(v, i) \/ (Bit(a, i) = 0 /\ Bit(b, i) = 0)
    PROVE  v - a + b \in 0 .. 2^k - 1
<1>. DEFINE Fits(x, y, z, i) == Bit(y, i) = Bit(x, i) \/ (Bit(y, i) = 0 /\ Bit(z, i) = 0)
            AllFit(x, y, z, l) == \A i \in 0 .. l - 1 : Fits(x, y, z, i)
            S == {l \in Nat : \E x, y, z \in 0 .. 2^l - 1 :
                                AllFit(x, y, z, l) /\ x - y + z \notin 0 .. 2^l - 1}
<1>1. SUFFICES ASSUME S # {} PROVE FALSE
  OBVIOUS
<1>2. PICK l \in S : \A j \in S : l <= j
  BY <1>1, NatMinimum
<1>3. PICK x \in 0 .. 2^l - 1, y \in 0 .. 2^l - 1, z \in 0 .. 2^l - 1 :
             AllFit(x, y, z, l) /\ x - y + z \notin 0 .. 2^l - 1
  OBVIOUS
<1>4. l \in Nat
  OBVIOUS
<1>5. ASSUME l = 0 PROVE FALSE
  <2>1. 2^0 = 1
    OBVIOUS
  <2>2. x \in 0 .. 2^0 - 1 /\ y \in 0 .. 2^0 - 1 /\ z \in 0 .. 2^0 - 1
    BY <1>5
  <2>3. x = 0 /\ y = 0 /\ z = 0
    BY <2>1, <2>2
  <2>4. x - y + z \in 0 .. 2^0 - 1
    BY <2>1, <2>3
  <2>. QED BY <1>3, <1>5, <2>4
<1>. DEFINE j == l - 1
            K == 2^j
            xx == x % K
            yy == y % K
            zz == z % K
<1>6. j \in Nat /\ l = j + 1 /\ j \notin S
  <2>1. j \in Nat /\ l = j + 1 /\ ~(l <= j)
    BY <1>4, <1>5
  <2>. HIDE DEF S
  <2>. QED BY <1>2, <2>1
<1>7. /\ x = Bit(x, j) * K + xx /\ xx \in 0 .. K - 1 /\ Bit(x, j) \in {0, 1}
      /\ y = Bit(y, j) * K + yy /\ yy \in 0 .. K - 1 /\ Bit(y, j) \in {0, 1}
      /\ z = Bit(z, j) * K + zz /\ zz \in 0 .. K - 1 /\ Bit(z, j) \in {0, 1}
  BY <1>3, <1>6, BitSplit
<1>8. x \in Nat /\ y \in Nat /\ z \in Nat
  BY <1>3
<1>9. Fits(x, y, z, j)
  BY <1>3, <1>6
<1>10. AllFit(xx, yy, zz, j)
  <2>. SUFFICES ASSUME NEW i \in 0 .. j - 1 PROVE Fits(xx, yy, zz, i)
    OBVIOUS
  <2>1. Bit(xx, i) = Bit(x, i) /\ Bit(yy, i) = Bit(y, i) /\ Bit(zz, i) = Bit(z, i)
    BY <1>6, <1>8, BitBelow
  <2>2. i \in 0 .. l - 1
    BY <1>6
  <2>3. Fits(x, y, z, i)
    BY <1>3, <2>2
  <2>. QED BY <2>1, <2>3
<1>11. xx - yy + zz \in 0 .. K - 1
  BY <1>6, <1>7, <1>10
<1>12. K \in Nat \ {0} /\ 2^l = 2 * K
  BY <1>6, Doubling
<1>. DEFINE p == Bit(x, j)
            q == Bit(y, j)
            s == Bit(z, j)
<1>13. /\ x = p * K + xx /\ y = q * K + yy /\ z = s * K + zz
       /\ p \in {0, 1} /\ q \in {0, 1} /\ s \in {0, 1}
       /\ xx \in 0 .. K - 1 /\ yy \in 0 .. K - 1 /\ zz \in 0 .. K - 1
  BY <1>7
<1>14. q = p \/ (q = 0 /\ s = 0)
  BY <1>9
<1>. HIDE DEF p, q, s, xx, yy, zz, K
<1>15. x - y + z \in 0 .. 2 * K - 1
  BY <1>11, <1>12, <1>13, <1>14
<1>. QED BY <1>3, <1>12, <1>15

\* The mask of the low bits has these bits and no other.
LEMMA LowMaskBits ==
    ASSUME NEW e \in Nat, NEW i \in Nat
    PROVE  Bit(2^e - 1, i) = IF i < e THEN 1 ELSE 0
<1>. DEFINE I == 2^i
            E == 2^e
<1>1. I \in Nat \ {0} /\ E \in Nat \ {0} /\ 2^(i + 1) = 2 * I
  BY Doubling
<1>2. CASE i < e
  <2>. DEFINE j == e - (i + 1)
              J == 2^j
              q == 2 * J - 1
  <2>1. j \in Nat /\ i + 1 \in Nat /\ e = (i + 1) + j
    BY <1>2
  <2>2. J \in Nat \ {0}
    BY <2>1, Doubling
  <2>3. E = (2 * I) * J
    <3>1. 2^((i + 1) + j) = 2^(i + 1) * 2^j
      BY <2>1, PowerSum
    <3>2. 2^e = 2^((i + 1) + j)
      BY <2>1
    <3>. QED BY <1>1, <3>1, <3>2
  <2>. HIDE DEF I, E, J, j
  <2>4. E - 1 = I * q + (I - 1) /\ q \in Int /\ I - 1 \in 0 .. I - 1
    BY <1>1, <2>2, <2>3, Z3
  <2>5. q % 2 = 1
    BY <2>2
  <2>. HIDE DEF q
  <2>6. (I * q + (I - 1)) \div I = q
    BY <1>1, <2>4, DivisionUnique
  <2>7. ((E - 1) \div I) % 2 = 1
    BY <2>4, <2>5, <2>6
  <2>. QED BY <1>2, <2>7 DEF Bit, I, E
<1>3. CASE ~(i < e)
  <2>. DEFINE j == i - e
              J == 2^j
  <2>1. j \in Nat /\ i = e + j
    BY <1>3
  <2>2. J \in Nat \ {0}
    BY <2>1, Doubling
  <2>3. I = E * J
    <3>1. 2^(e + j) = 2^e * 2^j
      BY <2>1, PowerSum
    <3>. QED BY <2>1, <3>1
  <2>. HIDE DEF I, E, J, j
  <2>4. E <= I
    BY <1>1, <2>2, <2>3, Z3
  <2>5. E - 1 = I * 0 + (E - 1) /\ E - 1 \in 0 .. I - 1
    BY <1>1, <2>4
  <2>6. (I * 0 + (E - 1)) \div I = 0
    BY <1>1, <2>5, DivisionUnique
  <2>7. ((E - 1) \div I) % 2 = 0
    BY <2>5, <2>6
  <2>. QED BY <1>3, <2>7 DEF Bit, I, E
<1>. QED BY <1>2, <1>3

\* A word below 2^e has no bit at e or above.
LEMMA NoHighBit ==
    ASSUME NEW e \in Nat, NEW i \in Nat, e <= i, NEW u \in 0 .. 2^e - 1
    PROVE  Bit(u, i) = 0
<1>. DEFINE I == 2^i
            E == 2^e
            j == i - e
            J == 2^j
<1>1. I \in Nat \ {0} /\ E \in Nat \ {0}
  BY Doubling
<1>2. j \in Nat /\ i = e + j
  OBVIOUS
<1>3. J \in Nat \ {0}
  BY <1>2, Doubling
<1>4. I = E * J
  <2>1. 2^(e + j) = 2^e * 2^j
    BY <1>2, PowerSum
  <2>. QED BY <1>2, <2>1
<1>5. u \in 0 .. E - 1
  OBVIOUS
<1>. HIDE DEF I, E, J, j
<1>6. E <= I
  BY <1>1, <1>3, <1>4, Z3
<1>7. u = I * 0 + u /\ u \in 0 .. I - 1
  BY <1>1, <1>5, <1>6
<1>8. (I * 0 + u) \div I = 0
  BY <1>1, <1>7, DivisionUnique
<1>9. (u \div I) % 2 = 0
  BY <1>7, <1>8
<1>. QED BY <1>9 DEF Bit, I

\* Powers of two up to RB divide the address space.
LEMMA PowerDivides ==
    ASSUME NEW e \in 0 .. RB
    PROVE  /\ 2^e \in Nat \ {0} /\ 2^e <= 2^RB
           /\ \E J \in Nat \ {0} : 2^RB = 2^e * J
<1>. DEFINE j == RB - e
            E == 2^e
            J == 2^j
<1>1. RB \in Nat /\ e \in Nat /\ j \in Nat /\ RB = e + j
  BY AguAssumption
<1>2. E \in Nat \ {0} /\ J \in Nat \ {0}
  BY <1>1, Doubling
<1>3. 2^RB = E * J
  <2>1. 2^(e + j) = 2^e * 2^j
    BY <1>1, PowerSum
  <2>. QED BY <1>1, <2>1
<1>. HIDE DEF E, J
<1>4. E <= E * J
  BY <1>2, Z3
<1>. QED BY <1>2, <1>3, <1>4 DEF E

\* Masking by a power of two less one is a remainder.
LEMMA LowMask ==
    ASSUME NEW v \in Addr, NEW e \in 0 .. RB
    PROVE  Masked(v, 2^e - 1) = v % 2^e
<1>. DEFINE E == 2^e
            w == Masked(v, E - 1)
            u == v % E
<1>1. RB \in Nat /\ e \in Nat /\ v \in Nat /\ v \in Int
  BY AguAssumption DEF Addr
<1>2. E \in Nat \ {0} /\ E <= 2^RB /\ 2^RB \in Nat
  BY <1>1, PowerDivides, Doubling
<1>3. w \in Addr /\ \A i \in 0 .. RB - 1 : Bit(w, i) = Bit(v, i) * Bit(E - 1, i)
  <2>1. E - 1 \in Nat
    BY <1>2
  <2>. HIDE DEF E
  <2>. QED BY <1>1, <2>1, MaskedBits
<1>4. u \in 0 .. E - 1
  <2>. HIDE DEF E
  <2>. QED BY <1>1, <1>2, DivisionFacts
<1>5. u \in 0 .. 2^RB - 1
  <2>. HIDE DEF E, u
  <2>. QED BY <1>2, <1>4
<1>6. ASSUME NEW i \in 0 .. RB - 1 PROVE Bit(w, i) = Bit(u, i)
  <2>1. i \in Nat
    OBVIOUS
  <2>2. Bit(v, i) \in {0, 1}
    BY <1>1, <2>1, BitRange
  <2>3. Bit(E - 1, i) = IF i < e THEN 1 ELSE 0
    BY <1>1, <2>1, LowMaskBits
  <2>4. Bit(w, i) = Bit(v, i) * Bit(E - 1, i)
    BY <1>3
  <2>5. CASE i < e
    <3>1. i \in 0 .. e - 1
      BY <1>1, <2>1, <2>5
    <3>2. Bit(u, i) = Bit(v, i)
      BY <1>1, <3>1, BitBelow
    <3>. HIDE DEF E, w, u
    <3>. QED BY <2>2, <2>3, <2>4, <2>5, <3>2
  <2>6. CASE ~(i < e)
    <3>1. e <= i
      BY <1>1, <2>1, <2>6
    <3>2. Bit(u, i) = 0
      BY <1>1, <1>4, <2>1, <3>1, NoHighBit
    <3>. HIDE DEF E, w, u
    <3>. QED BY <2>2, <2>3, <2>4, <2>6, <3>2
  <2>. QED BY <2>5, <2>6
<1>7. w \in 0 .. 2^RB - 1
  BY <1>3 DEF Addr
<1>. HIDE DEF w, u
<1>8. w = u
  BY <1>1, <1>5, <1>6, <1>7, BitsUnique
<1>. QED BY <1>8 DEF w, u

\* The buffer of a modulus is a power of two that holds it.
LEMMA BufferFits ==
    ASSUME NEW k \in 1 .. 2^RB
    PROVE  \E e \in 0 .. RB : BufferSize(k) = 2^e /\ k <= 2^e
<1>. DEFINE S == {e \in Nat : k <= 2^e}
            P(e) == 2^e >= k /\ (e = 0 \/ 2^(e - 1) < k)
<1>1. RB \in Nat /\ RB \in S
  BY AguAssumption
<1>2. PICK e \in S : \A j \in S : e <= j
  BY <1>1, NatMinimum
<1>3. e \in Nat /\ k <= 2^e /\ e <= RB /\ 2^e \in Nat /\ k \in Nat
  BY <1>1, <1>2, Doubling
<1>4. CASE e = 0
  <2>1. e \in 0 .. RB /\ P(e)
    BY <1>1, <1>3, <1>4
  <2>2. PICK d \in 0 .. RB : P(d) /\ BufferSize(k) = 2^d
    BY <2>1, Zenon DEF BufferSize
  <2>3. 2^d \in Nat
    BY <1>1, Doubling
  <2>. QED BY <1>3, <2>2, <2>3
<1>5. CASE e # 0
  <2>1. e - 1 \in Nat /\ e - 1 \notin S
    BY <1>2, <1>3, <1>5
  <2>2. 2^(e - 1) \in Nat
    BY <2>1, Doubling
  <2>3. 2^(e - 1) < k
    BY <1>3, <2>1, <2>2
  <2>4. e \in 0 .. RB /\ P(e)
    BY <1>1, <1>3, <2>3
  <2>5. PICK d \in 0 .. RB : P(d) /\ BufferSize(k) = 2^d
    BY <2>4, Zenon DEF BufferSize
  <2>6. 2^d \in Nat
    BY <1>1, Doubling
  <2>. QED BY <1>3, <2>5, <2>6
<1>. QED BY <1>4, <1>5

-------------------------------------------------------------------------------
(* The update of an address register.                                      *)

\* The width of the address space, as the arithmetic needs it.
LEMMA Space ==
    /\ RB \in Nat /\ 2^RB \in Nat \ {0} /\ 2^(RB - 1) \in Nat \ {0}
    /\ 2^RB = 2 * 2^(RB - 1) /\ Linear # 0
    /\ MB - 1 \in 0 .. RB /\ 2^(MB - 1) \in Nat \ {0} /\ 2 * 2^(MB - 1) <= 2^RB
<1>1. RB \in Nat /\ RB - 1 \in Nat /\ (RB - 1) + 1 = RB /\ MB - 1 \in 0 .. RB - 1
  BY AguAssumption
<1>2. MB - 1 \in 0 .. RB /\ MB - 1 \in Nat /\ (MB - 1) + 1 \in 0 .. RB
  BY <1>1
<1>. DEFINE P == 2^RB
            H == 2^(RB - 1)
            B == 2^(MB - 1)
            C == 2^((MB - 1) + 1)
<1>3. P \in Nat \ {0} /\ H \in Nat \ {0} /\ B \in Nat \ {0}
  BY <1>1, <1>2, Doubling
<1>4. C = 2 * B
  BY <1>2, Doubling
<1>5. P = 2 * H
  <2>1. 2^((RB - 1) + 1) = 2 * 2^(RB - 1)
    BY <1>1, Doubling
  <2>. QED BY <1>1, <2>1
<1>6. C <= P
  BY <1>2, PowerDivides
<1>7. P - 1 # 0
  <2>. HIDE DEF P, H
  <2>. QED BY <1>3, <1>5
<1>. QED BY <1>1, <1>2, <1>3, <1>4, <1>5, <1>6, <1>7 DEF Linear

\* A remainder by the size of the space is an address.
LEMMA RemainderAddr ==
    ASSUME NEW a \in Int
    PROVE  a % 2^RB \in Addr
<1>. DEFINE P == 2^RB
<1>1. P \in Nat \ {0}
  BY Space
<1>2. a % P \in 0 .. P - 1
  <2>. HIDE DEF P
  <2>. QED BY <1>1, DivisionFacts
<1>. QED BY <1>2 DEF Addr

\* An address is a natural number below the size of the space.
LEMMA AddrNat ==
    ASSUME NEW a \in Addr
    PROVE  a \in Nat /\ a \in Int /\ a < 2^RB
<1>1. 2^RB \in Nat
  BY Space
<1>. QED BY <1>1 DEF Addr

\* A step in the reversed domain is an integer.
LEMMA ReverseStepInt ==
    ASSUME NEW d \in Int
    PROVE  ReverseStep(d) \in Int
<1>1. Magnitude(d) \in Int
  BY DEF Magnitude
<1>2. Magnitude(d) % 2^RB \in Addr
  BY <1>1, RemainderAddr
<1>3. Magnitude(d) % 2^RB \in Nat
  BY <1>2, AddrNat
<1>. DEFINE b == bitrev24(Magnitude(d) % 2^RB)
<1>4. b \in Addr
  BY <1>3, ReverseBits
<1>5. b \in Int
  BY <1>4, AddrNat
<1>. HIDE DEF b
<1>6. (IF d < 0 THEN -1 ELSE 1) * b \in Int
  BY <1>5
<1>. QED BY <1>6 DEF ReverseStep, b

\* Every update stays in the address space, also those the guest should not do.
LEMMA UpdateInSpace ==
    ASSUME NEW reg \in Addr, NEW mod \in Addr, NEW d \in Int
    PROVE  update_rn(reg, mod, d) \in Addr
<1>1. reg \in Int /\ mod \in Nat /\ reg \in Nat
  BY AddrNat
<1>2. (reg + d) % 2^RB \in Addr
  BY <1>1, RemainderAddr
<1>3. UpdateReverse(reg, d) \in Addr
  <2>1. bitrev24(reg) \in Addr
    BY <1>1, ReverseBits
  <2>. DEFINE x == bitrev24(reg) + ReverseStep(d)
  <2>2. x \in Int
    BY <2>1, AddrNat, ReverseStepInt
  <2>. HIDE DEF x
  <2>3. x % 2^RB \in Nat
    BY <2>2, RemainderAddr, AddrNat
  <2>4. bitrev24(x % 2^RB) \in Addr
    BY <2>3, ReverseBits
  <2>. QED BY <2>4 DEF UpdateReverse, x
<1>4. UpdateMultiWrap(reg, mod, d) \in Addr
  <2>. DEFINE mask == MultiWrapSize(mod) - 1
              off == Masked(reg, mask)
              x == (off + d) % 2^RB
              put == Masked(x, mask)
  <2>1. mask \in Nat
    <3>. DEFINE C == 2^(MB - 1)
    <3>1. C \in Nat \ {0}
      BY Space
    <3>. HIDE DEF C
    <3>2. mod % C \in 0 .. C - 1
      BY <1>1, <3>1, DivisionFacts
    <3>3. mod % C \in Nat
      BY <3>1, <3>2
    <3>4. MultiWrapSize(mod) = (mod % C) + 1
      BY Zenon DEF MultiWrapSize, C
    <3>. QED BY <3>3, <3>4
  <2>. HIDE DEF mask
  <2>2. off \in Addr /\ \A i \in 0 .. RB - 1 : Bit(off, i) = Bit(reg, i) * Bit(mask, i)
    BY <1>1, <2>1, MaskedBits
  <2>. HIDE DEF off
  <2>3. off \in Int
    BY <2>2, AddrNat
  <2>4. x \in Addr
    BY <2>3, RemainderAddr
  <2>5. x \in Nat
    BY <2>4, AddrNat
  <2>. HIDE DEF x
  <2>6. put \in Addr /\ \A i \in 0 .. RB - 1 : Bit(put, i) = Bit(x, i) * Bit(mask, i)
    BY <2>1, <2>5, MaskedBits
  <2>. HIDE DEF put
  <2>7. ASSUME NEW i \in 0 .. RB - 1
        PROVE Bit(off, i) = Bit(reg, i) \/ (Bit(off, i) = 0 /\ Bit(put, i) = 0)
    <3>1. i \in Nat
      OBVIOUS
    <3>2. Bit(mask, i) \in {0, 1} /\ Bit(x, i) \in {0, 1} /\ Bit(reg, i) \in {0, 1}
      BY <1>1, <2>1, <2>5, <3>1, BitRange
    <3>3. Bit(off, i) = Bit(reg, i) * Bit(mask, i) /\ Bit(put, i) = Bit(x, i) * Bit(mask, i)
      BY <2>2, <2>6
    <3>. QED BY <3>2, <3>3
  <2>8. reg - off + put \in 0 .. 2^RB - 1
    <3>1. RB \in Nat /\ reg \in 0 .. 2^RB - 1 /\ off \in 0 .. 2^RB - 1 /\ put \in 0 .. 2^RB - 1
      BY <2>2, <2>6, Space DEF Addr
    <3>. QED BY <2>7, <3>1, ReplaceBits
  <2>9. UpdateMultiWrap(reg, mod, d) = reg - off + put
    BY DEF UpdateMultiWrap, mask, off, x, put
  <2>. QED BY <2>8, <2>9 DEF Addr
<1>5. ASSUME mod < 2^(RB - 1) PROVE update_rn_modulo(reg, mod, d) \in Addr
  <2>. DEFINE modulo == mod + 1
              lo == reg - (reg % BufferSize(modulo))
              hi == (lo + modulo - 1) % 2^RB
              sum == reg + d
              wrapped == CASE d = modulo -> sum
                           [] d # modulo /\ d > 0 /\ sum > hi -> sum - modulo
                           [] d # modulo /\ d < 0 /\ sum < lo -> sum + modulo
                           [] OTHER -> sum
  <2>1. sum \in Int /\ modulo \in Int
    BY <1>1
  <2>2. update_rn_modulo(reg, mod, d) = wrapped % 2^RB
    BY DEF update_rn_modulo
  <2>. HIDE DEF hi, lo, sum, modulo
  <2>3. wrapped \in Int
    BY <2>1
  <2>. HIDE DEF wrapped
  <2>. QED BY <2>2, <2>3, RemainderAddr
<1>. QED BY <1>2, <1>3, <1>4, <1>5 DEF update_rn

-------------------------------------------------------------------------------
(* A step by d moves the pointer from where net puts it to where net plus  *)
(* the displacement of d puts it, mode by mode.                            *)

\* The steps the addressing modes take.
StepOf(d) == d \in {load_nn_signed, -load_nn_signed, 1, -1}

\* The steps and their displacements are integers.
LEMMA StepInt ==
    ASSUME TypeOK, NEW d, StepOf(d)
    PROVE  d \in Int /\ load_nn_signed \in Int /\ Disp(d) \in Int
<1>1. n \in Int
  BY AddrNat DEF TypeOK
<1>2. load_nn_signed \in Int
  <2>. DEFINE H == 2^(RB - 1)
              P == 2^RB
  <2>1. H \in Nat /\ P \in Nat
    BY Space
  <2>. HIDE DEF H, P
  <2>2. (IF n >= H THEN n - P ELSE n) \in Int
    BY <1>1, <2>1
  <2>. QED BY <2>2 DEF load_nn_signed, H, P
<1>3. d \in Int
  BY <1>2 DEF StepOf
<1>4. Disp(d) \in Int
  BY <1>3, ReverseStepInt DEF Disp
<1>. QED BY <1>2, <1>3, <1>4

\* Linear: addition in the whole space.
LEMMA LinearStep ==
    ASSUME TypeOK, net \in Int, r = Reached(net), m = Linear, NEW d, StepOf(d)
    PROVE  update_rn(r, m, d) = Reached(net + Disp(d))
<1>. DEFINE P == 2^RB
            o == origin
<1>1. P \in Nat \ {0} /\ m # 0
  BY Space
<1>2. o \in Int /\ d \in Int
  BY AddrNat, StepInt DEF TypeOK
<1>3. BlockSize = P /\ BlockBase = 0
  BY DEF BlockSize, BlockBase
<1>4. Disp(d) = d
  BY <1>1 DEF Disp
<1>5. r = 0 + ((o - 0 + net) % P)
  BY <1>1, <1>3 DEF Reached
<1>6. Reached(net + Disp(d)) = 0 + ((o - 0 + (net + d)) % P)
  BY <1>1, <1>3, <1>4 DEF Reached
<1>7. update_rn(r, m, d) = (r + d) % P
  BY <1>1, Zenon DEF update_rn
<1>. HIDE DEF P, o
<1>. DEFINE a == o + net
            x == a % P
            y == (a + d) % P
<1>8. a \in Int /\ o - 0 + net = a /\ o - 0 + (net + d) = a + d
  BY <1>2
<1>9. x \in Int /\ y \in Int /\ (x + d) % P = y
  <2>. HIDE DEF a
  <2>1. ((a % P) + d) % P = (a + d) % P
    BY <1>1, <1>2, <1>8, ModAdd
  <2>2. a + d \in Int
    BY <1>2, <1>8
  <2>. QED BY <1>1, <1>8, <2>1, <2>2, DivisionFacts
<1>10. r = 0 + x /\ Reached(net + Disp(d)) = 0 + y
  BY <1>5, <1>6, <1>8
<1>. HIDE DEF x, y
<1>11. r = x /\ Reached(net + Disp(d)) = y
  BY <1>9, <1>10
<1>. QED BY <1>7, <1>9, <1>11

\* Bit-reverse: addition in the reversed domain, because reversing twice is
\* the identity.
LEMMA ReversedStep ==
    ASSUME TypeOK, net \in Int, r = Reached(net), m = 0, NEW d, StepOf(d)
    PROVE  update_rn(r, m, d) = Reached(net + Disp(d))
<1>. DEFINE P == 2^RB
            b == bitrev24(origin)
            s == ReverseStep(d)
            a == b + net
<1>1. P \in Nat \ {0} /\ m # Linear
  BY Space
<1>2. d \in Int /\ origin \in Nat
  BY AddrNat, StepInt DEF TypeOK
<1>3. b \in Addr
  BY <1>2, ReverseBits
<1>4. b \in Int /\ s \in Int
  BY <1>2, <1>3, AddrNat, ReverseStepInt
<1>5. a \in Int
  BY <1>4
<1>6. r = bitrev24(a % P)
  BY DEF Reached
<1>7. a % P \in Addr
  <2>. HIDE DEF a
  <2>. QED BY <1>5, RemainderAddr
<1>8. bitrev24(r) = a % P
  <2>. HIDE DEF a, P
  <2>. QED BY <1>6, <1>7, ReverseTwice
<1>9. update_rn(r, m, d) = bitrev24((bitrev24(r) + s) % P)
  BY <1>1 DEF update_rn, UpdateReverse
<1>10. Disp(d) = s
  BY DEF Disp
<1>11. Reached(net + Disp(d)) = bitrev24((b + (net + s)) % P)
  BY <1>10 DEF Reached
<1>12. b + (net + s) = a + s
  <2>. HIDE DEF b, s
  <2>. QED BY <1>4
<1>13. ((a % P) + s) % P = (a + s) % P
  <2>. HIDE DEF a, P, s
  <2>. QED BY <1>1, <1>4, <1>5, ModAdd
<1>. HIDE DEF P, b, s, a
<1>. QED BY <1>8, <1>9, <1>11, <1>12, <1>13

\* A remainder by a divisor of the space is not disturbed by the wrap of the
\* space.
LEMMA RemainderTwice ==
    ASSUME NEW a \in Int, NEW E \in Nat \ {0}, NEW J \in Nat \ {0}
    PROVE  (a % (E * J)) % E = a % E
<1>. DEFINE P == E * J
            q == a \div P
            u == a % P
<1>1. P \in Nat \ {0}
  BY Z3
<1>2. q \in Int /\ u \in 0 .. P - 1 /\ a = P * q + u
  <2>. HIDE DEF P
  <2>. QED BY <1>1, DivisionFacts
<1>. HIDE DEF q, u
<1>3. a = u + E * (J * q)
  BY <1>2, Z3
<1>. DEFINE z == J * q
<1>4. z \in Int /\ u \in Int
  BY <1>1, <1>2
<1>. HIDE DEF z
<1>5. (u + E * z) % E = u % E
  BY <1>4, ModPeriod
<1>6. a % E = u % E
  BY <1>3, <1>5 DEF z
<1>. QED BY <1>6 DEF u

\* Multiple wrap-around: with a buffer of a power of two the masks of
\* update_rn are remainders.
LEMMA MultiWrapStep ==
    ASSUME TypeOK, net \in Int, r = Reached(net), Disciplined,
           m \notin {0, Linear}, IsMultiWrap(m), NEW d, StepOf(d)
    PROVE  update_rn(r, m, d) = Reached(net + Disp(d))
<1>. DEFINE P == 2^RB
            C == 2^(MB - 1)
            k == MultiWrapSize(m)
            o == origin
            base == BlockBase
<1>1. P \in Nat \ {0} /\ C \in Nat \ {0} /\ 2 * C <= P
  BY Space
<1>2. o \in Nat /\ o \in Int /\ d \in Int /\ m \in Int /\ r \in Nat /\ r \in Addr
  BY AddrNat, StepInt DEF TypeOK
<1>3. k \in 1 .. C
  <2>1. k = (m % C) + 1
    BY Zenon DEF MultiWrapSize
  <2>. HIDE DEF C, k
  <2>2. m % C \in 0 .. C - 1
    BY <1>1, <1>2, DivisionFacts
  <2>. QED BY <1>1, <2>1, <2>2
<1>4. k \in Nat \ {0} /\ k < P /\ k \in 1 .. P
  <2>. HIDE DEF P, C, k
  <2>. QED BY <1>1, <1>3
<1>5. BlockSize = k
  BY Zenon DEF BlockSize
<1>6. BufferSize(k) = k
  BY <1>5 DEF Disciplined
<1>7. base = o - (o % k)
  <2>1. BlockSize # 2^RB
    <3>. HIDE DEF k
    <3>. QED BY <1>4, <1>5
  <2>. QED BY <1>5, <1>6, <2>1, Zenon DEF BlockBase
<1>8. PICK e \in 0 .. RB : k = 2^e
  <2>1. \E e \in 0 .. RB : BufferSize(k) = 2^e /\ k <= 2^e
    <3>. HIDE DEF k
    <3>. QED BY <1>4, BufferFits
  <2>. QED BY <1>6, <2>1
<1>9. PICK J \in Nat \ {0} : P = k * J
  BY <1>8, PowerDivides
<1>. DEFINE off == r % k
            x == (off + d) % P
<1>. HIDE DEF P, C, k, o, base
<1>10. o % k \in 0 .. k - 1 /\ o \div k \in Int /\ o = k * (o \div k) + (o % k)
  BY <1>2, <1>4, DivisionFacts
<1>. DEFINE q == o \div k
            z == (o - base) + net
            w == z % k
<1>11. base = k * q /\ q \in Int /\ base \in Int
  <2>. DEFINE t == o % k
  <2>1. t \in 0 .. k - 1 /\ q \in Int /\ o = k * q + t /\ base = o - t
    BY <1>7, <1>10
  <2>. HIDE DEF t, q
  <2>2. k * q \in Int
    BY <1>4, <2>1
  <2>. QED BY <1>2, <1>4, <2>1, <2>2
<1>. HIDE DEF q
<1>12. z \in Int
  BY <1>2, <1>11
<1>13. r = base + w
  BY <1>5 DEF Reached, base, o
<1>. HIDE DEF z
<1>14. w \in 0 .. k - 1
  BY <1>4, <1>12, DivisionFacts
<1>. HIDE DEF w
<1>15. off = w
  <2>1. (k * q + w) % k = w
    BY <1>4, <1>11, <1>14, DivisionUnique
  <2>. QED BY <1>11, <1>13, <2>1
<1>16. Masked(r, k - 1) = off
  BY <1>2, <1>8, LowMask
<1>. HIDE DEF off
<1>17. off + d \in Int
  BY <1>2, <1>14, <1>15, <1>4
<1>18. x \in Addr
  BY <1>17, RemainderAddr DEF P
<1>19. Masked(x, k - 1) = x % k
  <2>. HIDE DEF x
  <2>. QED BY <1>8, <1>18, LowMask
<1>20. x % k = (off + d) % k
  <2>. DEFINE y == off + d
  <2>. HIDE DEF y
  <2>1. (y % (k * J)) % k = y % k
    BY <1>4, <1>9, <1>17, RemainderTwice DEF y
  <2>. QED BY <1>9, <2>1 DEF y
<1>21. update_rn(r, m, d) = (r - off) + (x % k)
  <2>1. update_rn(r, m, d) = UpdateMultiWrap(r, m, d)
    BY Zenon DEF update_rn
  <2>2. UpdateMultiWrap(r, m, d)
          = (r - Masked(r, k - 1)) + Masked((Masked(r, k - 1) + d) % P, k - 1)
    BY Zenon DEF UpdateMultiWrap, k, P
  <2>. QED BY <1>16, <1>19, <2>1, <2>2
<1>22. r - off = base
  BY <1>4, <1>11, <1>13, <1>14, <1>15
<1>23. (off + d) % k = (z + d) % k
  BY <1>2, <1>4, <1>12, <1>15, ModAdd DEF w
<1>24. Disp(d) = d
  BY DEF Disp
<1>25. Reached(net + Disp(d)) = base + ((o - base + (net + d)) % k)
  BY <1>5, <1>24 DEF Reached, base, o
<1>26. o - base + (net + d) = z + d
  BY <1>2, <1>11 DEF z
<1>. QED BY <1>20, <1>21, <1>22, <1>23, <1>25, <1>26

\* Modulo: the pointer is inside its buffer, so the lower bound update_rn
\* derives from it is the base, and a step shorter than the buffer needs one
\* correction at most.
LEMMA ModuloStep ==
    ASSUME TypeOK, net \in Int, r = Reached(net), Disciplined,
           m \notin {0, Linear}, ~ IsMultiWrap(m), NEW d, StepOf(d)
    PROVE  update_rn(r, m, d) = Reached(net + Disp(d))
<1>. DEFINE P == 2^RB
            H == 2^(RB - 1)
            k == m + 1
            B == BufferSize(k)
            o == origin
            base == BlockBase
<1>1. P \in Nat \ {0} /\ H \in Nat \ {0} /\ P = 2 * H
  BY Space
<1>2. o \in Nat /\ o \in Int /\ d \in Int /\ m \in Nat /\ r \in Nat /\ o < P /\ load_nn_signed \in Int
  BY AddrNat, StepInt DEF TypeOK
<1>3. BlockSize = k
  BY Zenon DEF BlockSize
<1>4. m < H
  BY DEF Disciplined
<1>5. k \in Nat /\ k >= 2 /\ k <= H /\ k < P /\ k \in 1 .. P
  <2>. HIDE DEF P, H
  <2>1. m # 0
    OBVIOUS
  <2>. QED BY <1>1, <1>2, <1>4, <2>1
<1>6. d < k /\ -k < d
  <2>1. Magnitude(load_nn_signed) < k
    BY <1>3 DEF Disciplined
  <2>. DEFINE l == load_nn_signed
  <2>. HIDE DEF l, k
  <2>2. l < k /\ -l < k
    BY <1>2, <1>5, <2>1 DEF Magnitude, l
  <2>3. d \in {l, -l, 1, -1}
    BY DEF StepOf, l
  <2>. QED BY <1>2, <1>5, <2>2, <2>3 DEF l
<1>7. PICK e \in 0 .. RB : B = 2^e /\ k <= 2^e
  <2>. HIDE DEF k, P
  <2>. QED BY <1>5, BufferFits DEF P
<1>8. B \in Nat \ {0} /\ \E J \in Nat \ {0} : P = B * J
  BY <1>7, PowerDivides
<1>9. PICK J \in Nat \ {0} : P = B * J
  BY <1>8
<1>10. base = o - (o % B)
  <2>1. BlockSize # 2^RB
    <3>. HIDE DEF k
    <3>. QED BY <1>2, <1>3, <1>5
  <2>. QED BY <1>3, <2>1, Zenon DEF BlockBase
<1>11. o < base + k
  BY <1>3 DEF Disciplined
<1>12. k <= B
  BY <1>7
<1>. DEFINE z == (o - base) + net
            w == z % k
            modulo == m + 1
            lo == r - (r % BufferSize(modulo))
            hi == (lo + modulo - 1) % 2^RB
            sum == r + d
            wrapped == CASE d = modulo -> sum
                         [] d # modulo /\ d > 0 /\ sum > hi -> sum - modulo
                         [] d # modulo /\ d < 0 /\ sum < lo -> sum + modulo
                         [] OTHER -> sum
<1>13. update_rn(r, m, d) = wrapped % P
  <2>1. update_rn(r, m, d) = update_rn_modulo(r, m, d)
    BY <1>4, Zenon DEF update_rn
  <2>. QED BY <2>1, Zenon DEF update_rn_modulo
<1>14. r = base + w
  BY <1>3 DEF Reached, base, o
<1>15. Reached(net + Disp(d)) = base + ((o - base + (net + d)) % k)
  <2>1. Disp(d) = d
    BY DEF Disp
  <2>. QED BY <1>3, <2>1 DEF Reached, base, o
<1>16. modulo = k /\ lo = r - (r % B) /\ hi = (lo + modulo - 1) % P
  OBVIOUS
<1>. DEFINE q == o \div B
<1>. HIDE DEF P, H, k, B, o, base, lo, hi, modulo, sum
<1>17. o % B \in 0 .. B - 1 /\ q \in Int /\ o = B * q + (o % B)
  BY <1>2, <1>8, DivisionFacts
<1>18. base = B * q /\ base \in Int /\ base <= o /\ base < P
  <2>. DEFINE t == o % B
  <2>1. t \in 0 .. B - 1 /\ o = B * q + t /\ base = o - t
    BY <1>10, <1>17
  <2>. HIDE DEF t, q
  <2>2. B * q \in Int
    BY <1>8, <1>17
  <2>. QED BY <1>1, <1>2, <1>8, <2>1, <2>2
<1>. HIDE DEF q
<1>19. base + B <= P /\ base >= 0
  <2>1. q >= 0
    <3>1. CASE q < 0
      <4>1. B * q <= -B
        BY <1>8, <1>17, <3>1, Z3
      <4>2. o % B \in Int /\ o % B < B
        BY <1>8, <1>17
      <4>. DEFINE t == o % B
                  y == B * q
      <4>3. o = y + t /\ y <= -B /\ t < B /\ t \in Int /\ y \in Int
        BY <1>8, <1>17, <4>1, <4>2
      <4>. HIDE DEF t, y
      <4>. QED BY <1>2, <1>8, <4>3
    <3>. QED BY <1>17, <3>1
  <2>2. q < J
    <3>1. CASE q >= J
      <4>1. B * q >= B * J
        BY <1>8, <1>9, <1>17, <3>1, Z3
      <4>. QED BY <1>1, <1>9, <1>18, <4>1
    <3>. QED BY <1>9, <1>17, <3>1
  <2>3. B * (q + 1) <= B * J
    BY <1>8, <1>9, <1>17, <2>2, Z3
  <2>4. B * (q + 1) = B * q + B
    BY <1>8, <1>17, Z3
  <2>5. B * q >= 0
    BY <1>8, <1>17, <2>1, Z3
  <2>. QED BY <1>1, <1>8, <1>9, <1>18, <2>3, <2>4, <2>5
<1>20. z \in Int
  BY <1>2, <1>18
<1>. HIDE DEF z
<1>21. w \in 0 .. k - 1
  <2>1. k \in Nat \ {0}
    BY <1>5
  <2>. QED BY <1>20, <2>1, DivisionFacts
<1>. DEFINE W == (z + d) % k
<1>22. W \in 0 .. k - 1 /\ W = (w + d) % k
  <2>1. k \in Nat \ {0} /\ z + d \in Int
    BY <1>2, <1>5, <1>20
  <2>2. ((z % k) + d) % k = (z + d) % k
    BY <1>2, <1>20, <2>1, ModAdd
  <2>. QED BY <2>1, <2>2, DivisionFacts
<1>23. Reached(net + Disp(d)) = base + W
  <2>1. o - base + (net + d) = z + d
    BY <1>2, <1>18 DEF z
  <2>. QED BY <1>15, <2>1
<1>. HIDE DEF w, W
<1>24. r % B = w
  <2>1. w \in 0 .. B - 1
    BY <1>5, <1>8, <1>12, <1>21
  <2>2. (B * q + w) % B = w
    BY <1>8, <1>17, <2>1, DivisionUnique
  <2>. QED BY <1>14, <1>18, <2>2
<1>25. lo = base
  <2>. HIDE DEF w
  <2>1. lo = r - w
    BY <1>16, <1>24
  <2>. QED BY <1>5, <1>14, <1>18, <1>21, <2>1
<1>26. hi = base + k - 1
  <2>. DEFINE y == base + k - 1
  <2>1. y \in 0 .. P - 1
    BY <1>1, <1>5, <1>8, <1>12, <1>18, <1>19
  <2>2. hi = y % P
    BY <1>16, <1>25
  <2>. HIDE DEF y
  <2>3. (P * 0 + y) % P = y
    BY <1>1, <2>1, DivisionUnique
  <2>4. P * 0 + y = y
    BY <1>1, <2>1
  <2>. QED BY <2>2, <2>3, <2>4 DEF y
\* The remainder of w + d, without a division: |d| < k.
<1>27. W = IF w + d >= k THEN w + d - k ELSE IF w + d < 0 THEN w + d + k ELSE w + d
  <2>. DEFINE s == w + d
              j == IF s >= k THEN 1 ELSE IF s < 0 THEN -1 ELSE 0
              t == IF s >= k THEN s - k ELSE IF s < 0 THEN s + k ELSE s
  <2>1. s \in Int /\ t \in 0 .. k - 1 /\ j \in Int /\ s = k * j + t /\ k \in Nat \ {0}
    BY <1>2, <1>5, <1>6, <1>21
  <2>2. W = s % k
    BY <1>22
  <2>3. t = IF w + d >= k THEN w + d - k ELSE IF w + d < 0 THEN w + d + k ELSE w + d
    BY <1>2, <1>5, <1>21
  <2>. HIDE DEF s, j, t
  <2>4. (k * j + t) % k = t
    BY <2>1, DivisionUnique
  <2>5. W = t
    BY <2>1, <2>2, <2>4
  <2>. QED BY <2>3, <2>5
<1>28. sum = base + (w + d) /\ sum \in Int
  BY <1>2, <1>5, <1>14, <1>18, <1>21 DEF sum
<1>29. wrapped = base + W
  <2>1. CASE w + d >= k
    <3>1. d > 0 /\ sum > hi /\ d # k
      BY <1>2, <1>5, <1>6, <1>18, <1>21, <1>26, <1>28, <2>1
    <3>2. wrapped = sum - k
      BY <1>2, <1>16, <3>1
    <3>. QED BY <1>2, <1>5, <1>18, <1>21, <1>27, <1>28, <2>1, <3>2
  <2>2. CASE w + d < 0
    <3>1. d < 0 /\ sum < lo /\ d # k /\ ~(d > 0)
      BY <1>2, <1>5, <1>6, <1>18, <1>21, <1>25, <1>28, <2>2
    <3>2. wrapped = sum + k
      BY <1>2, <1>16, <3>1
    <3>. QED BY <1>2, <1>5, <1>18, <1>21, <1>27, <1>28, <2>2, <3>2
  <2>3. CASE ~(w + d >= k) /\ ~(w + d < 0)
    <3>1. ~(sum > hi) /\ ~(sum < lo) /\ d # k
      BY <1>2, <1>5, <1>6, <1>18, <1>21, <1>25, <1>26, <1>28, <2>3
    <3>2. wrapped = sum
      BY <1>16, <3>1
    <3>. QED BY <1>2, <1>5, <1>18, <1>21, <1>27, <1>28, <2>3, <3>2
  <2>. QED BY <2>1, <2>2, <2>3
<1>30. base + W \in 0 .. P - 1
  BY <1>1, <1>5, <1>8, <1>12, <1>18, <1>19, <1>22
<1>31. wrapped % P = base + W
  <2>. DEFINE y == base + W
  <2>1. y \in 0 .. P - 1 /\ wrapped = y
    BY <1>29, <1>30
  <2>. HIDE DEF y, wrapped
  <2>2. (P * 0 + y) % P = y /\ P * 0 + y = y
    BY <1>1, <2>1, DivisionUnique
  <2>. QED BY <2>1, <2>2 DEF y
<1>. QED BY <1>13, <1>23, <1>31

\* The four modes together.
LEMMA StepReaches ==
    ASSUME TypeOK, net \in Int, PointerFollowsNet, NEW d, StepOf(d)
    PROVE  Disciplined => update_rn(r, m, d) = Reached(net + Disp(d))
<1>. SUFFICES ASSUME Disciplined
              PROVE  update_rn(r, m, d) = Reached(net + Disp(d))
  OBVIOUS
<1>1. r = Reached(net)
  BY DEF PointerFollowsNet
<1>2. CASE m = Linear
  BY <1>1, <1>2, LinearStep
<1>3. CASE m = 0
  BY <1>1, <1>3, ReversedStep
<1>4. CASE m \notin {0, Linear} /\ IsMultiWrap(m)
  BY <1>1, <1>4, MultiWrapStep
<1>5. CASE m \notin {0, Linear} /\ ~ IsMultiWrap(m)
  BY <1>1, <1>5, ModuloStep
<1>. QED BY <1>2, <1>3, <1>4, <1>5

-------------------------------------------------------------------------------
(* The theorems.                                                           *)

\* Where the pointer is and what the last address stood for.
AguInv == /\ PointerFollowsNet /\ EffectiveAddress /\ net \in Int

\* What a step needs to know about an update.
LEMMA Stepped ==
    ASSUME AguInv, NEW d, StepOf(d)
    PROVE  /\ update_rn(r, m, d) \in Addr /\ net + Disp(d) \in Int
           /\ Disciplined => update_rn(r, m, d) = Reached(net + Disp(d))
<1>1. TypeOK /\ net \in Int /\ PointerFollowsNet
  BY DEF AguInv, PointerFollowsNet
<1>2. d \in Int /\ Disp(d) \in Int
  BY <1>1, StepInt
<1>3. r \in Addr /\ m \in Addr
  BY <1>1 DEF TypeOK
<1>4. update_rn(r, m, d) \in Addr
  BY <1>2, <1>3, UpdateInSpace
<1>5. Disciplined => update_rn(r, m, d) = Reached(net + Disp(d))
  BY <1>1, StepReaches
<1>6. net + Disp(d) \in Int
  BY <1>1, <1>2
<1>. QED BY <1>4, <1>5, <1>6

\* A pointer just loaded is where no displacement puts it.
LEMMA Starts == Init => AguInv
<1>. SUFFICES ASSUME Init PROVE AguInv
  OBVIOUS
<1>1. TypeOK
  BY AguAssumption DEF Init, TypeOK, Addr
<1>2. Disciplined => origin = Reached(0)
  <2>. SUFFICES ASSUME Disciplined PROVE origin = Reached(0)
    OBVIOUS
  <2>. DEFINE P == 2^RB
              o == origin
  <2>1. P \in Nat \ {0} /\ o \in Nat /\ o \in Addr /\ o < P
    BY <1>1, Space, AddrNat DEF TypeOK
  <2>2. CASE m = 0
    <3>. DEFINE b == bitrev24(o)
    <3>1. b \in Addr
      BY <2>1, ReverseBits
    <3>2. b \in 0 .. P - 1
      BY <3>1 DEF Addr
    <3>3. bitrev24(b) = o
      BY <2>1, ReverseTwice
    <3>4. Reached(0) = bitrev24((b + 0) % P)
      BY <2>2 DEF Reached
    <3>. HIDE DEF b, P
    <3>5. (P * 0 + b) % P = b /\ P * 0 + b = b /\ b + 0 = b
      BY <2>1, <3>2, DivisionUnique
    <3>. QED BY <3>3, <3>4, <3>5
  <2>3. CASE m # 0
    <3>. DEFINE base == BlockBase
                k == BlockSize
    <3>1. Reached(0) = base + ((o - base + 0) % k)
      BY <2>3 DEF Reached
    <3>2. o < base + k
      BY DEF Disciplined
    <3>3. k \in Nat \ {0} /\ base \in Int /\ base <= o
      <4>1. m \in Nat /\ m \in Int
        BY <1>1, AddrNat DEF TypeOK
      <4>2. k \in Nat \ {0}
        <5>. DEFINE C == 2^(MB - 1)
                    t == m % C
        <5>1. C \in Nat \ {0}
          BY Space
        <5>2. t \in 0 .. C - 1
          <6>. HIDE DEF C
          <6>. QED BY <4>1, <5>1, DivisionFacts
        <5>. HIDE DEF C
        <5>3. t + 1 \in Nat \ {0}
          <6>. HIDE DEF t
          <6>. QED BY <5>1, <5>2
        <5>4. MultiWrapSize(m) \in Nat \ {0}
          BY <5>3 DEF MultiWrapSize, C
        <5>5. m + 1 \in Nat \ {0}
          BY <4>1
        <5>6. k = P \/ k = MultiWrapSize(m) \/ k = m + 1
          BY Zenon DEF BlockSize
        <5>. HIDE DEF k, P
        <5>. QED BY <2>1, <5>4, <5>5, <5>6
      <4>3. k <= P
        <5>1. CASE m \in {0, Linear}
          <6>1. k = P
            BY <5>1, Zenon DEF BlockSize
          <6>. QED BY <2>1, <6>1
        <5>2. CASE m \notin {0, Linear} /\ IsMultiWrap(m)
          <6>. DEFINE C == 2^(MB - 1)
                      t == m % C
          <6>1. C \in Nat \ {0} /\ 2 * C <= P
            BY Space
          <6>2. t \in 0 .. C - 1
            <7>. HIDE DEF C
            <7>. QED BY <4>1, <6>1, DivisionFacts
          <6>3. k = t + 1
            BY <5>2, Zenon DEF BlockSize, MultiWrapSize
          <6>. HIDE DEF C, t, k, P
          <6>. QED BY <2>1, <6>1, <6>2, <6>3
        <5>3. CASE m \notin {0, Linear} /\ ~ IsMultiWrap(m)
          <6>1. k = m + 1
            BY <5>3, Zenon DEF BlockSize
          <6>2. m < P
            BY <1>1, AddrNat DEF TypeOK
          <6>. HIDE DEF k, P
          <6>. QED BY <2>1, <4>1, <6>1, <6>2
        <5>. QED BY <5>1, <5>2, <5>3
      <4>4. CASE k = P
        <5>1. base = 0
          BY <4>4 DEF BlockBase
        <5>. QED BY <2>1, <4>2, <5>1
      <4>5. CASE k # P
        <5>. DEFINE B == BufferSize(k)
                    t == o % B
        <5>1. base = o - t
          BY <4>5, Zenon DEF BlockBase
        <5>2. k \in 1 .. P
          <6>. HIDE DEF k, P
          <6>. QED BY <2>1, <4>2, <4>3
        <5>3. \E e \in 0 .. RB : B = 2^e
          <6>. HIDE DEF k
          <6>. QED BY <5>2, BufferFits
        <5>4. B \in Nat \ {0}
          BY <5>3, PowerDivides
        <5>. HIDE DEF B
        <5>5. t \in 0 .. B - 1
          BY <2>1, <5>4, DivisionFacts
        <5>. HIDE DEF t, base
        <5>. QED BY <2>1, <4>2, <5>1, <5>4, <5>5
      <4>. QED BY <4>4, <4>5
    <3>. DEFINE y == o - base + 0
    <3>4. y \in 0 .. k - 1 /\ base + y = o
      <4>. HIDE DEF base, k, o
      <4>. QED BY <2>1, <3>2, <3>3
    <3>. HIDE DEF y, k, base
    <3>5. (k * 0 + y) % k = y /\ k * 0 + y = y
      BY <3>3, <3>4, DivisionUnique
    <3>6. Reached(0) = base + (y % k)
      BY <3>1 DEF y
    <3>. QED BY <3>4, <3>5, <3>6
  <2>. QED BY <2>2, <2>3
<1>3. r = origin /\ net = 0 /\ ea.addr = origin /\ ea.disp = 0
  BY DEF Init
<1>. QED BY <1>1, <1>2, <1>3 DEF AguInv, PointerFollowsNet, EffectiveAddress

\* Every step keeps the pointer where its net displacement puts it, and
\* leaves behind an address that stands for the displacement recorded with it.
LEMMA Steps == AguInv /\ [Next]_vars => AguInv'
<1>. SUFFICES ASSUME AguInv, [Next]_vars PROVE AguInv'
  OBVIOUS
<1>1. /\ TypeOK /\ net \in Int /\ PointerFollowsNet /\ EffectiveAddress
      /\ r \in Addr /\ n \in Addr /\ m \in Addr /\ origin \in Addr /\ ea.addr \in Addr
      /\ steps \in 0 .. MaxSteps /\ MaxSteps \in Nat
      /\ (Disciplined => r = Reached(net))
  BY AguAssumption DEF AguInv, PointerFollowsNet, TypeOK
\* The shape every step has: a register and an address where they should be.
<1>2. ASSUME UNCHANGED <<n, m, origin>>, r' \in Addr, ea'.addr \in Addr, net' \in Int,
             steps' \in 0 .. MaxSteps,
             Disciplined => r' = Reached(net') /\ ea'.addr = Reached(ea'.disp)
      PROVE  AguInv'
  <2>1. TypeOK'
    BY <1>1, <1>2 DEF TypeOK, Addr
  <2>2. (Disciplined' <=> Disciplined) /\ Reached(net)' = Reached(net')
    BY <1>2 DEF Disciplined, Reached, BlockBase, BlockSize, load_nn_signed
  <2>3. Reached(ea.disp)' = Reached(ea'.disp)
    BY <1>2 DEF Reached, BlockBase, BlockSize
  <2>4. PointerFollowsNet'
    BY <1>2, <2>1, <2>2 DEF PointerFollowsNet
  <2>5. EffectiveAddress'
    BY <1>2, <2>2, <2>3 DEF EffectiveAddress
  <2>. QED BY <1>2, <2>4, <2>5 DEF AguInv
<1>3. StepOf(load_nn_signed) /\ StepOf(-load_nn_signed) /\ StepOf(1) /\ StepOf(-1)
  BY DEF StepOf
<1>4. ASSUME NEW d, StepOf(d), PostUpdate(d) PROVE AguInv'
  <2>1. r' = update_rn(r, m, d) /\ net' = net + Disp(d) /\ ea'.addr = r /\ ea'.disp = net
        /\ steps' \in 0 .. MaxSteps /\ UNCHANGED <<n, m, origin>>
    BY <1>1, <1>4 DEF PostUpdate
  <2>2. r' \in Addr /\ net' \in Int /\ (Disciplined => r' = Reached(net'))
    BY <1>4, <2>1, Stepped
  <2>. QED BY <1>1, <1>2, <2>1, <2>2
<1>5. CASE PostNn
  BY <1>3, <1>4, <1>5 DEF PostNn
<1>6. CASE PostMinusNn
  BY <1>3, <1>4, <1>6 DEF PostMinusNn
<1>7. CASE PostIncrement
  BY <1>3, <1>4, <1>7 DEF PostIncrement
<1>8. CASE PostDecrement
  BY <1>3, <1>4, <1>8 DEF PostDecrement
<1>9. CASE NoUpdate
  <2>1. ea'.addr = r /\ ea'.disp = net /\ UNCHANGED <<r, n, m, origin, net, steps>>
    BY <1>9 DEF NoUpdate
  <2>. QED BY <1>1, <1>2, <2>1
<1>10. ASSUME NEW d, StepOf(d), Lua(d) PROVE AguInv'
  <2>1. ea'.addr = update_rn(r, m, d) /\ ea'.disp = net + Disp(d)
        /\ UNCHANGED <<r, n, m, origin, net, steps>>
    BY <1>10 DEF Lua
  <2>2. ea'.addr \in Addr /\ (Disciplined => ea'.addr = Reached(ea'.disp))
    BY <1>10, <2>1, Stepped
  <2>. QED BY <1>1, <1>2, <2>1, <2>2
<1>11. CASE Indexed
  <2>1. Lua(load_nn_signed)
    BY <1>11 DEF Indexed, Lua
  <2>. QED BY <1>3, <1>10, <2>1
<1>12. CASE PreDecrement
  <2>1. r' = update_rn(r, m, -1) /\ net' = net + Disp(-1) /\ ea'.addr = r' /\ ea'.disp = net'
        /\ steps' \in 0 .. MaxSteps /\ UNCHANGED <<n, m, origin>>
    BY <1>1, <1>12 DEF PreDecrement
  <2>2. r' \in Addr /\ net' \in Int /\ (Disciplined => r' = Reached(net'))
    BY <1>3, <2>1, Stepped
  <2>. QED BY <1>2, <2>1, <2>2
<1>13. CASE LuaUpdate
  BY <1>10, <1>13 DEF LuaUpdate, StepOf
<1>14. CASE UNCHANGED vars
  BY <1>14 DEF vars, AguInv, PointerFollowsNet, EffectiveAddress, TypeOK, Disciplined,
               Reached, BlockBase, BlockSize, load_nn_signed
<1>. QED BY <1>5, <1>6, <1>7, <1>8, <1>9, <1>11, <1>12, <1>13, <1>14 DEF Next

\* For every register width, modifier, offset and origin: no order of
\* increments, decrements and offsets loses a word at a wrap or leaves the
\* buffer, in any of the four modes of update_rn.
THEOREM PointerExact == Spec => []PointerFollowsNet
<1>1. AguInv => PointerFollowsNet
  BY DEF AguInv
<1>. QED BY Starts, Steps, <1>1, PTL DEF Spec

\* For every register width, modifier, offset and origin: the address an
\* addressing mode produced stands for the displacement it names.
THEOREM AddressExact == Spec => []EffectiveAddress
<1>1. AguInv => EffectiveAddress
  BY DEF AguInv
<1>. QED BY Starts, Steps, <1>1, PTL DEF Spec

-------------------------------------------------------------------------------
(* The order a bit-reversed walk visits a table in.                        *)

\* A bit above the lowest q is a bit of the quotient.
LEMMA BitHigh ==
    ASSUME NEW q \in Nat, NEW v \in Nat, NEW i \in Nat
    PROVE  Bit(v, q + i) = Bit(v \div 2^q, i)
<1>. DEFINE Q == 2^q
            I == 2^i
            R == 2^(q + i)
            a == v \div Q
            u == v % Q
            b == a \div I
            c == a % I
<1>1. Q \in Nat \ {0} /\ I \in Nat \ {0} /\ R = Q * I
  BY Doubling, PowerSum
<1>. HIDE DEF Q, I, R
<1>2. a \in Int /\ u \in 0 .. Q - 1 /\ v = Q * a + u
  <2>1. v \in Int
    OBVIOUS
  <2>. QED BY <1>1, <2>1, DivisionFacts
<1>. HIDE DEF a, u
<1>3. b \in Int /\ c \in 0 .. I - 1 /\ a = I * b + c
  BY <1>1, <1>2, DivisionFacts
<1>. HIDE DEF b, c
<1>. DEFINE w == Q * c + u
<1>4. R \in Nat \ {0}
  BY <1>1, Z3
<1>5. w \in 0 .. R - 1
  <2>1. Q * (c + 1) <= Q * I
    BY <1>1, <1>3, Z3
  <2>2. Q * (c + 1) = Q * c + Q /\ Q * c \in Nat
    BY <1>1, <1>3, Z3
  <2>. QED BY <1>1, <1>2, <1>4, <2>1, <2>2
<1>6. v = R * b + w
  <2>1. Q * (I * b + c) = (Q * I) * b + Q * c
    BY <1>1, <1>3, Z3
  <2>. DEFINE x == (Q * I) * b
              y == Q * c
  <2>2. x \in Int /\ y \in Int /\ v = (x + y) + u /\ R * b + w = x + (y + u)
    BY <1>1, <1>2, <1>3, <2>1
  <2>. HIDE DEF x, y
  <2>. QED BY <1>2, <2>2
<1>. HIDE DEF w
<1>7. v \div R = b
  BY <1>3, <1>4, <1>5, <1>6, DivisionUnique
<1>. QED BY <1>7 DEF Bit, a, b, Q, I, R

\* A power of two has one bit.
LEMMA PowerBit ==
    ASSUME NEW j \in Nat, NEW i \in Nat
    PROVE  Bit(2^j, i) = IF i = j THEN 1 ELSE 0
<1>. DEFINE J == 2^j
<1>1. J \in Nat \ {0} /\ 2^0 = 1 /\ 2^1 = 2
  BY Doubling
<1>2. J = J * 1 + 0 /\ 0 \in 0 .. J - 1
  <2>. HIDE DEF J
  <2>. QED BY <1>1
<1>3. /\ \A k \in Nat : Bit(J, j + k) = Bit(1, k)
      /\ \A k \in 0 .. j - 1 : Bit(J, k) = Bit(0, k)
  <2>1. J \div J = 1 /\ J % J = 0
    <3>. HIDE DEF J
    <3>1. (J * 1 + 0) \div J = 1 /\ (J * 1 + 0) % J = 0
      BY <1>1, <1>2, DivisionUnique
    <3>. QED BY <1>2, <3>1
  <2>2. J \in Nat
    BY <1>1
  <2>3. ASSUME NEW k \in Nat PROVE Bit(J, j + k) = Bit(1, k)
    <3>1. Bit(J, j + k) = Bit(J \div 2^j, k)
      BY <2>2, BitHigh
    <3>. QED BY <2>1, <3>1
  <2>4. ASSUME NEW k \in 0 .. j - 1 PROVE Bit(J, k) = Bit(0, k)
    <3>1. Bit(J % 2^j, k) = Bit(J, k)
      BY <2>2, BitBelow
    <3>. QED BY <2>1, <3>1
  <2>. QED BY <2>3, <2>4
<1>4. CASE i = j
  <2>1. j + 0 = j /\ Bit(J, j + 0) = Bit(1, 0)
    BY <1>3
  <2>2. Bit(1, 0) = 1
    BY <1>1 DEF Bit
  <2>. QED BY <1>4, <2>1, <2>2
<1>5. CASE i > j
  <2>. DEFINE k == i - j
  <2>1. k \in Nat /\ 1 <= k /\ j + k = i /\ 1 \in 0 .. 2^1 - 1
    BY <1>1, <1>5
  <2>2. Bit(1, k) = 0
    BY <2>1, NoHighBit
  <2>. HIDE DEF J
  <2>3. Bit(J, j + k) = Bit(1, k)
    BY <1>3, <2>1
  <2>. QED BY <1>5, <2>1, <2>2, <2>3 DEF J
<1>6. CASE i < j
  <2>1. i \in 0 .. j - 1 /\ 0 \in 0 .. 2^0 - 1 /\ 0 <= i
    BY <1>1, <1>6
  <2>2. Bit(0, i) = 0
    BY <2>1, NoHighBit
  <2>. QED BY <1>3, <1>6, <2>1, <2>2
<1>. QED BY <1>4, <1>5, <1>6

\* Reversed, the bit of a power of two moves to the other end.
LEMMA ReversePower ==
    ASSUME NEW j \in 0 .. RB - 1
    PROVE  bitrev24(2^j) = 2^(RB - 1 - j)
<1>. DEFINE k == RB - 1 - j
            J == 2^j
            K == 2^k
            w == bitrev24(J)
<1>1. RB \in Nat /\ j \in Nat /\ k \in Nat /\ k + 1 \in 0 .. RB
  BY Space
<1>2. J \in Nat /\ K \in Nat \ {0} /\ 2^(k + 1) = 2 * K /\ 2^(k + 1) <= 2^RB /\ 2^RB \in Nat
  BY <1>1, Doubling, PowerDivides
<1>3. w \in 0 .. 2^RB - 1 /\ \A i \in 0 .. RB - 1 : Bit(w, i) = Bit(J, RB - 1 - i)
  BY <1>2, ReverseBits DEF Addr
<1>4. K \in 0 .. 2^RB - 1
  <2>. HIDE DEF K
  <2>. QED BY <1>2
<1>5. ASSUME NEW i \in 0 .. RB - 1 PROVE Bit(w, i) = Bit(K, i)
  <2>1. i \in Nat /\ RB - 1 - i \in Nat /\ (RB - 1 - i = j <=> i = k)
    BY <1>1
  <2>2. Bit(J, RB - 1 - i) = IF RB - 1 - i = j THEN 1 ELSE 0
    BY <1>1, <2>1, PowerBit
  <2>3. Bit(K, i) = IF i = k THEN 1 ELSE 0
    BY <1>1, <2>1, PowerBit
  <2>. QED BY <1>3, <2>1, <2>2, <2>3
<1>. HIDE DEF w, K
<1>6. w = K
  BY <1>1, <1>3, <1>4, <1>5, BitsUnique
<1>. QED BY <1>6 DEF w, K

\* Where the walk has counted to s, the pointer is at the origin plus the bits
\* of s reversed.
LEMMA WalkReached ==
    ASSUME NEW j \in 0 .. RB - 2, NEW o \in Addr, o % 2^(j + 1) = 0, NEW s \in Nat,
           NEW p, p = bitrev24((bitrev24(o) + s * 2^(RB - 1 - j)) % 2^RB)
    PROVE  /\ p - o \in 0 .. 2^(j + 1) - 1
           /\ \A i \in 0 .. j : Bit(p - o, i) = Bit(s, j - i)
<1>. DEFINE k == RB - 1 - j
            g == j + 1
            K == 2^k
            G == 2^g
            P == 2^RB
            b == bitrev24(o)
            c == s % G
            v == K * c + b
            f == [i \in 0 .. g - 1 |-> Bit(s, j - i)]
<1>1. /\ RB \in Nat /\ j \in Nat /\ k \in Nat /\ g \in Nat /\ k + g = RB
      /\ k \in 0 .. RB /\ g \in 0 .. RB
  BY Space
<1>2. K \in Nat \ {0} /\ G \in Nat \ {0} /\ P \in Nat \ {0} /\ P = K * G
  BY <1>1, Doubling, PowerSum
<1>3. o \in Nat /\ o \in Int /\ o \in 0 .. P - 1
  BY AddrNat DEF Addr
<1>4. b \in Addr /\ b \in 0 .. P - 1 /\ \A i \in 0 .. RB - 1 : Bit(b, i) = Bit(o, RB - 1 - i)
  BY <1>3, ReverseBits DEF Addr
\* The low bits of the origin are zero, so the high bits of b are.
<1>5. ASSUME NEW i \in 0 .. g - 1 PROVE Bit(o, i) = 0
  <2>1. Bit(o % 2^g, i) = Bit(o, i)
    BY <1>1, <1>3, BitBelow
  <2>2. 0 \in 0 .. 2^0 - 1 /\ i \in Nat /\ 0 <= i
    BY <1>1
  <2>3. Bit(0, i) = 0
    BY <2>2, NoHighBit
  <2>. QED BY <2>1, <2>3
<1>6. b \in 0 .. K - 1
  <2>. DEFINE u == b % K
  <2>1. b \in Int /\ b \in Nat
    BY <1>4, AddrNat
  <2>2. u \in 0 .. K - 1
    <3>. HIDE DEF K, b
    <3>. QED BY <1>2, <2>1, DivisionFacts
  <2>3. K <= P
    BY <1>1, PowerDivides
  <2>4. u \in 0 .. P - 1
    <3>. HIDE DEF K, P, u
    <3>. QED BY <1>2, <2>2, <2>3
  <2>5. ASSUME NEW i \in 0 .. RB - 1 PROVE Bit(b, i) = Bit(u, i)
    <3>1. CASE i < k
      <4>1. i \in 0 .. k - 1
        BY <1>1, <3>1
      <4>2. Bit(b % 2^k, i) = Bit(b, i)
        <5>. HIDE DEF b
        <5>. QED BY <1>1, <2>1, <4>1, BitBelow
      <4>. QED BY <4>2
    <3>2. CASE ~(i < k)
      <4>1. i \in Nat /\ k <= i /\ RB - 1 - i \in 0 .. g - 1
        BY <1>1, <3>2
      <4>2. Bit(u, i) = 0
        <5>. HIDE DEF u
        <5>. QED BY <1>1, <2>2, <4>1, NoHighBit
      <4>3. Bit(b, i) = 0
        BY <1>4, <1>5, <4>1
      <4>. QED BY <4>2, <4>3
    <3>. QED BY <3>1, <3>2
  <2>. HIDE DEF b, u
  <2>6. b = u
    BY <1>1, <1>4, <2>4, <2>5, BitsUnique
  <2>. QED BY <2>2, <2>6
\* In the reversed domain the count fills the high bits.
<1>7. c \in 0 .. G - 1 /\ c \in Nat
  <2>. HIDE DEF G
  <2>1. s \in Int /\ G \in Nat \ {0}
    BY <1>2
  <2>2. s % G \in 0 .. G - 1
    BY <2>1, DivisionFacts
  <2>. QED BY <2>1, <2>2
<1>8. (b + s * K) % P = v
  <2>. DEFINE q == s \div G
  <2>. HIDE DEF K, G, P, b
  <2>1. s \in Int
    OBVIOUS
  <2>2. q \in Int /\ s = G * q + c
    BY <1>2, <2>1, DivisionFacts
  <2>. HIDE DEF q, c
  <2>3. b + s * K = P * q + v
    <3>1. (G * q + c) * K = (K * G) * q + K * c
      BY <1>2, <1>7, <2>2, Z3
    <3>. DEFINE x == (K * G) * q
                y == K * c
    <3>2. x \in Int /\ y \in Int /\ b + s * K = b + (x + y) /\ P * q + v = x + (y + b)
      BY <1>2, <1>7, <2>2, <3>1
    <3>. HIDE DEF x, y
    <3>. QED BY <1>2, <1>6, <3>2
  <2>4. v \in 0 .. P - 1
    <3>1. K * (c + 1) <= K * G
      BY <1>2, <1>7, Z3
    <3>2. K * (c + 1) = K * c + K /\ K * c \in Nat
      BY <1>2, <1>7, Z3
    <3>. QED BY <1>2, <1>6, <3>1, <3>2
  <2>. HIDE DEF v
  <2>5. (P * q + v) % P = v
    BY <1>2, <2>2, <2>4, DivisionUnique
  <2>. QED BY <2>3, <2>5
<1>9. /\ v \in Nat
      /\ \A i \in Nat : Bit(v, k + i) = Bit(c, i)
      /\ \A i \in 0 .. k - 1 : Bit(v, i) = Bit(b, i)
  <2>1. K = 2^k /\ v = K * c + b
    OBVIOUS
  <2>. HIDE DEF v, k, b, c, K
  <2>2. v \in Nat
    <3>1. K * c \in Nat
      BY <1>2, <1>7
    <3>. QED BY <1>2, <1>6, <2>1, <3>1
  <2>3. v \div K = c /\ v % K = b
    <3>1. c \in Int
      BY <1>7
    <3>. QED BY <1>2, <1>6, <2>1, <3>1, DivisionUnique
  <2>4. ASSUME NEW i \in Nat PROVE Bit(v, k + i) = Bit(c, i)
    <3>1. Bit(v, k + i) = Bit(v \div 2^k, i)
      BY <1>1, <2>2, BitHigh
    <3>. QED BY <2>1, <2>3, <3>1
  <2>5. ASSUME NEW i \in 0 .. k - 1 PROVE Bit(v, i) = Bit(b, i)
    <3>1. Bit(v % 2^k, i) = Bit(v, i)
      BY <1>1, <2>2, BitBelow
    <3>. QED BY <2>1, <2>3, <3>1
  <2>. QED BY <2>2, <2>4, <2>5
<1>10. p = bitrev24(v)
  <2>. HIDE DEF v
  <2>. QED BY <1>8
<1>11. p \in 0 .. P - 1 /\ \A i \in 0 .. RB - 1 : Bit(p, i) = Bit(v, RB - 1 - i)
  <2>. HIDE DEF v
  <2>. QED BY <1>9, <1>10, ReverseBits DEF Addr
\* The pointer the property names.
<1>12. f \in [0 .. g - 1 -> {0, 1}]
  <2>1. ASSUME NEW i \in 0 .. g - 1 PROVE Bit(s, j - i) \in {0, 1}
    <3>1. j - i \in Nat /\ s \in Int
      BY <1>1
    <3>. QED BY <3>1, BitRange
  <2>. QED BY <2>1
<1>13. PICK t \in 0 .. 2^g - 1 : \A i \in 0 .. g - 1 : Bit(t, i) = f[i]
  <2>. HIDE DEF f, g
  <2>. QED BY <1>1, <1>12, BitsExist
<1>14. \A i \in 0 .. g - 1 : Bit(t, i) = Bit(s, j - i)
  BY <1>13
<1>. DEFINE d == o \div G
            w == o + t
<1>15. o = G * d /\ d \in Nat
  <2>. HIDE DEF G
  <2>1. o % G = 0
    BY DEF G
  <2>2. d \in Int /\ o = G * d + 0
    BY <1>2, <1>3, <2>1, DivisionFacts
  <2>. HIDE DEF d
  <2>3. d >= 0
    <3>1. CASE d < 0
      <4>1. G * d < 0 /\ G * d \in Int
        BY <1>2, <2>2, <3>1, Z3
      <4>. QED BY <1>3, <2>2, <4>1
    <3>. QED BY <2>2, <3>1
  <2>4. G * d \in Int
    BY <1>2, <2>2
  <2>. QED BY <2>2, <2>3, <2>4
<1>. HIDE DEF d
<1>16. /\ w \in Nat
       /\ \A i \in Nat : Bit(w, g + i) = Bit(d, i)
       /\ \A i \in 0 .. g - 1 : Bit(w, i) = Bit(t, i)
  <2>1. G = 2^g /\ w = G * d + t /\ t \in 0 .. G - 1
    BY <1>13, <1>15
  <2>. HIDE DEF w, g, G
  <2>2. w \in Nat
    <3>1. G * d \in Nat
      BY <1>2, <1>15
    <3>. QED BY <1>2, <2>1, <3>1
  <2>3. w \div G = d /\ w % G = t
    <3>1. d \in Int
      BY <1>15
    <3>. QED BY <1>2, <2>1, <3>1, DivisionUnique
  <2>4. ASSUME NEW i \in Nat PROVE Bit(w, g + i) = Bit(d, i)
    <3>1. Bit(w, g + i) = Bit(w \div 2^g, i)
      BY <1>1, <2>2, BitHigh
    <3>. QED BY <2>1, <2>3, <3>1
  <2>5. ASSUME NEW i \in 0 .. g - 1 PROVE Bit(w, i) = Bit(t, i)
    <3>1. Bit(w % 2^g, i) = Bit(w, i)
      BY <1>1, <2>2, BitBelow
    <3>. QED BY <2>1, <2>3, <3>1
  <2>. QED BY <2>2, <2>4, <2>5
<1>17. \A i \in Nat : Bit(o, g + i) = Bit(d, i)
  BY <1>1, <1>3, BitHigh DEF d
<1>18. w \in 0 .. P - 1
  <2>1. d < K
    <3>1. CASE d >= K
      <4>. HIDE DEF K, G, P
      <4>1. G * d >= K * G
        BY <1>2, <1>15, <3>1, Z3
      <4>. QED BY <1>2, <1>3, <1>15, <4>1
    <3>2. K \in Nat
      BY <1>2
    <3>. HIDE DEF K
    <3>. QED BY <1>15, <3>1, <3>2
  <2>2. t \in 0 .. G - 1
    BY <1>13
  <2>. HIDE DEF K, G, P
  <2>3. G * (d + 1) <= K * G
    BY <1>2, <1>15, <2>1, Z3
  <2>4. G * (d + 1) = G * d + G
    BY <1>2, <1>15, Z3
  <2>. QED BY <1>2, <1>3, <1>15, <2>2, <2>3, <2>4
<1>19. ASSUME NEW i \in 0 .. RB - 1 PROVE Bit(p, i) = Bit(w, i)
  <2>1. Bit(p, i) = Bit(v, RB - 1 - i)
    BY <1>11
  <2>. HIDE DEF v, w, b
  <2>2. CASE i < g
    <3>1. i \in 0 .. g - 1 /\ j - i \in Nat /\ RB - 1 - i = k + (j - i) /\ j - i \in 0 .. g - 1
      BY <1>1, <2>2
    <3>2. Bit(v, k + (j - i)) = Bit(c, j - i)
      BY <1>9, <3>1
    <3>3. Bit(s % 2^g, j - i) = Bit(s, j - i)
      BY <1>1, <3>1, BitBelow
    <3>4. Bit(w, i) = Bit(s, j - i)
      BY <1>14, <1>16, <3>1
    <3>. QED BY <2>1, <3>1, <3>2, <3>3, <3>4
  <2>3. CASE ~(i < g)
    <3>. DEFINE e == i - g
                l == RB - 1 - i
    <3>1. e \in Nat /\ i = g + e /\ l \in 0 .. k - 1 /\ l \in 0 .. RB - 1 /\ RB - 1 - l = i
      BY <1>1, <2>3
    <3>2. Bit(v, l) = Bit(b, l)
      BY <1>9, <3>1
    <3>3. Bit(b, l) = Bit(o, RB - 1 - l)
      BY <1>4, <3>1
    <3>4. Bit(o, g + e) = Bit(w, g + e)
      BY <1>16, <1>17, <3>1
    <3>. HIDE DEF l, e, g
    <3>5. Bit(p, i) = Bit(b, l)
      BY <2>1, <3>2 DEF l
    <3>. QED BY <3>1, <3>3, <3>4, <3>5
  <2>. QED BY <2>2, <2>3
<1>. HIDE DEF w
<1>20. p = w
  BY <1>1, <1>11, <1>18, <1>19, BitsUnique
<1>21. p - o = t
  <2>. HIDE DEF g
  <2>1. t \in Int
    BY <1>13
  <2>. QED BY <1>3, <1>20, <2>1 DEF w
<1>22. g - 1 = j
  BY <1>1
<1>. QED BY <1>13, <1>14, <1>21, <1>22

\* Steps of 2^j in bit-reverse mode count in the high bits.
WalkCounts == \A j \in 0 .. RB - 2 : m = 0 /\ walk /\ n = 2^j => net = steps * 2^(RB - 1 - j)

\* The count advances with every (Rn)+Nn and stops counting at any other step.
LEMMA WalkSteps ==
    ASSUME AguInv, WalkCounts, [Next]_vars
    PROVE  WalkCounts'
<1>. SUFFICES ASSUME NEW j \in 0 .. RB - 2, m' = 0, walk', n' = 2^j
              PROVE  net' = steps' * 2^(RB - 1 - j)
  BY DEF WalkCounts
<1>. DEFINE Q == 2^(RB - 1 - j)
            J == 2^j
<1>1. UNCHANGED <<n, m>>
  BY DEF Next, vars, PostNn, PostMinusNn, PostIncrement, PostDecrement, PostUpdate, NoUpdate,
         Indexed, PreDecrement, LuaUpdate, Lua
<1>2. RB - 1 - j \in Nat /\ j \in 0 .. RB - 1 /\ j \in Nat /\ RB \in Nat
  BY Space
<1>3. Q \in Nat \ {0} /\ J \in Nat \ {0} /\ J < 2^(RB - 1) /\ J < 2^RB
  <2>. DEFINE l == RB - 2 - j
              L == 2^l
              H == 2^(RB - 1)
  <2>1. l \in Nat /\ RB - 1 = j + (l + 1) /\ l + 1 \in Nat
    BY <1>2
  <2>2. 2^(l + 1) = 2 * L /\ L \in Nat \ {0} /\ J \in Nat \ {0} /\ Q \in Nat \ {0}
    BY <1>2, <2>1, Doubling
  <2>3. H = J * (2 * L)
    <3>1. 2^(j + (l + 1)) = 2^j * 2^(l + 1)
      BY <1>2, <2>1, PowerSum
    <3>. QED BY <2>1, <2>2, <3>1
  <2>4. H \in Nat \ {0} /\ 2^RB = 2 * H
    BY Space
  <2>. HIDE DEF J, H, L
  <2>5. J * (2 * L) >= 2 * J
    BY <2>2, Z3
  <2>6. J < H /\ J < 2 * H
    BY <2>2, <2>3, <2>4, <2>5
  <2>. QED BY <2>2, <2>4, <2>6 DEF H
<1>4. m = 0 /\ n = J /\ steps \in Nat /\ net \in Int
  BY <1>1 DEF AguInv, PointerFollowsNet, TypeOK
<1>5. load_nn_signed = J
  <2>. DEFINE H == 2^(RB - 1)
  <2>1. ~(J >= H)
    <3>1. H \in Nat
      BY Space
    <3>. HIDE DEF J, H
    <3>. QED BY <1>3, <3>1 DEF H
  <2>. QED BY <1>4, <2>1 DEF load_nn_signed
<1>6. Disp(J) = Q
  <2>1. Magnitude(J) = J /\ ~(J < 0)
    <3>. HIDE DEF J
    <3>. QED BY <1>3 DEF Magnitude
  <2>2. J % 2^RB = J
    <3>. DEFINE P == 2^RB
    <3>1. P \in Nat \ {0} /\ J \in 0 .. P - 1
      <4>1. P \in Nat \ {0} /\ J < P
        BY <1>3, Space
      <4>. HIDE DEF J, P
      <4>. QED BY <1>3, <4>1
    <3>. HIDE DEF J, P
    <3>2. (P * 0 + J) % P = J /\ P * 0 + J = J
      BY <3>1, DivisionUnique
    <3>. QED BY <3>2 DEF P
  <2>3. bitrev24(J) = Q
    BY <1>2, ReversePower
  <2>4. ReverseStep(J) = 1 * Q
    <3>. HIDE DEF J, Q
    <3>. QED BY <2>1, <2>2, <2>3, Zenon DEF ReverseStep
  <2>5. Disp(J) = ReverseStep(J)
    BY <1>4 DEF Disp
  <2>. HIDE DEF J, Q
  <2>. QED BY <1>3, <2>4, <2>5
<1>7. CASE PostNn
  <2>1. walk /\ net' = net + Disp(J) /\ steps' = steps + 1
    BY <1>5, <1>7 DEF PostNn, PostUpdate
  <2>2. net = steps * Q
    BY <1>4, <2>1 DEF WalkCounts
  <2>. HIDE DEF J, Q
  <2>3. (steps + 1) * Q = steps * Q + Q
    BY <1>3, <1>4, Z3
  <2>4. net' = steps' * Q
    BY <1>6, <2>1, <2>2, <2>3
  <2>. QED BY <2>4 DEF Q
<1>8. CASE ~PostNn
  <2>1. walk = walk' /\ net' = net /\ steps' = steps
    BY <1>8 DEF Next, vars, PostMinusNn, PostIncrement, PostDecrement, NoUpdate,
                Indexed, PreDecrement, LuaUpdate, Lua
  <2>. QED BY <1>1, <2>1 DEF WalkCounts
<1>. QED BY <1>7, <1>8

\* The rules of the mode hold in bit-reverse mode whatever N and the origin.
LEMMA ReverseDisciplined ==
    ASSUME TypeOK, m = 0
    PROVE  Disciplined
<1>. DEFINE C == 2^(MB - 1)
            P == 2^RB
<1>1. C \in Nat \ {0} /\ P \in Nat \ {0} /\ 2^(RB - 1) \in Nat \ {0} /\ m # Linear
  BY Space
<1>2. ~ IsMultiWrap(m)
  <2>. HIDE DEF C
  <2>1. (C * 0 + 0) \div C = 0 /\ C * 0 + 0 = 0
    BY <1>1, DivisionUnique
  <2>2. (0 \div C) % 4 # 2
    BY <2>1
  <2>. QED BY <2>2 DEF IsMultiWrap, C
<1>3. BlockSize = P
  BY Zenon DEF BlockSize
<1>4. BlockBase = 0
  BY <1>3 DEF BlockBase
<1>5. origin < P /\ origin \in Nat
  BY AddrNat DEF TypeOK
<1>6. origin < BlockBase + BlockSize
  <2>1. 0 + P = P
    <3>. HIDE DEF P
    <3>. QED BY <1>1
  <2>. QED BY <1>3, <1>4, <1>5, <2>1
<1>7. m < 2^(RB - 1)
  <2>. DEFINE H == 2^(RB - 1)
  <2>1. H \in Nat \ {0}
    BY <1>1
  <2>. HIDE DEF H
  <2>2. 0 < H
    BY <2>1
  <2>. QED BY <2>2 DEF H
<1>. QED BY <1>2, <1>6, <1>7 DEF Disciplined

\* For every width and every N = 2^j: a bit-reversed walk visits the points of
\* its table in bit-reversed order.
THEOREM WalkInOrder == Spec => []BitReverseOrder
<1>1. Init => WalkCounts
  <2>. SUFFICES ASSUME Init, NEW j \in 0 .. RB - 2
                PROVE  net = steps * 2^(RB - 1 - j)
    BY DEF WalkCounts
  <2>. DEFINE Q == 2^(RB - 1 - j)
  <2>1. RB - 1 - j \in Nat
    BY Space
  <2>2. Q \in Nat
    BY <2>1, Doubling
  <2>3. net = 0 /\ steps = 0
    BY DEF Init
  <2>. HIDE DEF Q
  <2>4. net = steps * Q
    BY <2>2, <2>3
  <2>. QED BY <2>4 DEF Q
<1>2. AguInv /\ WalkCounts => BitReverseOrder
  <2>. SUFFICES ASSUME AguInv, WalkCounts, NEW j \in 0 .. RB - 2,
                       m = 0, walk, n = 2^j, origin % 2^(j + 1) = 0
                PROVE  /\ r - origin \in 0 .. 2^(j + 1) - 1
                       /\ \A i \in 0 .. j : Bit(r - origin, i) = Bit(steps, j - i)
    BY DEF BitReverseOrder
  <2>1. TypeOK /\ PointerFollowsNet
    BY DEF AguInv, PointerFollowsNet
  <2>2. origin \in Addr /\ steps \in Nat
    BY <2>1, AguAssumption DEF TypeOK
  <2>3. r = Reached(net)
    BY <2>1, ReverseDisciplined DEF PointerFollowsNet
  <2>4. net = steps * 2^(RB - 1 - j)
    BY DEF WalkCounts
  <2>5. r = bitrev24((bitrev24(origin) + steps * 2^(RB - 1 - j)) % 2^RB)
    BY <2>3, <2>4 DEF Reached
  <2>. QED BY <2>2, <2>5, WalkReached
<1>3. AguInv /\ WalkCounts /\ [Next]_vars => WalkCounts'
  BY WalkSteps
<1>. QED BY Starts, Steps, <1>1, <1>2, <1>3, PTL DEF Spec
====
