-------------------------- MODULE InstructionsProofs --------------------------
(***************************************************************************)
(* The theorems of moves, memory and control, for every word width, every  *)
(* memory map, every program of encodable instructions: what changes in    *)
(* program memory is marked dirty, the stack holds the frames of the calls *)
(* in progress, and the program goes on at the instruction that is next,   *)
(* in single steps and in blocks.                                          *)
(*                                                                         *)
(* First numbers; then memory, where the fast path is shown to be the      *)
(* region walk; then the operators of Moves, each with what it changes and *)
(* what it keeps; then the emitters and the inductive invariant.           *)
(***************************************************************************)
EXTENDS Instructions, TLAPS, FiniteSetTheorems, FunctionTheorems, SequenceTheorems,
        WellFoundedInduction

-------------------------------------------------------------------------------
(* Powers of two, division, bits.                                          *)

\* A nonempty set of naturals has a least element: induction, for provers that
\* cannot instantiate an induction scheme.
LEMMA NatMinimum ==
    ASSUME NEW S \in SUBSET Nat, S # {}
    PROVE  \E x \in S : \A y \in S : x <= y
<1>1. PICK x \in S : \A y \in S : ~(<<y, x>> \in OpToRel(<, Nat))
  BY NatLessThanWellFounded, WFMin
<1>2. \A y \in S : ~(y < x)
  BY <1>1, Zenon DEF OpToRel
<1>. QED BY <1>2

\* 2^(k+1) is twice 2^k: the subsets of k + 1 elements are those without the
\* last element and those with it.
LEMMA Doubling ==
    ASSUME NEW k \in Nat
    PROVE  2^k \in Nat \ {0} /\ 2^(k + 1) = 2 * 2^k
<1>. DEFINE S == 1 .. k
            x == k + 1
            A == SUBSET S
            D == {T \cup {x} : T \in A}
            f == [T \in A |-> T \cup {x}]
<1>1. IsFiniteSet(S) /\ Cardinality(S) = k /\ x \notin S
  BY FS_Interval
<1>2. IsFiniteSet(A) /\ Cardinality(A) = 2^k
  BY <1>1, FS_SUBSET
<1>3. S \cup {x} = 1 .. k + 1
  OBVIOUS
<1>4. IsFiniteSet(1 .. k + 1) /\ Cardinality(1 .. k + 1) = k + 1
  BY FS_Interval
<1>5. Cardinality(SUBSET (1 .. k + 1)) = 2^(k + 1)
  BY <1>4, FS_SUBSET
<1>6. SUBSET (S \cup {x}) = A \cup D
  <2>1. ASSUME NEW T \in SUBSET (S \cup {x}) PROVE T \in A \cup D
    <3>1. CASE x \in T
      <4>1. T \ {x} \in A /\ T = (T \ {x}) \cup {x}
        BY <3>1
      <4>. QED BY <4>1
    <3>2. CASE x \notin T
      BY <3>2
    <3>. QED BY <3>1, <3>2
  <2>2. ASSUME NEW T \in A \cup D PROVE T \in SUBSET (S \cup {x})
    OBVIOUS
  <2>. QED BY <2>1, <2>2
<1>7. A \cap D = {}
  BY <1>1
<1>8. f \in Bijection(A, D)
  <2>1. f \in [A -> D] /\ \A T \in D : \E U \in A : f[U] = T
    OBVIOUS
  <2>2. ASSUME NEW T \in A, NEW U \in A, f[T] = f[U] PROVE T = U
    <3>1. T \cup {x} = U \cup {x} /\ x \notin T /\ x \notin U
      BY <1>1, <2>2
    <3>. QED BY <3>1
  <2>. QED BY <2>1, <2>2 DEF Bijection, Injection, Surjection, IsInjective
<1>9. IsFiniteSet(D) /\ Cardinality(D) = Cardinality(A)
  BY <1>2, <1>8, FS_Bijection DEF ExistsBijection
<1>10. Cardinality(A \cup D) = Cardinality(A) + Cardinality(D) - Cardinality(A \cap D)
  BY <1>2, <1>9, FS_Union, Zenon
<1>11. Cardinality(A \cap D) = 0
  BY <1>7, FS_EmptySet, Zenon
<1>12. Cardinality(A) \in Nat /\ Cardinality(A) # 0
  <2>1. A # {}
    OBVIOUS
  <2>. QED BY <1>2, <2>1, FS_CardinalityType, FS_EmptySet, Zenon
<1>13. Cardinality(A \cup D) = 2^(k + 1)
  BY <1>3, <1>5, <1>6, Zenon
<1>. DEFINE a == Cardinality(A)
            b == Cardinality(D)
            u == Cardinality(A \cup D)
<1>14. u = a + b - 0 /\ b = a /\ a \in Nat \ {0}
  BY <1>9, <1>10, <1>11, <1>12
<1>15. a = 2^k /\ u = 2^(k + 1)
  BY <1>2, <1>13
<1>. HIDE DEF a, b, u
<1>16. u = 2 * a
  BY <1>14
<1>. QED BY <1>14, <1>15, <1>16

\* Division with remainder.
LEMMA DivisionFacts ==
    ASSUME NEW a \in Int, NEW K \in Nat \ {0}
    PROVE  /\ a \div K \in Int /\ a % K \in 0 .. K - 1
           /\ a = K * (a \div K) + (a % K)
BY Z3

\* The quotient and the remainder are the only ones.
LEMMA DivisionUnique ==
    ASSUME NEW K \in Nat \ {0}, NEW q \in Int, NEW s \in 0 .. K - 1
    PROVE  (K * q + s) \div K = q /\ (K * q + s) % K = s
<1>. DEFINE a == K * q + s
            p == a \div K
            t == a % K
<1>1. a \in Int
  OBVIOUS
<1>. HIDE DEF a
<1>2. p \in Int /\ t \in 0 .. K - 1 /\ a = K * p + t
  BY <1>1, DivisionFacts
<1>. HIDE DEF p, t
<1>3. K * (p - q) = s - t
  BY <1>2 DEF a
<1>4. p - q < 1 /\ p - q > -1
  <2>1. CASE p - q >= 1
    <3>1. K * (p - q) >= K
      BY <1>2, <2>1, Z3
    <3>. QED BY <1>2, <1>3, <3>1
  <2>2. CASE p - q <= -1
    <3>1. K * (p - q) <= -K
      BY <1>2, <2>2, Z3
    <3>. QED BY <1>2, <1>3, <3>1
  <2>. QED BY <1>2, <2>1, <2>2
<1>5. p = q
  BY <1>2, <1>4
<1>6. t = s
  BY <1>2, <1>3, <1>5
<1>. QED BY <1>5, <1>6 DEF p, t, a

\* Powers of two multiply.
LEMMA PowerSum ==
    ASSUME NEW a \in Nat, NEW b \in Nat
    PROVE  2^(a + b) = 2^a * 2^b
<1>. DEFINE S == {k \in Nat : 2^(a + k) # 2^a * 2^k}
<1>1. SUFFICES ASSUME S # {} PROVE FALSE
  OBVIOUS
<1>2. PICK k \in S : \A j \in S : k <= j
  BY <1>1, NatMinimum
<1>3. k \in Nat /\ 2^(a + k) # 2^a * 2^k
  OBVIOUS
<1>4. 2^a \in Nat /\ 2^0 = 1 /\ a + 0 = a
  BY Doubling
<1>5. ASSUME k = 0 PROVE FALSE
  <2>1. 2^(a + 0) # 2^a * 2^0
    BY <1>3, <1>5
  <2>2. 2^(a + 0) = 2^a
    BY <1>4
  <2>. DEFINE A == 2^a
  <2>3. A * 1 = A
    BY <1>4
  <2>. QED BY <1>4, <2>1, <2>2, <2>3
<1>. DEFINE j == k - 1
<1>6. j \in Nat /\ k = j + 1 /\ a + k = (a + j) + 1
  BY <1>3, <1>5
<1>7. 2^(a + j) = 2^a * 2^j
  BY <1>2, <1>6
<1>8. /\ 2^((a + j) + 1) = 2 * 2^(a + j) /\ 2^(j + 1) = 2 * 2^j
      /\ 2^j \in Nat /\ 2^(a + j) \in Nat
  BY <1>6, Doubling
<1>. DEFINE A == 2^a
            J == 2^j
            T == 2^(a + j)
<1>9. T = A * J /\ A \in Nat /\ J \in Nat /\ T \in Nat
  BY <1>4, <1>7, <1>8
<1>10. 2^(a + k) = 2 * T /\ 2^k = 2 * J
  BY <1>6, <1>8
<1>. HIDE DEF A, J, T
<1>11. 2 * T = A * (2 * J)
  BY <1>9, Z3
<1>. QED BY <1>3, <1>10, <1>11 DEF A

\* A bit is 0 or 1.
LEMMA BitRange ==
    ASSUME NEW v \in Int, NEW i \in Nat
    PROVE  Bit(v, i) \in {0, 1}
<1>. DEFINE I == 2^i
            q == v \div I
<1>1. I \in Nat \ {0}
  BY Doubling
<1>. HIDE DEF I
<1>2. q \in Int
  BY <1>1, DivisionFacts
<1>. HIDE DEF q
<1>3. q % 2 \in {0, 1}
  BY <1>2
<1>. QED BY <1>3 DEF Bit, q, I

\* The powers the widths stand for.
LEMMA Widths ==
    /\ W \in Nat /\ EXT \in Nat /\ N \in Nat /\ N - 1 \in Nat /\ W - 1 \in Nat /\ EXT - 1 \in Nat
    /\ 2^W \in Nat \ {0} /\ 2^EXT \in Nat \ {0} /\ 2^N \in Nat \ {0}
    /\ 2^(2 * W) \in Nat \ {0} /\ 2^(W - 1) \in Nat \ {0} /\ 2^(2 * W - 1) \in Nat \ {0}
    /\ 2^(2 * W) = 2^W * 2^W
    /\ 2^N = 2^EXT * 2^(2 * W)
    /\ 2^W = 2 * 2^(W - 1) /\ 2^(2 * W) = 2 * 2^(2 * W - 1)
<1>1. /\ W \in Nat /\ EXT \in Nat /\ N \in Nat /\ N - 1 \in Nat /\ W - 1 \in Nat /\ EXT - 1 \in Nat
      /\ 2 * W \in Nat /\ 2 * W - 1 \in Nat /\ 2 * W = W + W /\ N = EXT + 2 * W
      /\ (W - 1) + 1 = W /\ (2 * W - 1) + 1 = 2 * W
  BY WidthAssumption DEF N
<1>2. /\ 2^W \in Nat \ {0} /\ 2^EXT \in Nat \ {0} /\ 2^N \in Nat \ {0}
      /\ 2^(2 * W) \in Nat \ {0} /\ 2^(W - 1) \in Nat \ {0} /\ 2^(2 * W - 1) \in Nat \ {0}
  BY <1>1, Doubling
<1>3. 2^(2 * W) = 2^W * 2^W /\ 2^N = 2^EXT * 2^(2 * W)
  <2>1. 2^(W + W) = 2^W * 2^W
    BY <1>1, PowerSum
  <2>2. 2^(EXT + 2 * W) = 2^EXT * 2^(2 * W)
    BY <1>1, PowerSum
  <2>. QED BY <1>1, <2>1, <2>2
<1>4. 2^((W - 1) + 1) = 2 * 2^(W - 1) /\ 2^((2 * W - 1) + 1) = 2 * 2^(2 * W - 1)
  BY <1>1, Doubling
<1>5. 2^W = 2 * 2^(W - 1) /\ 2^(2 * W) = 2 * 2^(2 * W - 1)
  BY <1>1, <1>4
<1>. QED BY <1>1, <1>2, <1>3, <1>5

\* Masks cut to the width and keep what fits.
LEMMA Masks ==
    /\ \A v \in Int : mask24(v) \in Word /\ mask56(v) \in Acc
    /\ \A v \in Word : mask24(v) = v
    /\ \A v \in Word : v \in Nat /\ v < 2^W
    /\ \A v \in Acc : v \in Nat /\ v < 2^N
    /\ Word \subseteq Int /\ 0 \in Word /\ 1 \in Word /\ 0 \in Acc
<1>. DEFINE M == 2^W
            K == 2^N
            H == 2^(W - 1)
<1>1. M \in Nat \ {0} /\ K \in Nat \ {0} /\ H \in Nat \ {0} /\ M = 2 * H
  BY Widths
<1>2. Word = 0 .. M - 1 /\ Acc = 0 .. K - 1
  BY DEF Word, Acc
<1>3. \A v : mask24(v) = v % M /\ mask56(v) = v % K
  BY DEF mask24, mask56
<1>. HIDE DEF M, K, H
<1>4. \A v \in Int : v % M \in 0 .. M - 1 /\ v % K \in 0 .. K - 1
  BY <1>1, DivisionFacts
<1>5. ASSUME NEW v \in 0 .. M - 1 PROVE v % M = v
  <2>1. (M * 0 + v) % M = v
    BY <1>1, DivisionUnique
  <2>2. M * 0 + v = v
    BY <1>1
  <2>. QED BY <2>1, <2>2
<1>6. /\ \A v \in 0 .. M - 1 : v \in Nat /\ v < M
      /\ \A v \in 0 .. K - 1 : v \in Nat /\ v < K
      /\ 0 .. M - 1 \subseteq Int /\ 0 \in 0 .. M - 1 /\ 1 \in 0 .. M - 1 /\ 0 \in 0 .. K - 1
  BY <1>1
<1>. QED BY <1>2, <1>3, <1>4, <1>5, <1>6 DEF M, K

\* A signed value is an integer.
LEMMA SignedInt ==
    ASSUME NEW v \in Int, NEW w \in Nat, w >= 1
    PROVE  Signed(v, w) \in Int
<1>1. 2^w \in Nat
  BY Doubling
<1>. DEFINE K == 2^w
<1>2. K \in Nat
  BY <1>1
<1>. HIDE DEF K
<1>3. v - K \in Int
  BY <1>2
<1>. QED BY <1>3 DEF Signed, K

\* The three parts of an accumulator.
Exts == 0 .. 2^EXT - 1
\* The parts of an accumulator are words and an extension.
LEMMA Parts ==
    ASSUME NEW a \in Acc
    PROVE  /\ extract_acc_lo(a) \in Word /\ extract_acc_mid(a) \in Word
           /\ extract_acc_hi(a) \in Exts
<1>. DEFINE M == 2^W
            D == 2^(2 * W)
            X == 2^EXT
            q == a \div D
            r == a % D
<1>1. M \in Nat \ {0} /\ D \in Nat \ {0} /\ X \in Nat \ {0} /\ a \in Nat /\ a < X * D
  <2>1. a \in Nat /\ a < 2^N
    BY Masks
  <2>. QED BY <2>1, Widths
<1>2. extract_acc_hi(a) = q /\ Exts = 0 .. X - 1
  BY DEF extract_acc_hi, Exts
<1>3. extract_acc_lo(a) = mask24(a) /\ extract_acc_mid(a) = mask24(a \div M)
  BY DEF extract_acc_lo, extract_acc_mid
<1>. HIDE DEF M, D, X
<1>4. q \in Int /\ r \in 0 .. D - 1 /\ a = D * q + r /\ a \div M \in Int
  BY <1>1, DivisionFacts
<1>. HIDE DEF q, r
<1>5. q >= 0
  <2>. SUFFICES ASSUME q <= -1 PROVE FALSE
    BY <1>4
  <2>1. D * q <= -D
    BY <1>1, <1>4, Z3
  <2>. QED BY <1>1, <1>4, <2>1
<1>6. q < X
  <2>. SUFFICES ASSUME q >= X PROVE FALSE
    BY <1>1, <1>4
  <2>1. D * q >= X * D
    BY <1>1, <1>4, Z3
  <2>. QED BY <1>1, <1>4, <2>1
<1>. QED BY <1>1, <1>2, <1>3, <1>4, <1>5, <1>6, Masks

\* Extensions are naturals.
LEMMA ExtsInt == Exts \subseteq Nat
<1>. DEFINE X == 2^EXT
<1>1. X \in Nat /\ Exts = 0 .. X - 1
  BY Widths DEF Exts
<1>. HIDE DEF X
<1>. QED BY <1>1

\* Packing three parts gives an accumulator.
LEMMA Packed ==
    ASSUME NEW h \in Exts, NEW u \in Word, NEW v \in Word
    PROVE  pack_acc(h, u, v) \in Acc
<1>. DEFINE M == 2^W
            D == 2^(2 * W)
            X == 2^EXT
<1>1. M \in Nat \ {0} /\ D \in Nat \ {0} /\ X \in Nat \ {0} /\ D = M * M /\ 2^N = X * D
  BY Widths
<1>2. h \in 0 .. X - 1 /\ u \in 0 .. M - 1 /\ v \in 0 .. M - 1
  BY DEF Exts, Word
<1>3. pack_acc(h, u, v) = h * D + u * M + v /\ Acc = 0 .. (X * D) - 1
  BY <1>1 DEF pack_acc, Acc
<1>. HIDE DEF M, D, X
<1>4. u * M <= (M - 1) * M /\ u * M >= 0
  BY <1>1, <1>2, Z3
<1>5. (M - 1) * M = M * M - M
  BY <1>1, Z3
<1>6. h * D <= (X - 1) * D /\ h * D >= 0
  BY <1>1, <1>2, Z3
<1>7. (X - 1) * D = X * D - D
  BY <1>1, Z3
<1>. DEFINE a == u * M
            b == h * D
            p == X * D
            z == M * M
<1>8. a \in Int /\ b \in Int /\ p \in Int /\ z \in Int
  BY <1>1, <1>2
<1>9. a <= z - M /\ a >= 0 /\ b <= p - D /\ b >= 0 /\ D = z
  BY <1>1, <1>4, <1>5, <1>6, <1>7
<1>. HIDE DEF a, b, p, z
<1>10. b + a + v \in 0 .. p - 1
  BY <1>1, <1>2, <1>8, <1>9
<1>. QED BY <1>3, <1>10 DEF a, b, p

\* A word in an accumulator.
LEMMA WordToAcc ==
    ASSUME NEW v \in Int
    PROVE  val24_to_acc56(v) \in Acc
<1>1. sext24(v) \in Int
  BY SignedInt, WidthAssumption DEF sext24
<1>2. 2^W \in Int
  BY Widths
<1>3. sext24(v) * 2^W \in Int
  BY <1>1, <1>2
<1>. QED BY <1>3, Masks DEF val24_to_acc56

\* The saturated value is an accumulator, the marker a bit.
LEMMA Saturated ==
    ASSUME NEW sr, NEW a \in Acc
    PROVE  jit_saturate_sm(sr, a).val \in Acc /\ jit_saturate_sm(sr, a).sat \in {0, 1}
<1>. DEFINE X == 2^EXT
            D == 2^(2 * W)
            Y == 2^(2 * W - 1)
            K == 2^N
<1>1. X \in Nat \ {0} /\ D \in Nat \ {0} /\ Y \in Nat \ {0} /\ D = 2 * Y /\ K = X * D /\ Acc = 0 .. K - 1
  BY Widths DEF Acc
<1>. HIDE DEF X, D, Y, K
<1>2. X * D >= D
  BY <1>1, Z3
<1>. DEFINE p == X * D
<1>3. p \in Int /\ p >= D /\ K = p
  BY <1>1, <1>2
<1>. HIDE DEF p
<1>4. K - Y \in 0 .. K - 1 /\ Y - 1 \in 0 .. K - 1
  BY <1>1, <1>3
<1>. QED BY <1>1, <1>4 DEF jit_saturate_sm, K, Y

\* One bit of a word, cleared, set or toggled, gives a word.
LEMMA BitChanged ==
    ASSUME NEW v \in Word, NEW bit \in 0 .. W - 1, NEW bop \in BitOps \ {"Test"}
    PROVE  apply_bit_op(v, bit, bop) \in Word
<1>. DEFINE P == 2^bit
            M == 2^W
            K == 2^(W - 1 - bit)
            q == v \div P
            r == v % P
            b == q % 2
            h == q \div 2
<1>1. W \in Nat /\ bit \in Nat /\ bit + 1 \in Nat /\ W - 1 - bit \in Nat
      /\ (bit + 1) + (W - 1 - bit) = W
  BY WidthAssumption
<1>2. P \in Nat \ {0} /\ M \in Nat \ {0} /\ K \in Nat \ {0} /\ 2^(bit + 1) = 2 * P
  BY <1>1, Doubling
<1>3. M = (2 * P) * K
  <2>1. 2^((bit + 1) + (W - 1 - bit)) = 2^(bit + 1) * 2^(W - 1 - bit)
    BY <1>1, PowerSum
  <2>. QED BY <1>1, <1>2, <2>1
<1>4. v \in 0 .. M - 1 /\ Word = 0 .. M - 1
  BY DEF Word
<1>5. Bit(v, bit) = b
  BY DEF Bit
<1>6. \A x : apply_bit_op(v, bit, x) =
        CASE x = "Clear" -> v - Bit(v, bit) * P
          [] x = "Set" -> v - Bit(v, bit) * P + P
          [] x = "Toggle" -> v - Bit(v, bit) * P + (1 - Bit(v, bit)) * P
  BY DEF apply_bit_op
<1>. HIDE DEF P, M, K
<1>7. q \in Int /\ r \in 0 .. P - 1 /\ v = P * q + r
  BY <1>2, <1>4, DivisionFacts
<1>. HIDE DEF q, r
<1>8. h \in Int /\ b \in {0, 1} /\ q = 2 * h + b
  BY <1>7, DivisionFacts
<1>. HIDE DEF h, b
<1>9. v = (2 * P) * h + b * P + r
  BY <1>2, <1>7, <1>8, Z3
<1>10. h >= 0 /\ h < K
  <2>1. CASE h <= -1
    <3>1. (2 * P) * h <= -(2 * P)
      BY <1>2, <1>8, <2>1, Z3
    <3>2. b * P <= P
      BY <1>2, <1>8
    <3>. DEFINE x == (2 * P) * h
                y == b * P
    <3>3. x \in Int /\ y \in Int /\ v = x + y + r /\ x <= -(2 * P) /\ y <= P
      BY <1>2, <1>8, <1>9, <3>1, <3>2
    <3>. HIDE DEF x, y
    <3>. QED BY <1>2, <1>4, <1>7, <3>3
  <2>2. CASE h >= K
    <3>1. (2 * P) * h >= (2 * P) * K
      BY <1>2, <1>8, <2>2, Z3
    <3>2. b * P >= 0
      BY <1>2, <1>8
    <3>. DEFINE x == (2 * P) * h
                y == b * P
    <3>3. x \in Int /\ y \in Int /\ v = x + y + r /\ x >= M /\ y >= 0
      BY <1>2, <1>3, <1>8, <1>9, <3>1, <3>2
    <3>. HIDE DEF x, y
    <3>. QED BY <1>2, <1>4, <1>7, <3>3
  <2>. QED BY <1>2, <1>8, <2>1, <2>2
<1>. DEFINE x == (2 * P) * h
            y == b * P
<1>11. x >= 0 /\ x <= M - 2 * P /\ x \in Int
  <2>1. (2 * P) * h >= 0 /\ (2 * P) * h <= (2 * P) * (K - 1)
    BY <1>2, <1>8, <1>10, Z3
  <2>2. (2 * P) * (K - 1) = (2 * P) * K - 2 * P
    BY <1>2, Z3
  <2>. QED BY <1>2, <1>3, <1>8, <2>1, <2>2
<1>12. v = x + y + r /\ y \in {0, P} /\ (1 - b) * P \in {0, P}
  BY <1>2, <1>8, <1>9
<1>. HIDE DEF x, y
<1>13. /\ v - y \in 0 .. M - 1 /\ v - y + P \in 0 .. M - 1
       /\ v - y + (1 - b) * P \in 0 .. M - 1
  <2>1. v - y \in 0 .. M - 1 /\ v - y + P \in 0 .. M - 1
    BY <1>2, <1>4, <1>7, <1>11, <1>12
  <2>. QED BY <1>2, <1>12, <2>1
<1>14. bop \in {"Clear", "Set", "Toggle"}
  BY DEF BitOps
<1>. QED BY <1>4, <1>5, <1>6, <1>13, <1>14 DEF y

-------------------------------------------------------------------------------
(* The status register.                                                    *)

\* t has the modes of s, and its L bit is that of s unless x set it.
Flags(s, t, x) == /\ s \in Srs /\ t \in Srs
                  /\ t.s1 = s.s1 /\ t.s0 = s.s0 /\ t.sm = s.sm
                  /\ (t.L = 1) <=> (s.L = 1 \/ x)

\* The deferred kinds leave L alone but for an overflow.
LEMMA FlagOps ==
    ASSUME NEW s \in Srs
    PROVE  /\ \A a \in Int : Flags(s, jit_update_nz(s, a), FALSE)
           /\ \A o : Flags(s, or_vl(s, o), o = 1) /\ Flags(s, set_vl_overflow(s, o), o = 1)
           /\ \A c \in {0, 1} : Flags(s, set_carry(s, c), FALSE)
<1>1. ASSUME NEW a \in Int PROVE Flags(s, jit_update_nz(s, a), FALSE)
  <2>1. Bit(a, N - 1) \in {0, 1}
    BY Widths, BitRange
  <2>. DEFINE top == CASE Scaling(s) = 1 -> 2 * W
                       [] Scaling(s) = 2 -> 2 * W - 2
                       [] OTHER -> 2 * W - 1
              e == B(Scaling(s) # 3 /\ ~ Uniform(a, N - 1, top))
              u == B(Scaling(s) # 3 /\ Uniform(a, top, top - 1))
              n == Bit(a, N - 1)
              z == B(a = 0)
  <2>2. e \in {0, 1} /\ u \in {0, 1} /\ n \in {0, 1} /\ z \in {0, 1}
    BY <2>1 DEF B
  <2>3. jit_update_nz(s, a) = [s EXCEPT !.E = e, !.U = u, !.N = n, !.Z = z]
    BY DEF jit_update_nz
  <2>. HIDE DEF e, u, n, z
  <2>. QED BY <2>2, <2>3 DEF Flags, Srs
<1>2. ASSUME NEW o PROVE Flags(s, or_vl(s, o), o = 1) /\ Flags(s, set_vl_overflow(s, o), o = 1)
  BY DEF Flags, Srs, or_vl, set_vl_overflow
<1>3. ASSUME NEW c \in {0, 1} PROVE Flags(s, set_carry(s, c), FALSE)
  BY DEF Flags, Srs, set_carry
<1>. QED BY <1>1, <1>2, <1>3

\* The overflow of an addition, by the signs.
SignOverflow(src, dst, raw) ==
    /\ Bit(src, N - 1) # Bit(mask56(raw), N - 1)
    /\ Bit(dst, N - 1) # Bit(mask56(raw), N - 1)

\* An addition keeps the modes; an overflow or a saturation sets L.
LEMMA AddFlags ==
    ASSUME NEW s \in Srs, NEW res \in Int, NEW src \in Int, NEW dst \in Int, NEW raw \in Int,
           NEW sat
    PROVE  Flags(s, AluAddSub(s, res, src, dst, raw, FALSE, sat),
                 SignOverflow(src, dst, raw) \/ sat = 1)
<1>. DEFINE a == jit_update_nz(s, res)
            o == B(Bit(src, N - 1) # Bit(mask56(raw), N - 1)
                   /\ Bit(dst, N - 1) # Bit(mask56(raw), N - 1))
            c == Bit(raw, N)
            b == set_carry(a, c)
            d == set_vl_overflow(b, o)
            e == or_vl(d, sat)
<1>1. AluAddSub(s, res, src, dst, raw, FALSE, sat) = e
  BY DEF AluAddSub, update_vcl
<1>2. c \in {0, 1}
  BY Widths, BitRange
<1>3. (o = 1) <=> SignOverflow(src, dst, raw)
  BY DEF B, SignOverflow
<1>. HIDE DEF a, b, c, d, e, o
<1>4. Flags(s, a, FALSE)
  BY FlagOps DEF a
<1>5. Flags(a, b, FALSE)
  <2>1. a \in Srs
    BY <1>4 DEF Flags
  <2>. QED BY <1>2, <2>1, FlagOps DEF b
<1>6. Flags(b, d, o = 1)
  <2>1. b \in Srs
    BY <1>5 DEF Flags
  <2>. QED BY <2>1, FlagOps DEF d
<1>7. Flags(d, e, sat = 1)
  <2>1. d \in Srs
    BY <1>6 DEF Flags
  <2>. QED BY <2>1, FlagOps DEF e
<1>. QED BY <1>1, <1>3, <1>4, <1>5, <1>6, <1>7 DEF Flags

\* Reading an accumulator as a word sets L if the limiter worked.
LEMMA LimiterRead ==
    ASSUME NEW s \in Srs, NEW a \in Acc
    PROVE  /\ jit_read_accu24(s, a).val \in Word
           /\ Flags(s, jit_read_accu24(s, a).sr, jit_read_accu24(s, a).limited)
<1>. DEFINE a2 == extract_acc_hi(a)
            a1 == extract_acc_mid(a)
            combined == a2 * 2^W + a1
            pre == CASE Scaling(s) = 1 -> combined \div 2
                     [] Scaling(s) = 2 -> combined * 2 + Bit(extract_acc_lo(a), W - 1)
                     [] OTHER -> combined
            r == jit_read_accu24(s, a)
<1>1. combined \in Int
  <2>1. a2 \in Exts /\ a1 \in Word
    BY Parts
  <2>2. 2^W \in Int
    BY Widths
  <2>. HIDE DEF a1, a2
  <2>3. a2 \in Int
    BY <2>1, ExtsInt
  <2>4. a1 \in Int
    BY <2>1, Masks
  <2>. QED BY <2>2, <2>3, <2>4
<1>2. Bit(extract_acc_lo(a), W - 1) \in Int
  <2>1. extract_acc_lo(a) \in Int /\ W - 1 \in Nat
    BY Parts, Masks, Widths
  <2>. QED BY <2>1, BitRange
<1>3. pre \in Int
  <2>1. combined \div 2 \in Int /\ combined * 2 + Bit(extract_acc_lo(a), W - 1) \in Int
    BY <1>1, <1>2
  <2>. QED BY <1>1, <2>1
<1>4. mask24(pre) \in Word
  BY <1>3, Masks
<1>5. 2^(W - 1) \in Word /\ 2^(W - 1) - 1 \in Word
  BY Widths DEF Word
<1>6. r.val \in Word
  <2>1. r.val \in {mask24(pre), 2^(W - 1), 2^(W - 1) - 1}
    BY DEF jit_read_accu24
  <2>. QED BY <1>4, <1>5, <2>1
<1>7. \E l, q : /\ r.sr = [s EXCEPT !.L = IF l THEN @ ELSE 1, !.S = IF q THEN @ ELSE 1]
                /\ r.limited = ~l
  BY DEF jit_read_accu24
<1>. HIDE DEF r
<1>8. Flags(s, r.sr, r.limited)
  BY <1>7 DEF Flags, Srs
<1>. QED BY <1>6, <1>8 DEF r

-------------------------------------------------------------------------------
(* Memory.                                                                 *)

Bufs == [DOMAIN Sizes -> [0 .. 7 -> Int]]
Logs == Seq({"read", "write"} \X Spaces \X Word)
Mems == [buf : Bufs, dev : [Spaces -> [Word -> Int]], dirty : SUBSET Word, log : Logs]

\* The region walk finds the first region that holds the address, or none.
LEMMA Lookup ==
    ASSUME NEW map, IsMap(map), NEW space \in Spaces, NEW addr \in Int
    PROVE  LET rs == map[space]
               rg == lookup(rs, addr)
           IN  /\ rg = NoRegion \/ (IsRegion(rg) /\ Inside(rg, addr))
               /\ rg = NoRegion => \A k \in DOMAIN rs : ~Inside(rs[k], addr)
               /\ 1 \in DOMAIN rs /\ Inside(rs[1], addr) => rg = rs[1]
<1>. DEFINE rs == map[space]
            hits == {k \in DOMAIN rs : Inside(rs[k], addr)}
            rg == lookup(rs, addr)
            f == CHOOSE k \in hits : \A j \in hits : k <= j
<1>1. /\ Len(rs) \in Nat /\ DOMAIN rs = 1 .. Len(rs)
      /\ \A k \in DOMAIN rs : IsRegion(rs[k])
  BY DEF IsMap
<1>2. rg = IF hits = {} THEN NoRegion ELSE rs[f]
  BY DEF lookup
<1>3. ASSUME hits # {} PROVE f \in hits /\ \A j \in hits : f <= j
  <2>1. hits \in SUBSET Nat
    BY <1>1
  <2>. HIDE DEF hits
  <2>2. \E k \in hits : \A j \in hits : k <= j
    BY <1>3, <2>1, NatMinimum
  <2>. QED BY <2>2
<1>. HIDE DEF f
<1>4. CASE hits = {}
  <2>1. rg = NoRegion
    BY <1>2, <1>4
  <2>2. \A k \in DOMAIN rs : ~Inside(rs[k], addr)
    BY <1>4
  <2>. QED BY <2>1, <2>2
<1>5. CASE hits # {}
  <2>1. rg = rs[f] /\ f \in DOMAIN rs /\ Inside(rs[f], addr) /\ IsRegion(rs[f])
    BY <1>1, <1>2, <1>3, <1>5
  <2>2. IsRegion(rs[f]) => rs[f] # NoRegion
    BY DEF IsRegion, Regions, NoRegion
  <2>3. ASSUME 1 \in DOMAIN rs, Inside(rs[1], addr) PROVE f = 1
    <3>1. 1 \in hits /\ f \in 1 .. Len(rs)
      BY <1>1, <2>1, <2>3
    <3>. QED BY <1>1, <1>3, <1>5, <3>1
  <2>. QED BY <2>1, <2>2, <2>3
<1>. QED BY <1>4, <1>5

\* A buffer's word lies in its array.
LEMMA InArray ==
    ASSUME NEW rg, IsRegion(rg), rg.kind = "Buffer", NEW addr \in Int, Inside(rg, addr)
    PROVE  rg.base \in DOMAIN Sizes /\ addr - rg.start + rg.offset \in 0 .. 7
<1>1. rg.start \in Int /\ rg.offset \in Nat /\ rg.end \in Int
  <2>1. 2^W \in Int
    BY Widths
  <2>. QED BY <2>1 DEF IsRegion, Regions
<1>2. rg.base \in DOMAIN Sizes /\ rg.end - rg.start + rg.offset <= Sizes[rg.base]
  BY DEF IsRegion
<1>3. \A b \in DOMAIN Sizes : Sizes[b] = 8
  BY DEF Sizes
<1>. QED BY <1>1, <1>2, <1>3 DEF Inside

\* The clamped load is the region walk, for every map: an address in the RAM is
\* not clamped, any other is looked up or has no region.
LEMMA Clamped ==
    ASSUME NEW addr \in Nat, NEW end \in Nat, addr < end
    PROVE  clamped_index(addr, end) = addr
<1>1. addr % end = addr
  BY DivisionUnique, Z3
<1>. QED BY <1>1 DEF clamped_index

\* Where the fast path hits, the region walk finds the same element; where it
\* misses and the space has one region, the walk finds none.
LEMMA Ram ==
    ASSUME NEW map, IsMap(map), NEW space \in Spaces, NEW addr \in Word
    PROVE  LET ram == ram_region(map[space])
               rg == lookup(map[space], addr)
           IN  /\ ram # NoRegion /\ addr < ram.end =>
                    /\ rg = ram /\ rg.kind = "Buffer"
                    /\ clamped_index(addr, ram.end) + ram.offset = addr - rg.start + rg.offset
               /\ ram # NoRegion /\ addr >= ram.end /\ Len(map[space]) = 1 => rg = NoRegion
               /\ ram # NoRegion => Len(map[space]) \in Nat /\ Len(map[space]) >= 1 /\ ram.end \in Nat
<1>. DEFINE rs == map[space]
            ram == ram_region(rs)
            rg == lookup(rs, addr)
<1>. SUFFICES ASSUME ram # NoRegion
              PROVE  /\ addr < ram.end =>
                          /\ rg = ram /\ rg.kind = "Buffer"
                          /\ clamped_index(addr, ram.end) + ram.offset = addr - rg.start + rg.offset
                     /\ addr >= ram.end /\ Len(rs) = 1 => rg = NoRegion
                     /\ Len(rs) \in Nat /\ Len(rs) >= 1 /\ ram.end \in Nat
  OBVIOUS
<1>1. /\ Len(rs) \in Nat /\ DOMAIN rs = 1 .. Len(rs)
      /\ \A k \in DOMAIN rs : IsRegion(rs[k])
  BY DEF IsMap
<1>2. rs # << >> /\ ram = rs[1] /\ rs[1].kind = "Buffer" /\ rs[1].start = 0
  BY DEF ram_region
<1>3. 1 \in DOMAIN rs /\ Len(rs) >= 1
  <2>1. rs \in Seq(Regions) /\ rs # << >>
    BY <1>2 DEF IsMap
  <2>. QED BY <1>1, <2>1
<1>4. IsRegion(ram) /\ ram.end \in Nat /\ ram.offset \in Nat /\ ram.start = 0
  BY <1>1, <1>2, <1>3, Widths DEF IsRegion, Regions
<1>5. addr \in Nat /\ addr \in Int
  BY Masks
<1>6. ASSUME addr < ram.end
      PROVE  /\ rg = ram /\ rg.kind = "Buffer"
             /\ clamped_index(addr, ram.end) + ram.offset = addr - rg.start + rg.offset
  <2>1. Inside(rs[1], addr)
    BY <1>2, <1>4, <1>5, <1>6 DEF Inside
  <2>2. rg = rs[1]
    BY <1>3, <1>5, <2>1, Lookup
  <2>3. clamped_index(addr, ram.end) = addr
    BY <1>4, <1>5, <1>6, Clamped
  <2>. QED BY <1>2, <1>4, <1>5, <2>2, <2>3
<1>7. ASSUME addr >= ram.end, Len(rs) = 1 PROVE rg = NoRegion
  <2>1. ~Inside(rs[1], addr) /\ DOMAIN rs = {1}
    BY <1>1, <1>2, <1>4, <1>5, <1>7 DEF Inside
  <2>2. rg = NoRegion \/ \E k \in DOMAIN rs : Inside(rs[k], addr)
    BY <2>1 DEF lookup
  <2>. QED BY <2>1, <2>2
<1>. QED BY <1>1, <1>3, <1>4, <1>6, <1>7

\* The load from the clamped element, used when the address was in range, is the
\* region walk of read_memory for every map and address.
LEMMA FastRead ==
    ASSUME NEW map, IsMap(map), NEW m, NEW space \in Spaces, NEW addr \in Word
    PROVE  read_mem_dyn(map, m, space, addr) = read_memory(map, m, space, addr)
<1>. DEFINE ram == ram_region(map[space])
            rg == lookup(map[space], addr)
            n == Len(map[space])
            hit == m.buf[ram.base][clamped_index(addr, ram.end) + ram.offset]
<1>1. /\ ram # NoRegion /\ addr < ram.end =>
           /\ rg = ram /\ rg.kind = "Buffer"
           /\ clamped_index(addr, ram.end) + ram.offset = addr - rg.start + rg.offset
      /\ ram # NoRegion /\ addr >= ram.end /\ n = 1 => rg = NoRegion
      /\ ram # NoRegion => ram.end \in Nat
  BY Ram
<1>2. read_mem_dyn(map, m, space, addr) =
        CASE ram = NoRegion -> read_memory(map, m, space, addr)
          [] ram # NoRegion /\ addr < ram.end -> [val |-> mask24(hit), m |-> m]
          [] ram # NoRegion /\ addr >= ram.end /\ n = 1 -> [val |-> 0, m |-> m]
          [] OTHER -> read_memory(map, m, space, addr)
  BY DEF read_mem_dyn
<1>3. read_memory(map, m, space, addr) =
        CASE rg.kind = "Buffer" ->
               [val |-> mask24(m.buf[rg.base][addr - rg.start + rg.offset]), m |-> m]
          [] rg.kind = "Callback" -> DeviceRead(m, space, addr)
          [] OTHER -> [val |-> 0, m |-> m]
  BY DEF read_memory
<1>4. addr \in Nat
  BY Masks
<1>5. NoRegion.kind = "none"
  BY DEF NoRegion
<1>. HIDE DEF ram, rg, n
<1>6. CASE ram = NoRegion
  BY <1>2, <1>6
<1>7. CASE ram # NoRegion /\ addr < ram.end
  <2>1. read_mem_dyn(map, m, space, addr) = [val |-> mask24(hit), m |-> m]
    BY <1>1, <1>2, <1>4, <1>7
  <2>2. read_memory(map, m, space, addr)
          = [val |-> mask24(m.buf[rg.base][addr - rg.start + rg.offset]), m |-> m]
    BY <1>1, <1>3, <1>7
  <2>. QED BY <1>1, <1>7, <2>1, <2>2
<1>8. CASE ram # NoRegion /\ addr >= ram.end
  <2>1. CASE n = 1
    BY <1>1, <1>2, <1>3, <1>4, <1>5, <1>8, <2>1
  <2>2. CASE n # 1
    BY <1>1, <1>2, <1>4, <1>8, <2>2
  <2>. QED BY <2>1, <2>2
<1>. QED BY <1>1, <1>4, <1>6, <1>7, <1>8

\* The store to the clamped element or the sink, and the walk behind a miss, are
\* the one store of write_memory.
LEMMA FastWrite ==
    ASSUME NEW map, IsMap(map), NEW m, NEW space \in DataSpaces, NEW addr \in Word, NEW v
    PROVE  write_mem_dyn(map, m, space, addr, v) = write_memory(map, m, space, addr, v)
<1>. DEFINE ram == ram_region(map[space])
            rg == lookup(map[space], addr)
            n == Len(map[space])
            hit(k) == [m EXCEPT !.buf[ram.base][k] = mask24(v)]
            store == [m EXCEPT !.buf[rg.base][addr - rg.start + rg.offset] = mask24(v)]
<1>0. space \in Spaces /\ space # "P"
  BY DEF DataSpaces, Spaces
<1>1. /\ ram # NoRegion /\ addr < ram.end =>
           /\ rg = ram /\ rg.kind = "Buffer"
           /\ clamped_index(addr, ram.end) + ram.offset = addr - rg.start + rg.offset
      /\ ram # NoRegion /\ addr >= ram.end /\ n = 1 => rg = NoRegion
      /\ ram # NoRegion => ram.end \in Nat /\ n \in Nat /\ n >= 1
  BY <1>0, Ram
<1>2. write_mem_dyn(map, m, space, addr, v) =
        CASE space = "P" -> jit_write_mem_p(map, m, addr, v)
          [] space # "P" /\ ram = NoRegion -> write_memory(map, m, space, addr, v)
          [] space # "P" /\ ram # NoRegion /\ addr < ram.end ->
               hit(clamped_index(addr, ram.end) + ram.offset)
          [] space # "P" /\ ram # NoRegion /\ addr >= ram.end /\ n > 1 ->
               write_memory(map, m, space, addr, v)
          [] OTHER -> m
  BY DEF write_mem_dyn
<1>3. write_memory(map, m, space, addr, v) =
        CASE rg.kind = "Buffer" -> store
          [] rg.kind = "Callback" -> DeviceWrite(m, space, addr, mask24(v))
          [] OTHER -> m
  BY DEF write_memory
<1>4. addr \in Nat
  BY Masks
<1>5. NoRegion.kind = "none"
  BY DEF NoRegion
<1>6. ram # NoRegion /\ addr < ram.end => hit(clamped_index(addr, ram.end) + ram.offset) = store
  BY <1>1
<1>. HIDE DEF ram, rg, n, hit, store
<1>7. CASE ram = NoRegion
  BY <1>0, <1>2, <1>7
<1>8. CASE ram # NoRegion /\ addr < ram.end
  BY <1>0, <1>1, <1>2, <1>3, <1>4, <1>6, <1>8
<1>9. CASE ram # NoRegion /\ addr >= ram.end
  <2>1. CASE n = 1
    BY <1>0, <1>1, <1>2, <1>3, <1>4, <1>5, <1>9, <2>1
  <2>2. CASE n # 1
    BY <1>0, <1>1, <1>2, <1>4, <1>9, <2>2
  <2>. QED BY <2>1, <2>2
<1>. QED BY <1>1, <1>4, <1>7, <1>8, <1>9

\* The element the fast path loads lies in the array, whatever the address.
LEMMA ClampInside ==
    ASSUME NEW map, IsMap(map), NEW space \in Spaces, NEW addr \in Word,
           ram_region(map[space]) # NoRegion, ram_region(map[space]).end > 0
    PROVE  LET ram == ram_region(map[space])
           IN  clamped_index(addr, ram.end) + ram.offset \in 0 .. Sizes[ram.base] - 1
<1>. DEFINE ram == ram_region(map[space])
            c == clamped_index(addr, ram.end)
<1>1. map[space] \in Seq(Regions) /\ \A k \in DOMAIN map[space] : IsRegion(map[space][k])
  BY DEF IsMap
<1>2. ram = map[space][1] /\ map[space] # <<>> /\ ram.kind = "Buffer" /\ ram.start = 0
  BY DEF ram_region
<1>3. 1 \in DOMAIN map[space]
  BY <1>1, <1>2
<1>4. IsRegion(ram)
  BY <1>1, <1>2, <1>3
<1>. HIDE DEF ram
<1>5. ram.end \in Nat /\ ram.offset \in Nat
  <2>1. 2^W \in Nat
    BY Widths
  <2>. QED BY <1>4, <2>1 DEF IsRegion, Regions
<1>6. ram.base \in DOMAIN Sizes /\ ram.end - ram.start + ram.offset <= Sizes[ram.base]
  BY <1>2, <1>4 DEF IsRegion
<1>7. Sizes[ram.base] \in Nat
  BY <1>6 DEF Sizes
<1>8. addr \in Nat /\ ram.end > 0
  BY Masks DEF ram
<1>9. c \in 0 .. ram.end - 1
  <2>1. addr % ram.end \in 0 .. ram.end - 1
    BY <1>5, <1>8, Z3
  <2>. QED BY <1>5, <1>8, <2>1 DEF clamped_index
<1>. HIDE DEF c
<1>10. c + ram.offset \in 0 .. Sizes[ram.base] - 1
  <2>. DEFINE e == ram.end
              o == ram.offset
              z == Sizes[ram.base]
  <2>1. ram.start = 0
    BY <1>2
  <2>2. e \in Nat /\ o \in Nat /\ z \in Nat /\ c \in 0 .. e - 1
    BY <1>5, <1>7, <1>9
  <2>3. e - 0 + o <= z
    BY <1>6, <2>1
  <2>. HIDE DEF e, o, z
  <2>4. c + o \in 0 .. z - 1
    BY <2>2, <2>3
  <2>. QED BY <2>4 DEF o, z
<1>. QED BY <1>10 DEF ram, c

\* Computed addresses: for every map, space and address, the unconditional load
\* through the clamped index with its fallbacks (read_mem_dyn) is the region walk,
\* the store through the clamped index or the sink (write_mem_dyn) is the one store
\* of the walk, and neither reaches outside the array, provided the RAM has a word.
THEOREM FastPathExact ==
    ASSUME NEW map, IsMap(map), NEW m, NEW space \in Spaces, NEW addr \in Word, NEW v
    PROVE  LET ram == ram_region(map[space])
           IN  /\ read_mem_dyn(map, m, space, addr) = read_memory(map, m, space, addr)
               /\ space # "P" =>
                    write_mem_dyn(map, m, space, addr, v) = write_memory(map, m, space, addr, v)
               /\ ram # NoRegion /\ ram.end > 0 =>
                    clamped_index(addr, ram.end) + ram.offset \in 0 .. Sizes[ram.base] - 1
<1>1. read_mem_dyn(map, m, space, addr) = read_memory(map, m, space, addr)
  BY FastRead
<1>2. ASSUME space # "P"
      PROVE  write_mem_dyn(map, m, space, addr, v) = write_memory(map, m, space, addr, v)
  <2>1. space \in DataSpaces
    BY <1>2 DEF Spaces, DataSpaces
  <2>. QED BY <2>1, FastWrite
<1>. QED BY <1>1, <1>2, ClampInside

\* A read yields a word and changes nothing but the log of the devices.
ReadOk(m, r) == /\ r.val \in Word /\ r.m \in Mems
                /\ r.m.buf = m.buf /\ r.m.dev = m.dev /\ r.m.dirty = m.dirty

\* A read yields a word and changes nothing but the log of device accesses.
LEMMA ReadMemory ==
    ASSUME NEW map, IsMap(map), NEW m \in Mems, NEW space \in Spaces, NEW addr \in Word
    PROVE  ReadOk(m, read_memory(map, m, space, addr))
<1>. DEFINE rg == lookup(map[space], addr)
            r == read_memory(map, m, space, addr)
            k == addr - rg.start + rg.offset
<1>. SUFFICES ReadOk(m, r)
  OBVIOUS
<1>1. addr \in Int /\ 0 \in Word
  BY Masks
<1>2. rg = NoRegion \/ (IsRegion(rg) /\ Inside(rg, addr))
  BY <1>1, Lookup
<1>3. r = CASE rg.kind = "Buffer" -> [val |-> mask24(m.buf[rg.base][k]), m |-> m]
            [] rg.kind = "Callback" -> DeviceRead(m, space, addr)
            [] OTHER -> [val |-> 0, m |-> m]
  BY DEF read_memory
<1>4. NoRegion.kind = "none"
  BY DEF NoRegion
<1>. HIDE DEF rg, r
<1>5. CASE rg.kind = "Buffer"
  <2>1. rg.base \in DOMAIN Sizes /\ k \in 0 .. 7
    BY <1>1, <1>2, <1>4, <1>5, InArray
  <2>. HIDE DEF k
  <2>2. m.buf[rg.base][k] \in Int
    BY <2>1 DEF Mems, Bufs
  <2>3. mask24(m.buf[rg.base][k]) \in Word
    BY <2>2, Masks
  <2>. QED BY <1>3, <1>5, <2>3 DEF ReadOk
<1>6. CASE rg.kind = "Callback"
  <2>1. m.dev[space][addr] \in Int
    BY DEF Mems
  <2>2. mask24(m.dev[space][addr]) \in Word
    BY <2>1, Masks
  <2>3. <<"read", space, addr>> \in {"read", "write"} \X Spaces \X Word
    OBVIOUS
  <2>4. m.log \in Logs
    BY DEF Mems
  <2>5. Append(m.log, <<"read", space, addr>>) \in Logs
    BY <2>3, <2>4 DEF Logs
  <2>6. r = [val |-> mask24(m.dev[space][addr]),
             m |-> [m EXCEPT !.log = Append(@, <<"read", space, addr>>)]]
    BY <1>3, <1>6 DEF DeviceRead
  <2>. QED BY <2>2, <2>5, <2>6 DEF Mems, ReadOk
<1>7. CASE rg.kind \notin {"Buffer", "Callback"}
  BY <1>1, <1>3, <1>7 DEF ReadOk
<1>. QED BY <1>5, <1>6, <1>7

\* The word of storage a write reaches.
Reaches(map, space, addr, b, k) ==
    LET rg == lookup(map[space], addr)
    IN  rg.kind = "Buffer" /\ rg.base = b /\ addr - rg.start + rg.offset = k
Answers(map, space, addr) == lookup(map[space], addr).kind = "Callback"

\* A write changes one word of one array, or one device register.
WriteOk(map, m, space, addr, n) ==
    /\ n \in Mems /\ n.dirty = m.dirty
    /\ \A b \in DOMAIN Sizes, k \in 0 .. 7 :
         ~Reaches(map, space, addr, b, k) => n.buf[b][k] = m.buf[b][k]
    /\ \A sp \in Spaces, a \in Word :
         ~(sp = space /\ a = addr /\ Answers(map, space, addr)) => n.dev[sp][a] = m.dev[sp][a]

\* write_memory is such a write, for every map, space and address.
LEMMA WriteMemory ==
    ASSUME NEW map, IsMap(map), NEW m \in Mems, NEW space \in Spaces, NEW addr \in Word,
           NEW v \in Int
    PROVE  WriteOk(map, m, space, addr, write_memory(map, m, space, addr, v))
<1>. DEFINE rg == lookup(map[space], addr)
            n == write_memory(map, m, space, addr, v)
            j == addr - rg.start + rg.offset
            z == mask24(v)
<1>. SUFFICES WriteOk(map, m, space, addr, n)
  OBVIOUS
<1>1. addr \in Int /\ z \in Word /\ z \in Int /\ mask24(z) = z
  BY Masks
<1>2. rg = NoRegion \/ (IsRegion(rg) /\ Inside(rg, addr))
  BY <1>1, Lookup
<1>3. n = CASE rg.kind = "Buffer" -> [m EXCEPT !.buf[rg.base][j] = z]
            [] rg.kind = "Callback" -> DeviceWrite(m, space, addr, z)
            [] OTHER -> m
  BY DEF write_memory
<1>4. NoRegion.kind = "none"
  BY DEF NoRegion
<1>5. /\ \A b, k : Reaches(map, space, addr, b, k) <=> rg.kind = "Buffer" /\ rg.base = b /\ j = k
      /\ Answers(map, space, addr) <=> rg.kind = "Callback"
  BY DEF Reaches, Answers
<1>. HIDE DEF rg, n, z
<1>6. CASE rg.kind = "Buffer"
  <2>1. rg.base \in DOMAIN Sizes /\ j \in 0 .. 7
    BY <1>1, <1>2, <1>4, <1>6, InArray
  <2>. HIDE DEF j
  <2>2. n = [m EXCEPT !.buf[rg.base][j] = z]
    BY <1>3, <1>6
  <2>3. m.buf \in Bufs /\ n.buf = [m.buf EXCEPT ![rg.base][j] = z] /\ n.dev = m.dev
        /\ n.dirty = m.dirty /\ n.log = m.log
    BY <2>2 DEF Mems
  <2>4. n.buf \in Bufs
    BY <1>1, <2>1, <2>3 DEF Bufs
  <2>5. n \in Mems
    BY <2>2, <2>3, <2>4 DEF Mems
  <2>6. ASSUME NEW b \in DOMAIN Sizes, NEW k \in 0 .. 7, ~Reaches(map, space, addr, b, k)
        PROVE  n.buf[b][k] = m.buf[b][k]
    <3>1. b # rg.base \/ k # j
      BY <1>5, <1>6, <2>6
    <3>. QED BY <2>1, <2>3, <3>1 DEF Bufs
  <2>. QED BY <2>3, <2>5, <2>6 DEF WriteOk
<1>7. CASE rg.kind = "Callback"
  <2>1. n = [m EXCEPT !.log = Append(@, <<"write", space, addr>>), !.dev[space][addr] = z]
    BY <1>3, <1>7 DEF DeviceWrite
  <2>2. <<"write", space, addr>> \in {"read", "write"} \X Spaces \X Word /\ m.log \in Logs
    BY DEF Mems
  <2>3. Append(m.log, <<"write", space, addr>>) \in Logs
    BY <2>2 DEF Logs
  <2>4. /\ m.dev \in [Spaces -> [Word -> Int]] /\ n.dev = [m.dev EXCEPT ![space][addr] = z]
        /\ n.buf = m.buf /\ n.dirty = m.dirty /\ n.log = Append(m.log, <<"write", space, addr>>)
    BY <2>1 DEF Mems
  <2>5. n.dev \in [Spaces -> [Word -> Int]]
    BY <1>1, <2>4
  <2>6. n \in Mems
    BY <2>1, <2>3, <2>4, <2>5 DEF Mems
  <2>7. ASSUME NEW sp \in Spaces, NEW a \in Word, ~(sp = space /\ a = addr)
        PROVE  n.dev[sp][a] = m.dev[sp][a]
    BY <2>4, <2>7
  <2>. QED BY <1>5, <1>7, <2>4, <2>6, <2>7 DEF WriteOk
<1>8. CASE rg.kind \notin {"Buffer", "Callback"}
  BY <1>3, <1>8 DEF WriteOk
<1>. QED BY <1>6, <1>7, <1>8

\* P space ends inside the address range.
LEMMA ProgramEnd ==
    ASSUME NEW map, IsMap(map)
    PROVE  p_space_end(map) \in 0 .. 2^W
<1>. DEFINE M == 2^W
            rs == map["P"]
            E == {rs[k].end : k \in DOMAIN rs}
            S == {M - e : e \in E}
<1>1. M \in Nat /\ rs \in Seq(Regions)
  BY Widths DEF IsMap, Spaces
<1>2. ASSUME NEW k \in DOMAIN rs PROVE rs[k].end \in 0 .. M
  <2>1. rs[k] \in Regions
    BY <1>1
  <2>. QED BY <2>1 DEF Regions
<1>3. p_space_end(map) = IF rs = << >> THEN 0
                         ELSE CHOOSE e \in E : \A k \in DOMAIN rs : rs[k].end <= e
  BY DEF p_space_end
<1>. HIDE DEF M
<1>4. CASE rs = << >>
  BY <1>1, <1>3, <1>4 DEF M
<1>5. CASE rs # << >>
  <2>1. 1 \in DOMAIN rs
    BY <1>1, <1>5
  <2>2. E # {} /\ E \subseteq 0 .. M
    BY <1>2, <2>1
  <2>. HIDE DEF E
  <2>8. S # {} /\ S \in SUBSET Nat
    <3>1. \A e \in E : M - e \in Nat
      BY <1>1, <2>2
    <3>2. \E e \in E : M - e \in S
      BY <2>2
    <3>. QED BY <3>1, <3>2
  <2>3. PICK x \in S : \A y \in S : x <= y
    <3>. HIDE DEF S
    <3>. QED BY <2>8, NatMinimum
  <2>4. PICK e \in E : x = M - e
    BY <2>3
  <2>5. ASSUME NEW k \in DOMAIN rs PROVE rs[k].end <= e
    <3>1. rs[k].end \in E /\ M - rs[k].end \in S
      BY DEF E
    <3>2. x <= M - rs[k].end
      BY <2>3, <3>1
    <3>. DEFINE d == rs[k].end
    <3>3. d \in 0 .. M /\ e \in 0 .. M /\ M - e <= M - d
      BY <1>2, <2>2, <2>4, <3>2
    <3>. HIDE DEF d
    <3>4. d <= e
      BY <1>1, <3>3
    <3>. QED BY <3>4 DEF d
  <2>6. (CHOOSE d \in E : \A k \in DOMAIN rs : rs[k].end <= d) \in E
    BY <2>4, <2>5
  <2>7. p_space_end(map) \in E
    BY <1>3, <1>5, <2>6
  <2>. QED BY <2>2, <2>7 DEF M
<1>. QED BY <1>4, <1>5

\* What a program sees at an address of P space.
PView(map, m, a) == read_memory(map, m, "P", a).val

\* A program address reads the same when the word behind it did not change.
LEMMA ViewSame ==
    ASSUME NEW map, IsMap(map), NEW m \in Mems, NEW n \in Mems, NEW a \in Word,
           \A b \in DOMAIN Sizes, k \in 0 .. 7 :
             Reaches(map, "P", a, b, k) => n.buf[b][k] = m.buf[b][k],
           Answers(map, "P", a) => n.dev["P"][a] = m.dev["P"][a]
    PROVE  PView(map, n, a) = PView(map, m, a)
<1>. DEFINE rg == lookup(map["P"], a)
            k == a - rg.start + rg.offset
<1>1. a \in Int /\ "P" \in Spaces
  BY Masks DEF Spaces
<1>2. rg = NoRegion \/ (IsRegion(rg) /\ Inside(rg, a))
  BY <1>1, Lookup
<1>3. \A x : PView(map, x, a) = CASE rg.kind = "Buffer" -> mask24(x.buf[rg.base][k])
                                  [] rg.kind = "Callback" -> mask24(x.dev["P"][a])
                                  [] OTHER -> 0
  BY DEF PView, read_memory, DeviceRead
<1>4. NoRegion.kind = "none"
  BY DEF NoRegion
<1>5. /\ \A b, j : Reaches(map, "P", a, b, j) <=> rg.kind = "Buffer" /\ rg.base = b /\ k = j
      /\ Answers(map, "P", a) <=> rg.kind = "Callback"
  BY DEF Reaches, Answers
<1>. HIDE DEF rg
<1>6. CASE rg.kind = "Buffer"
  <2>1. rg.base \in DOMAIN Sizes /\ k \in 0 .. 7
    BY <1>1, <1>2, <1>4, <1>6, InArray
  <2>. HIDE DEF k
  <2>2. n.buf[rg.base][k] = m.buf[rg.base][k]
    BY <1>5, <1>6, <2>1
  <2>. QED BY <1>3, <1>6, <2>2
<1>7. CASE rg.kind = "Callback"
  BY <1>3, <1>5, <1>7
<1>8. CASE rg.kind \notin {"Buffer", "Callback"}
  BY <1>3, <1>8
<1>. QED BY <1>6, <1>7, <1>8

\* From m to n no mark is lost, and what changed in P space is marked.
Marked(map, m, n) ==
    /\ m.dirty \subseteq n.dirty
    /\ \A a \in 0 .. p_space_end(map) - 1 :
         PView(map, n, a) # PView(map, m, a) => a \in n.dirty

\* Two marked changes in a row are one.
LEMMA MarkedTrans ==
    ASSUME NEW map, NEW l, NEW m, NEW n, Marked(map, l, m), Marked(map, m, n)
    PROVE  Marked(map, l, n)
BY DEF Marked

\* Where nothing changed there is nothing to mark.
LEMMA MarkedSame ==
    ASSUME NEW map, NEW m, NEW n, n.buf = m.buf, n.dev = m.dev, n.dirty = m.dirty
    PROVE  Marked(map, m, n)
<1>1. \A a : PView(map, n, a) = PView(map, m, a)
  BY DEF PView, read_memory, DeviceRead
<1>. QED BY <1>1 DEF Marked

\* The configured program addresses are words.
LEMMA ProgramWord ==
    ASSUME NEW map, IsMap(map), NEW a \in 0 .. p_space_end(map) - 1
    PROVE  a \in Word
<1>. DEFINE M == 2^W
            e == p_space_end(map)
<1>1. e \in 0 .. M /\ M \in Nat /\ Word = 0 .. M - 1 /\ a \in 0 .. e - 1
  BY ProgramEnd, Widths DEF Word
<1>. HIDE DEF M, e
<1>. QED BY <1>1

\* A store to X or Y leaves program memory as it is.
LEMMA DataWrite ==
    ASSUME NEW map, IsMap(map), NEW m \in Mems, NEW space \in DataSpaces, NEW addr \in Word,
           NEW v \in Int, Apart(map)
    PROVE  Marked(map, m, write_memory(map, m, space, addr, v))
<1>. DEFINE n == write_memory(map, m, space, addr, v)
<1>1. space \in Spaces /\ space # "P" /\ "P" \in Spaces
  BY DEF DataSpaces, Spaces
<1>2. WriteOk(map, m, space, addr, n)
  BY <1>1, WriteMemory
<1>. SUFFICES Marked(map, m, n)
  OBVIOUS
<1>. HIDE DEF n
<1>3. ASSUME NEW a \in Word PROVE PView(map, n, a) = PView(map, m, a)
  <2>1. ASSUME NEW b \in DOMAIN Sizes, NEW k \in 0 .. 7, Reaches(map, "P", a, b, k)
        PROVE  n.buf[b][k] = m.buf[b][k]
    <3>1. ~Reaches(map, space, addr, b, k)
      BY <1>1, <2>1 DEF Apart, Reaches
    <3>. QED BY <1>2, <3>1 DEF WriteOk
  <2>2. n.dev["P"][a] = m.dev["P"][a]
    BY <1>1, <1>2 DEF WriteOk
  <2>3. n \in Mems
    BY <1>2 DEF WriteOk
  <2>. QED BY <2>1, <2>2, <2>3, ViewSame
<1>4. n.dirty = m.dirty
  BY <1>2 DEF WriteOk
<1>. QED BY <1>3, <1>4, ProgramWord DEF Marked

\* A store to P space marks the word it changes.
LEMMA ProgramWrite ==
    ASSUME NEW map, IsMap(map), NEW m \in Mems, NEW addr \in Word, NEW v \in Int
    PROVE  /\ jit_write_mem_p(map, m, addr, v) \in Mems
           /\ Apart(map) => Marked(map, m, jit_write_mem_p(map, m, addr, v))
<1>. DEFINE old == read_memory(map, m, "P", addr)
            z == mask24(v)
            w == write_memory(map, old.m, "P", addr, z)
            n == [w EXCEPT !.dirty = mark_dirty(map, @, addr)]
            r == jit_write_mem_p(map, m, addr, v)
<1>. SUFFICES r \in Mems /\ (Apart(map) => Marked(map, m, r))
  OBVIOUS
<1>1. "P" \in Spaces /\ z \in Int
  BY Masks DEF Spaces
<1>2. ReadOk(m, old)
  BY <1>1, ReadMemory
<1>3. old.m \in Mems
  BY <1>2 DEF ReadOk
<1>4. WriteOk(map, old.m, "P", addr, w)
  BY <1>1, <1>3, WriteMemory
<1>5. r = IF old.val = z THEN old.m ELSE n
  BY DEF jit_write_mem_p
<1>. HIDE DEF old, z, w, r
<1>6. Marked(map, m, old.m)
  BY <1>2, MarkedSame DEF ReadOk
<1>7. w \in Mems /\ n \in Mems /\ n.buf = w.buf /\ n.dev = w.dev
      /\ n.dirty = mark_dirty(map, w.dirty, addr)
  <2>1. w \in Mems
    BY <1>4 DEF WriteOk
  <2>2. mark_dirty(map, w.dirty, addr) \in SUBSET Word
    BY <2>1 DEF mark_dirty, Mems
  <2>. QED BY <2>1, <2>2 DEF Mems
<1>8. ASSUME Apart(map) PROVE Marked(map, old.m, n)
  <2>1. ASSUME NEW a \in 0 .. p_space_end(map) - 1, a # addr
        PROVE  PView(map, n, a) = PView(map, old.m, a)
    <3>1. a \in Word
      BY ProgramWord
    <3>2. ASSUME NEW b \in DOMAIN Sizes, NEW k \in 0 .. 7, Reaches(map, "P", a, b, k)
          PROVE  n.buf[b][k] = old.m.buf[b][k]
      <4>1. ~Reaches(map, "P", addr, b, k)
        BY <1>1, <1>8, <2>1, <3>1, <3>2 DEF Apart, Reaches
      <4>. QED BY <1>4, <1>7, <4>1 DEF WriteOk
    <3>3. n.dev["P"][a] = old.m.dev["P"][a]
      BY <1>1, <1>4, <1>7, <2>1, <3>1 DEF WriteOk
    <3>. QED BY <1>3, <1>7, <3>1, <3>2, <3>3, ViewSame, ZenonT(60)
  <2>2. w.dirty = old.m.dirty
    BY <1>4 DEF WriteOk
  <2>3. old.m.dirty \subseteq n.dirty
    BY <1>7, <2>2 DEF mark_dirty
  <2>4. ASSUME NEW a \in 0 .. p_space_end(map) - 1, a = addr PROVE a \in n.dirty
    <3>1. addr < p_space_end(map)
      BY <2>4, ProgramEnd
    <3>. QED BY <1>7, <2>4, <3>1 DEF mark_dirty
  <2>. QED BY <2>1, <2>3, <2>4 DEF Marked
<1>9. Apart(map) => Marked(map, m, n)
  BY <1>6, <1>8, MarkedTrans
<1>. QED BY <1>3, <1>5, <1>6, <1>7, <1>9

-------------------------------------------------------------------------------
(* Machine states.                                                         *)

Maps == UNION {Menus[k].maps : k \in DOMAIN Menus}
Stacks == [ptr : Slots, se : BOOLEAN, uf : BOOLEAN, sc : 0 .. 2 * Depth - 1,
           hi : [Slots -> Word], lo : [Slots -> Srs], ssh : Word, ssl : Srs]
Accs == [{"A", "B"} -> Acc]
States == [pc : Word, adv : 0 .. 2, sr : Srs, stk : Stacks, reg : [RegNames -> Word],
           acc : Accs, map : Maps, m : Mems]

\* The maps a menu offers lie within their arrays.
LEMMA MapsAreMaps ==
    ASSUME NEW map \in Maps
    PROVE  IsMap(map)
BY MenusAssumption DEF Maps

\* What emitted code does, but for PC and the stack: the machine stays well
\* typed and every change of program memory is marked.
Base(s, t) == /\ s \in States /\ t \in States
              /\ t.map = s.map /\ t.pc = s.pc /\ t.adv = s.adv
              /\ Apart(s.map) => Marked(s.map, s.m, t.m)
Does(s, t) == Base(s, t) /\ t.stk = s.stk

\* Doing nothing is one of them.
LEMMA BaseSame ==
    ASSUME NEW s \in States
    PROVE  Does(s, s)
BY DEF Does, Base, Marked

\* One piece of emitted code after another.
LEMMA BaseTrans ==
    ASSUME NEW r, NEW s, NEW t, Base(r, s), Base(s, t)
    PROVE  Base(r, t)
BY MarkedTrans DEF Base

\* The same, when neither touches the stack.
LEMMA DoesTrans ==
    ASSUME NEW r, NEW s, NEW t, Does(r, s), Does(s, t)
    PROVE  Does(r, t)
BY BaseTrans DEF Does

\* The types of the components.
LEMMA StateFields ==
    ASSUME NEW s \in States
    PROVE  /\ s.pc \in Word /\ s.adv \in 0 .. 2 /\ s.sr \in Srs /\ s.stk \in Stacks
           /\ s.reg \in [RegNames -> Word] /\ s.acc \in Accs /\ s.map \in Maps
           /\ IsMap(s.map) /\ s.m \in Mems
           /\ \A n \in RegNames : s.reg[n] \in Word
           /\ \A a \in {"A", "B"} : s.acc[a] \in Acc
           /\ DOMAIN s.reg = RegNames
BY MapsAreMaps DEF States, Accs

\* One component of the state changes.
LEMMA RegChanged ==
    ASSUME NEW s \in States, NEW n \in RegNames, NEW v \in Word
    PROVE  Does(s, [s EXCEPT !.reg[n] = v])
BY DEF Does, Base, States, Marked

\* An accumulator.
LEMMA AccChanged ==
    ASSUME NEW s \in States, NEW a \in {"A", "B"}, NEW v \in Acc
    PROVE  Does(s, [s EXCEPT !.acc[a] = v])
BY DEF Does, Base, States, Marked, Accs

\* The status register.
LEMMA SrChanged ==
    ASSUME NEW s \in States, NEW f \in Srs
    PROVE  Does(s, [s EXCEPT !.sr = f])
BY DEF Does, Base, States, Marked

\* The memory, when the change is marked.
LEMMA MemChanged ==
    ASSUME NEW s \in States, NEW n \in Mems, Apart(s.map) => Marked(s.map, s.m, n)
    PROVE  Does(s, [s EXCEPT !.m = n])
BY DEF Does, Base, States

\* The stack.
LEMMA StkChanged ==
    ASSUME NEW s \in States, NEW k \in Stacks
    PROVE  Base(s, [s EXCEPT !.stk = k]) /\ [s EXCEPT !.stk = k].stk = k
BY DEF Base, States, Marked

\* The extension is no wider than a word.
LEMMA ExtFits == Exts \subseteq Word
<1>1. EXT \in Nat /\ W - EXT \in Nat /\ EXT + (W - EXT) = W
  BY WidthAssumption
<1>2. 2^EXT \in Nat \ {0} /\ 2^(W - EXT) \in Nat \ {0} /\ 2^(EXT + (W - EXT)) = 2^EXT * 2^(W - EXT)
  BY <1>1, Doubling, PowerSum
<1>. DEFINE x == 2^EXT
            y == 2^(W - EXT)
            z == 2^W
<1>3. x \in Nat \ {0} /\ y \in Nat \ {0} /\ z = x * y
  BY <1>1, <1>2
<1>4. Exts = 0 .. x - 1 /\ Word = 0 .. z - 1
  BY DEF Exts, Word
<1>. HIDE DEF x, y, z
<1>5. x * y >= x
  BY <1>3, Z3
<1>6. z \in Int /\ z >= x
  BY <1>3, <1>5
<1>. QED BY <1>3, <1>4, <1>6

-------------------------------------------------------------------------------
(* The operators of Moves.                                                 *)

\* An effective address is a word; its register alone changes.
EaOk(s, e) == /\ e.addr \in Word /\ Does(s, e.s)
              /\ e.s.sr = s.sr /\ e.s.m = s.m /\ e.s.acc = s.acc

\* calc_ea does so in every addressing mode.
LEMMA EffectiveAddress ==
    ASSUME NEW s \in States, NEW e, IsEa(e)
    PROVE  EaOk(s, calc_ea(s, e))
<1>. DEFINE r == s.reg[e.rn]
            n == Signed(s.reg[IF e.rn = "R0" THEN "N0" ELSE "N4"], W)
            Post(d) == [addr |-> r, imm |-> FALSE,
                        s |-> [s EXCEPT !.reg[e.rn] = (r + d) % 2^W]]
            x == calc_ea(s, e)
<1>1. e.rn \in RegNames /\ e.word \in Word
  BY DEF IsEa, RegNames
<1>2. r \in Word /\ r \in Int
  BY <1>1, StateFields, Masks
<1>3. n \in Int
  <2>1. s.reg[IF e.rn = "R0" THEN "N0" ELSE "N4"] \in Int
    BY StateFields, Masks DEF RegNames
  <2>. QED BY <2>1, SignedInt, WidthAssumption
<1>4. \A d \in Int : (r + d) % 2^W \in Word
  <2>1. \A d \in Int : r + d \in Int
    BY <1>2
  <2>. QED BY <2>1, Masks DEF mask24
<1>5. ASSUME NEW d \in Int, NEW a \in Word
      PROVE  EaOk(s, [Post(d) EXCEPT !.addr = a]) /\ EaOk(s, Post(d))
  <2>. DEFINE t == [s EXCEPT !.reg[e.rn] = (r + d) % 2^W]
  <2>1. Does(s, t)
    BY <1>1, <1>4, RegChanged
  <2>2. t.sr = s.sr /\ t.m = s.m /\ t.acc = s.acc
    BY DEF States
  <2>3. /\ Post(d).addr = r /\ Post(d).s = t
        /\ [Post(d) EXCEPT !.addr = a].addr = a /\ [Post(d) EXCEPT !.addr = a].s = t
    OBVIOUS
  <2>. HIDE DEF t, Post, r
  <2>. QED BY <1>2, <2>1, <2>2, <2>3 DEF EaOk
<1>6. ASSUME NEW a \in Word, NEW b
      PROVE  EaOk(s, [addr |-> a, imm |-> b, s |-> s])
  BY BaseSame DEF EaOk
<1>7. -n \in Int /\ 0 \in Int /\ 1 \in Int /\ -1 \in Int /\ r - 1 = r + (-1)
  BY <1>2, <1>3
<1>8. x = CASE e.mode = "(R)-N" -> Post(-n)  [] e.mode = "(R)+N" -> Post(n)
            [] e.mode = "(R)-" -> Post(-1)   [] e.mode = "(R)+" -> Post(1)
            [] e.mode = "(R)" -> Post(0)
            [] e.mode = "(R+N)" -> [addr |-> (r + n) % 2^W, imm |-> FALSE, s |-> s]
            [] e.mode = "-(R)" -> [Post(-1) EXCEPT !.addr = (r - 1) % 2^W]
            [] e.mode = "abs" -> [addr |-> e.word, imm |-> FALSE, s |-> s]
            [] e.mode = "imm" -> [addr |-> e.word, imm |-> TRUE, s |-> s]
  BY DEF calc_ea
<1>9. (r + n) % 2^W \in Word /\ (r - 1) % 2^W \in Word
  BY <1>3, <1>4, <1>7
<1>10. \A d \in Int : EaOk(s, Post(d)) /\ \A a \in Word : EaOk(s, [Post(d) EXCEPT !.addr = a])
  BY <1>2, <1>5
<1>. HIDE DEF r, n, Post
<1>. QED BY <1>1, <1>3, <1>6, <1>7, <1>8, <1>9, <1>10 DEF IsEa

\* The registers of the encodings.
LEMMA Names ==
    /\ MoveRegs = RegNames \union {"A", "B"} \union PartNames
    /\ \A i \in MoveRegs : i # "SSH"
    /\ \A i \in MoveRegs : AccOf(i) \in {"A", "B"}
    /\ \A i \in PartNames : i \notin RegNames /\ i \notin {"A", "B"}
    /\ "A" \notin RegNames /\ "B" \notin RegNames /\ "SSH" \notin RegNames
    /\ ControlRegs = MoveRegs \union {"SSH"}
    /\ MoveRegs \subseteq ControlRegs /\ {"A", "B"} \subseteq MoveRegs /\ RegNames \subseteq MoveRegs
BY DEF MoveRegs, RegNames, PartNames, AccOf, ControlRegs

\* A register, or a part of an accumulator, is loaded as a word.
LEMMA RegisterLoad ==
    ASSUME NEW s \in States, NEW i \in MoveRegs
    PROVE  load_reg(s, i) \in Word /\ (i \in {"A2", "B2"} => load_reg(s, i) \in Exts)
<1>. DEFINE a == s.acc[AccOf(i)]
<1>1. a \in Acc
  BY StateFields, Names
<1>2. /\ extract_acc_lo(a) \in Word /\ extract_acc_mid(a) \in Word
      /\ extract_acc_hi(a) \in Exts
  BY <1>1, Parts
<1>3. DOMAIN s.reg = RegNames /\ \A n \in RegNames : s.reg[n] \in Word
  BY StateFields
<1>4. Exts \subseteq Word
  BY ExtFits
<1>. HIDE DEF a
<1>5. load_reg(s, i) = CASE i \in RegNames -> s.reg[i]
      [] i \in {"A0", "B0"} -> extract_acc_lo(a)
      [] i \in {"A1", "B1"} -> extract_acc_mid(a)
      [] i \in {"A2", "B2"} -> extract_acc_hi(a)
      [] OTHER -> 0
  BY <1>3 DEF load_reg, a
<1>6. 0 \in Word
  BY Masks
<1>. QED BY <1>2, <1>3, <1>4, <1>5, <1>6, Names DEF PartNames

\* A register, or a part of an accumulator, takes a word.
LEMMA RegisterStore ==
    ASSUME NEW s \in States, NEW i \in RegNames \union PartNames, NEW v \in Word
    PROVE  Does(s, store_reg(s, i, v))
<1>. DEFINE a == AccOf(i)
            old == s.acc[a]
            Pk == CASE i \in {"A0", "B0"} -> pack_acc(extract_acc_hi(old),
                                                     extract_acc_mid(old), v)
                    [] i \in {"A1", "B1"} -> WithMid(old, v)
                    [] OTHER -> pack_acc(v % 2^EXT, extract_acc_mid(old),
                                         extract_acc_lo(old))
<1>1. DOMAIN s.reg = RegNames /\ a \in {"A", "B"} /\ old \in Acc
  BY StateFields, Names
<1>2. /\ extract_acc_lo(old) \in Word /\ extract_acc_mid(old) \in Word
      /\ extract_acc_hi(old) \in Exts
  BY <1>1, Parts
<1>3. v % 2^EXT \in Exts
  BY Widths, Masks, DivisionFacts DEF Exts
<1>4. Pk \in Acc
  <2>1. \A h \in Exts, x \in Word, y \in Word : pack_acc(h, x, y) \in Acc
    BY Packed
  <2>2. WithMid(old, v) \in Acc
    BY <1>2, <2>1 DEF WithMid
  <2>. HIDE DEF old
  <2>. QED BY <1>2, <1>3, <2>1, <2>2
<1>5. store_reg(s, i, v) = IF i \in RegNames THEN [s EXCEPT !.reg[i] = v]
                           ELSE [s EXCEPT !.acc[a] = Pk]
  BY <1>1 DEF store_reg
<1>6. Does(s, [s EXCEPT !.acc[a] = Pk])
  BY <1>1, <1>4, AccChanged
<1>7. i \in RegNames => Does(s, [s EXCEPT !.reg[i] = v])
  BY RegChanged
<1>. HIDE DEF Pk, a
<1>. QED BY <1>5, <1>6, <1>7

\* The stack operators keep a stack well typed.
LEMMA StackTypes ==
    ASSUME NEW k \in Stacks
    PROVE  /\ stack_pop(k) \in Stacks /\ inline_pop(k) = stack_pop(k)
           /\ \A h \in Word : write_ssh(k, h) \in Stacks /\ write_ssh_tos(k, h) \in Stacks
           /\ \A h \in Word, l \in Srs : inline_push(k, h, l) \in Stacks
           /\ popped(k)[1] = k.ssh /\ popped(k)[1] \in Word
           /\ inline_popped(k)[1] = k.hi[k.ptr] /\ inline_popped(k)[1] \in Word
           /\ inline_popped(k)[2] = k.lo[k.ptr] /\ inline_popped(k)[2] \in Srs
<1>1. Down(k.ptr) \in Slots /\ ScDown(k.sc) \in 0 .. 2 * Depth - 1
  BY DepthAssumption DEF Stacks, Slots, Down, ScDown
<1>2. Up(k.ptr) \in Slots /\ ScUp(k.sc) \in 0 .. 2 * Depth - 1
  BY DepthAssumption DEF Stacks, Slots, Up, ScUp
<1>3. stack_pop(k) \in Stacks
  BY <1>1 DEF stack_pop, Stacks
<1>4. inline_pop(k) = stack_pop(k)
  <2>. DEFINE p == inline_pop(k)
              q == stack_pop(k)
              F == {"ptr", "se", "uf", "sc", "hi", "lo", "ssh", "ssl"}
  <2>1. DOMAIN k = F /\ k = [f \in F |-> k[f]]
    BY DEF Stacks
  <2>2. p = [f \in F |-> p[f]]
    BY <2>1 DEF inline_pop
  <2>3. q = [f \in F |-> q[f]]
    BY DEF stack_pop
  <2>4. /\ p.ptr = q.ptr /\ p.se = q.se /\ p.uf = q.uf /\ p.sc = q.sc /\ p.hi = q.hi /\ p.lo = q.lo
        /\ p.ssh = q.ssh /\ p.ssl = q.ssl
    BY <2>1 DEF inline_pop, stack_pop
  <2>. HIDE DEF p, q
  <2>5. p = q
    BY <2>2, <2>3, <2>4
  <2>. QED BY <2>5 DEF p, q
<1>5. ASSUME NEW h \in Word PROVE write_ssh(k, h) \in Stacks
  BY <1>2 DEF write_ssh, Stacks
<1>6. ASSUME NEW h \in Word PROVE write_ssh_tos(k, h) \in Stacks
  BY DepthAssumption DEF write_ssh_tos, Stacks, Slots
<1>7. ASSUME NEW h \in Word, NEW l \in Srs PROVE inline_push(k, h, l) \in Stacks
  BY <1>2 DEF inline_push, Stacks
<1>8. k.ssh \in Word /\ k.hi[k.ptr] \in Word /\ k.lo[k.ptr] \in Srs
  BY DEF Stacks
<1>. QED BY <1>3, <1>4, <1>5, <1>6, <1>7, <1>8 DEF popped, inline_popped

\* A register is read: the value is a word, the limiter may set L, SSH pops.
RegRead(s, i, r) ==
    /\ r.val \in Word /\ Base(s, r.s) /\ r.s.acc = s.acc /\ r.s.reg = s.reg /\ r.s.m = s.m
    /\ r.s.stk = IF i = "SSH" THEN stack_pop(s.stk) ELSE s.stk

\* Reading an accumulator through the limiter.
LEMMA AccuRead ==
    ASSUME NEW s \in States, NEW a \in {"A", "B"}
    PROVE  RegRead(s, a, read_accu24(s, a))
<1>. DEFINE r == jit_read_accu24(s.sr, s.acc[a])
            t == [s EXCEPT !.sr = r.sr]
<1>1. s.sr \in Srs /\ s.acc[a] \in Acc
  BY StateFields
<1>2. r.val \in Word /\ r.sr \in Srs
  BY <1>1, LimiterRead DEF Flags
<1>3. Does(s, t)
  BY <1>2, SrChanged
<1>4. t.acc = s.acc /\ t.reg = s.reg /\ t.m = s.m
  BY DEF States
<1>5. read_accu24(s, a).val = r.val /\ read_accu24(s, a).s = t
  BY DEF read_accu24
<1>6. a # "SSH"
  OBVIOUS
<1>. HIDE DEF r, t
<1>. QED BY <1>2, <1>3, <1>4, <1>5, <1>6 DEF RegRead, Does

\* Reading SSH pops the stack.
LEMMA SshRead ==
    ASSUME NEW s \in States
    PROVE  RegRead(s, "SSH", jit_read_ssh(s)) /\ jit_read_ssh(s).val = s.stk.ssh
<1>. DEFINE t == [s EXCEPT !.stk = stack_pop(s.stk)]
<1>1. s.stk \in Stacks
  BY StateFields
<1>2. stack_pop(s.stk) \in Stacks /\ popped(s.stk)[1] \in Word /\ popped(s.stk)[1] = s.stk.ssh
  BY <1>1, StackTypes
<1>3. Base(s, t) /\ t.stk = stack_pop(s.stk)
  BY <1>2, StkChanged
<1>4. t.acc = s.acc /\ t.reg = s.reg /\ t.m = s.m
  BY DEF States
<1>5. jit_read_ssh(s).val = popped(s.stk)[1] /\ jit_read_ssh(s).s = t
  BY DEF jit_read_ssh
<1>. HIDE DEF t
<1>. QED BY <1>2, <1>3, <1>4, <1>5 DEF RegRead

\* read_reg_for_move, for every register a move can name.
LEMMA MoveRead ==
    ASSUME NEW s \in States, NEW i \in ControlRegs
    PROVE  RegRead(s, i, read_reg_for_move(s, i))
<1>1. CASE i \in {"A", "B"}
  <2>1. read_reg_for_move(s, i) = read_accu24(s, i)
    BY <1>1 DEF read_reg_for_move
  <2>. QED BY <1>1, <2>1, AccuRead
<1>2. CASE i = "SSH"
  <2>1. read_reg_for_move(s, i) = jit_read_ssh(s)
    BY <1>2 DEF read_reg_for_move
  <2>. QED BY <1>2, <2>1, SshRead
<1>3. CASE i \notin {"A", "B", "SSH"}
  <2>1. i \in MoveRegs
    BY <1>3, Names
  <2>2. load_reg(s, i) \in Word
    BY <2>1, RegisterLoad
  <2>3. mask24(Signed(load_reg(s, i), EXT)) \in Word
    <3>1. EXT \in Nat /\ EXT >= 1
      BY WidthAssumption
    <3>2. load_reg(s, i) \in Int
      BY <2>2, Masks
    <3>3. Signed(load_reg(s, i), EXT) \in Int
      BY <3>1, <3>2, SignedInt
    <3>. QED BY <3>3, Masks
  <2>4. \/ read_reg_for_move(s, i) = [val |-> mask24(Signed(load_reg(s, i), EXT)), s |-> s]
        \/ read_reg_for_move(s, i) = [val |-> load_reg(s, i), s |-> s]
    BY <1>3 DEF read_reg_for_move
  <2>5. Base(s, s)
    BY BaseSame DEF Does
  <2>. QED BY <1>3, <2>2, <2>3, <2>4, <2>5 DEF RegRead
<1>. QED BY <1>1, <1>2, <1>3

\* A register is written: SSH pushes.
RegWritten(s, i, v, t) ==
    Base(s, t) /\ t.stk = IF i = "SSH" THEN write_ssh(s.stk, v) ELSE s.stk

\* write_reg_for_move, for every register a move can name.
LEMMA MoveWrite ==
    ASSUME NEW s \in States, NEW i \in ControlRegs, NEW v \in Word
    PROVE  RegWritten(s, i, v, write_reg_for_move(s, i, v))
<1>1. CASE i \in {"A", "B"}
  <2>1. write_reg_for_move(s, i, v) = [s EXCEPT !.acc[i] = val24_to_acc56(v)]
    BY <1>1 DEF write_reg_for_move
  <2>2. val24_to_acc56(v) \in Acc
    BY Masks, WordToAcc
  <2>. QED BY <1>1, <2>1, <2>2, AccChanged DEF RegWritten, Does
<1>2. CASE i = "SSH"
  <2>1. write_reg_for_move(s, i, v) = [s EXCEPT !.stk = write_ssh(s.stk, v)]
    BY <1>2 DEF write_reg_for_move
  <2>2. write_ssh(s.stk, v) \in Stacks
    BY StateFields, StackTypes
  <2>. QED BY <1>2, <2>1, <2>2, StkChanged DEF RegWritten
<1>3. CASE i \notin {"A", "B", "SSH"}
  <2>1. i \in RegNames \union PartNames
    BY <1>3, Names
  <2>2. write_reg_for_move(s, i, v) = store_reg(s, i, v)
    BY <1>3 DEF write_reg_for_move
  <2>. QED BY <1>3, <2>1, <2>2, RegisterStore DEF RegWritten, Does
<1>. QED BY <1>1, <1>2, <1>3

\* Memory is read: the value is a word, and the only change is a device access.
MemRead(s, r) ==
    /\ r.val \in Word /\ Does(s, r.s) /\ r.s.acc = s.acc /\ r.s.reg = s.reg /\ r.s.sr = s.sr

\* A constant and a computed address read the same word in the same way.
LEMMA MemoryRead ==
    ASSUME NEW s \in States, NEW space \in Spaces, NEW addr \in Word
    PROVE  /\ MemRead(s, RdConst(s, space, addr)) /\ RdDyn(s, space, addr) = RdConst(s, space, addr)
           /\ RdConst(s, space, addr).val = read_memory(s.map, s.m, space, addr).val
<1>. DEFINE r == read_memory(s.map, s.m, space, addr)
            t == [s EXCEPT !.m = r.m]
<1>1. IsMap(s.map) /\ s.m \in Mems
  BY StateFields
<1>2. ReadOk(s.m, r)
  BY <1>1, ReadMemory
<1>3. r.val \in Word /\ r.m \in Mems /\ Marked(s.map, s.m, r.m)
  BY <1>2, MarkedSame DEF ReadOk
<1>4. Does(s, t)
  BY <1>3, MemChanged
<1>5. t.acc = s.acc /\ t.reg = s.reg /\ t.sr = s.sr
  BY DEF States
<1>6. read_mem_dyn(s.map, s.m, space, addr) = r
  BY <1>1, FastRead
<1>7. /\ RdConst(s, space, addr) = [val |-> r.val, s |-> t]
      /\ RdDyn(s, space, addr) = [val |-> r.val, s |-> t]
  BY <1>6 DEF RdConst, RdDyn, read_mem
<1>. HIDE DEF r, t
<1>8. MemRead(s, [val |-> r.val, s |-> t])
  BY <1>3, <1>4, <1>5 DEF MemRead
<1>9. [val |-> r.val, s |-> t].val = r.val
  OBVIOUS
<1>. QED BY <1>7, <1>8, <1>9 DEF r

\* Stores keep the machine well typed and mark what they change of program
\* memory, by every way to memory.
LEMMA MemoryWrite ==
    ASSUME NEW s \in States, NEW addr \in Word, NEW v \in Word
    PROVE  /\ \A space \in DataSpaces : Does(s, WrConst(s, space, addr, v))
           /\ \A space \in Spaces : Does(s, WrDyn(s, space, addr, v))
<1>1. IsMap(s.map) /\ s.m \in Mems /\ v \in Int
  BY StateFields, Masks
<1>2. DataSpaces \subseteq Spaces /\ \A space \in Spaces : space \in DataSpaces \/ space = "P"
  BY DEF DataSpaces, Spaces
<1>3. ASSUME NEW space \in DataSpaces
      PROVE  Does(s, WrConst(s, space, addr, v)) /\ Does(s, WrDyn(s, space, addr, v))
  <2>. DEFINE n == write_memory(s.map, s.m, space, addr, v)
  <2>1. n \in Mems
    BY <1>1, <1>2, WriteMemory DEF WriteOk
  <2>2. Apart(s.map) => Marked(s.map, s.m, n)
    BY <1>1, DataWrite
  <2>3. WrConst(s, space, addr, v) = [s EXCEPT !.m = n]
    BY DEF WrConst, write_mem
  <2>4. write_mem_dyn(s.map, s.m, space, addr, v) = n
    BY <1>1, FastWrite
  <2>5. WrDyn(s, space, addr, v) = [s EXCEPT !.m = n]
    BY <2>4 DEF WrDyn
  <2>. HIDE DEF n
  <2>. QED BY <2>1, <2>2, <2>3, <2>5, MemChanged
<1>4. Does(s, WrDyn(s, "P", addr, v))
  <2>. DEFINE n == jit_write_mem_p(s.map, s.m, addr, v)
  <2>1. n \in Mems /\ (Apart(s.map) => Marked(s.map, s.m, n))
    BY <1>1, ProgramWrite
  <2>2. write_mem_dyn(s.map, s.m, "P", addr, v) = n
    BY DEF write_mem_dyn
  <2>3. WrDyn(s, "P", addr, v) = [s EXCEPT !.m = n]
    BY <2>2 DEF WrDyn
  <2>. HIDE DEF n
  <2>. QED BY <2>1, <2>3, MemChanged
<1>. QED BY <1>2, <1>3, <1>4

\* The arithmetic unit changes an accumulator and the condition codes.
LEMMA ArithmeticUnit ==
    ASSUME NEW s \in States, NEW alu \in AluForms
    PROVE  Does(s, emit_parallel_alu(s, alu))
<1>1. s.sr \in Srs /\ \A a \in {"A", "B"} : s.acc[a] \in Acc
  BY StateFields
<1>2. ASSUME NEW d \in {"A", "B"}, NEW x \in Word
      PROVE  LET raw == s.acc[d] + val24_to_acc56(x)
                 r == jit_saturate_sm(s.sr, mask56(raw))
             IN  r.val \in Acc /\ AluAddSub(s.sr, r.val, val24_to_acc56(x), s.acc[d],
                                           raw, FALSE, r.sat) \in Srs
  <2>. DEFINE y == val24_to_acc56(x)
              a == s.acc[d]
              raw == a + y
              r == jit_saturate_sm(s.sr, mask56(raw))
  <2>1. y \in Acc /\ a \in Acc
    BY <1>1, Masks, WordToAcc
  <2>2. y \in Int /\ a \in Int /\ raw \in Int
    BY <2>1, Masks
  <2>3. mask56(raw) \in Acc
    BY <2>2, Masks
  <2>4. r.val \in Acc /\ r.val \in Int
    BY <2>3, Saturated, Masks
  <2>. HIDE DEF y, a, raw, r
  <2>5. AluAddSub(s.sr, r.val, y, a, raw, FALSE, r.sat) \in Srs
    BY <1>1, <2>2, <2>4, AddFlags DEF Flags
  <2>. QED BY <2>4, <2>5 DEF y, a, raw, r
<1>3. s.reg["X0"] \in Word /\ s.reg["Y0"] \in Word
  BY StateFields DEF RegNames
<1>. DEFINE z == [s.sr EXCEPT !.E = 0, !.N = 0, !.V = 0, !.U = 1, !.Z = 1]
<1>4. z \in Srs
  BY <1>1 DEF Srs
<1>5. alu # "move" => /\ AluResult(s, alu).val \in Acc /\ AluResult(s, alu).sr \in Srs
                      /\ AluDest(alu) \in {"A", "B"}
  <2>1. CASE alu = "add x0,a"
    BY <1>2, <1>3, <2>1 DEF AluResult, AluDest
  <2>2. CASE alu = "add y0,b"
    BY <1>2, <1>3, <2>2 DEF AluResult, AluDest
  <2>3. CASE alu = "tfr b,a"
    BY <1>1, <2>3 DEF AluResult, AluDest
  <2>4. CASE alu = "clr a"
    BY <1>4, <2>4, Masks DEF AluResult, AluDest
  <2>. QED BY <2>1, <2>2, <2>3, <2>4 DEF AluForms
<1>6. CASE alu = "move"
  BY <1>6, BaseSame DEF emit_parallel_alu
<1>7. CASE alu # "move"
  <2>. DEFINE r == AluResult(s, alu)
              d == AluDest(alu)
              p == [s EXCEPT !.acc[d] = r.val]
              q == [p EXCEPT !.sr = r.sr]
  <2>1. Does(s, p)
    BY <1>5, <1>7, AccChanged
  <2>2. Does(p, q)
    BY <1>5, <1>7, <2>1, SrChanged DEF Does, Base
  <2>3. emit_parallel_alu(s, alu) = q
    BY <1>7 DEF emit_parallel_alu
  <2>. HIDE DEF p, q
  <2>. QED BY <2>1, <2>2, <2>3, DoesTrans
<1>. QED BY <1>6, <1>7

\* L memory: a pair of registers is two words.
LongRead(s, r) == r.x \in Word /\ r.y \in Word /\ Does(s, r.s)

\* A register pair is read as two words.
LEMMA PairRead ==
    ASSUME NEW s \in States, NEW p \in Pairs
    PROVE  LongRead(s, read_l_reg(s, p))
<1>1. ASSUME NEW hi \in MoveRegs, NEW lo \in MoveRegs
      PROVE  LongRead(s, [x |-> load_reg(s, hi), y |-> load_reg(s, lo), s |-> s])
  <2>1. load_reg(s, hi) \in Word /\ load_reg(s, lo) \in Word /\ Does(s, s)
    BY RegisterLoad, BaseSame
  <2>. QED BY <2>1 DEF LongRead
<1>2. ASSUME NEW t \in States, NEW a \in {"A", "B"}
      PROVE  /\ read_accu24(t, a).val \in Word /\ Does(t, read_accu24(t, a).s)
             /\ read_accu24(t, a).s \in States
  <2>1. RegRead(t, a, read_accu24(t, a)) /\ a # "SSH"
    BY AccuRead
  <2>. QED BY <2>1 DEF RegRead, Does, Base
<1>3. 0 \in Word /\ 2^W - 1 \in Word
  BY Widths, Masks DEF Word
<1>4. ASSUME NEW a \in {"A", "B"}, NEW r, r = read_accu24(s, a)
      PROVE  LongRead(s, [x |-> r.val, s |-> r.s,
                 y |-> IF ~ r.limited THEN load_reg(s, IF a = "A" THEN "A0" ELSE "B0")
                       ELSE IF Bit(r.val, W - 1) = 1 THEN 0 ELSE 2^W - 1])
  <2>. DEFINE low == load_reg(s, IF a = "A" THEN "A0" ELSE "B0")
              yy == IF ~ r.limited THEN low
                    ELSE IF Bit(r.val, W - 1) = 1 THEN 0 ELSE 2^W - 1
  <2>1. (IF a = "A" THEN "A0" ELSE "B0") \in MoveRegs
    BY DEF MoveRegs, PartNames
  <2>2. low \in Word
    BY <2>1, RegisterLoad
  <2>. HIDE DEF low
  <2>3. yy \in Word
    BY <1>3, <2>2
  <2>. HIDE DEF yy
  <2>4. LongRead(s, [x |-> r.val, s |-> r.s, y |-> yy])
    BY <1>2, <1>4, <2>3 DEF LongRead
  <2>. QED BY <2>4 DEF yy, low
<1>5. ASSUME NEW a \in {"A", "B"}, NEW b \in {"A", "B"}, NEW f, NEW g,
             f = read_accu24(s, a), g = read_accu24(f.s, b)
      PROVE  LongRead(s, [x |-> f.val, y |-> g.val, s |-> g.s])
  <2>1. f.val \in Word /\ Does(s, f.s) /\ f.s \in States
    BY <1>2, <1>5
  <2>2. g.val \in Word /\ Does(f.s, g.s)
    BY <1>2, <1>5, <2>1
  <2>3. Does(s, g.s)
    BY <2>1, <2>2, DoesTrans
  <2>. QED BY <2>1, <2>2, <2>3 DEF LongRead
<1>6. {"A1", "A0", "B1", "B0", "X1", "X0", "Y1", "Y0"} \subseteq MoveRegs
  BY DEF MoveRegs, PartNames, RegNames
<1>7. CASE p = "A10"
  <2>1. read_l_reg(s, p) = [x |-> load_reg(s, "A1"), y |-> load_reg(s, "A0"), s |-> s]
    BY <1>7 DEF read_l_reg
  <2>. QED BY <1>1, <1>6, <2>1
<1>8. CASE p = "B10"
  <2>1. read_l_reg(s, p) = [x |-> load_reg(s, "B1"), y |-> load_reg(s, "B0"), s |-> s]
    BY <1>8 DEF read_l_reg
  <2>. QED BY <1>1, <1>6, <2>1
<1>9. CASE p = "X"
  <2>1. read_l_reg(s, p) = [x |-> load_reg(s, "X1"), y |-> load_reg(s, "X0"), s |-> s]
    BY <1>9 DEF read_l_reg
  <2>. QED BY <1>1, <1>6, <2>1
<1>10. CASE p = "Y"
  <2>1. read_l_reg(s, p) = [x |-> load_reg(s, "Y1"), y |-> load_reg(s, "Y0"), s |-> s]
    BY <1>10 DEF read_l_reg
  <2>. QED BY <1>1, <1>6, <2>1
<1>11. CASE p = "AB"
  <2>. DEFINE f == read_accu24(s, "A")
              g == read_accu24(f.s, "B")
  <2>1. read_l_reg(s, p) = [x |-> f.val, y |-> g.val, s |-> g.s]
    BY <1>11 DEF read_l_reg
  <2>. QED BY <1>5, <2>1
<1>12. CASE p = "BA"
  <2>. DEFINE f == read_accu24(s, "B")
              g == read_accu24(f.s, "A")
  <2>1. read_l_reg(s, p) = [x |-> f.val, y |-> g.val, s |-> g.s]
    BY <1>12 DEF read_l_reg
  <2>. QED BY <1>5, <2>1
<1>13. CASE p \in {"A", "B"}
  <2>. DEFINE r == read_accu24(s, p)
  <2>1. read_l_reg(s, p) = [x |-> r.val, s |-> r.s,
                 y |-> IF ~ r.limited THEN load_reg(s, IF p = "A" THEN "A0" ELSE "B0")
                       ELSE IF Bit(r.val, W - 1) = 1 THEN 0 ELSE 2^W - 1]
    BY <1>13 DEF read_l_reg
  <2>. QED BY <1>4, <1>13, <2>1
<1>. QED BY <1>7, <1>8, <1>9, <1>10, <1>11, <1>12, <1>13 DEF Pairs

\* A register pair takes two words.
LEMMA PairWrite ==
    ASSUME NEW s \in States, NEW p \in Pairs, NEW x \in Word, NEW y \in Word
    PROVE  Does(s, write_l_reg(s, p, x, y))
<1>. DEFINE ext == Bit(x, W - 1) * (2^EXT - 1)
            one == val24_to_acc56(x)
            two == val24_to_acc56(y)
<1>1. ext \in Exts
  <2>1. Bit(x, W - 1) \in {0, 1} /\ 2^EXT \in Nat \ {0}
    BY BitRange, Widths, Masks
  <2>2. ext = 0 \/ ext = 2^EXT - 1
    BY <2>1
  <2>. QED BY <2>1, <2>2 DEF Exts
<1>2. one \in Acc /\ two \in Acc
  BY WordToAcc, Masks
<1>3. ASSUME NEW t \in States, NEW a \in {"A", "B"}, NEW b \in {"A", "B"}
      PROVE  Does(t, [t EXCEPT !.acc[a] = one, !.acc[b] = two])
  <2>. DEFINE u == [t EXCEPT !.acc[a] = one]
              v == [u EXCEPT !.acc[b] = two]
  <2>1. Does(t, u)
    BY <1>2, AccChanged
  <2>2. u \in States
    BY <2>1 DEF Does, Base
  <2>3. Does(u, v)
    BY <1>2, <2>2, AccChanged
  <2>4. Does(t, v)
    BY <2>1, <2>3, DoesTrans
  <2>5. [t EXCEPT !.acc[a] = one, !.acc[b] = two] = v
    BY DEF States
  <2>. QED BY <2>4, <2>5
<1>4. ASSUME NEW a \in RegNames, NEW b \in RegNames
      PROVE  Does(s, [s EXCEPT !.reg[a] = x, !.reg[b] = y])
  <2>. DEFINE u == [s EXCEPT !.reg[a] = x]
              v == [u EXCEPT !.reg[b] = y]
  <2>1. Does(s, u)
    BY RegChanged
  <2>2. u \in States
    BY <2>1 DEF Does, Base
  <2>3. Does(u, v)
    BY <2>2, RegChanged
  <2>4. Does(s, v)
    BY <2>1, <2>3, DoesTrans
  <2>5. [s EXCEPT !.reg[a] = x, !.reg[b] = y] = v
    BY DEF States
  <2>. QED BY <2>4, <2>5
<1>5. CASE p \in {"A10", "B10"}
  <2>. DEFINE a == AccOf(p)
              new == pack_acc(extract_acc_hi(s.acc[a]), x, y)
  <2>1. a \in {"A", "B"} /\ s.acc[a] \in Acc
    BY StateFields DEF AccOf
  <2>2. new \in Acc
    BY <2>1, Parts, Packed
  <2>3. write_l_reg(s, p, x, y) = [s EXCEPT !.acc[a] = new]
    BY <1>5 DEF write_l_reg
  <2>. QED BY <2>1, <2>2, <2>3, AccChanged
<1>6. CASE p \in {"A", "B"}
  <2>1. pack_acc(ext, x, y) \in Acc
    BY <1>1, Packed
  <2>2. write_l_reg(s, p, x, y) = [s EXCEPT !.acc[p] = pack_acc(ext, x, y)]
    BY <1>6 DEF write_l_reg
  <2>. QED BY <1>6, <2>1, <2>2, AccChanged
<1>7. {"X1", "X0", "Y1", "Y0"} \subseteq RegNames
  BY DEF RegNames
<1>8. CASE p = "X"
  <2>1. write_l_reg(s, p, x, y) = [s EXCEPT !.reg["X1"] = x, !.reg["X0"] = y]
    BY <1>8 DEF write_l_reg
  <2>. QED BY <1>4, <1>7, <2>1
<1>9. CASE p = "Y"
  <2>1. write_l_reg(s, p, x, y) = [s EXCEPT !.reg["Y1"] = x, !.reg["Y0"] = y]
    BY <1>9 DEF write_l_reg
  <2>. QED BY <1>4, <1>7, <2>1
<1>10. CASE p = "AB"
  <2>1. write_l_reg(s, p, x, y) = [s EXCEPT !.acc["A"] = one, !.acc["B"] = two]
    BY <1>10 DEF write_l_reg
  <2>. QED BY <1>3, <2>1
<1>11. CASE p = "BA"
  <2>1. write_l_reg(s, p, x, y) = [s EXCEPT !.acc["B"] = one, !.acc["A"] = two]
    BY <1>11 DEF write_l_reg
  <2>. QED BY <1>3, <2>1
<1>. QED BY <1>5, <1>6, <1>8, <1>9, <1>10, <1>11 DEF Pairs

-------------------------------------------------------------------------------
(* The emitters of the parallel moves.                                     *)

\* A value and the state after it was fetched.
Fetched(s, r) == r.val \in Word /\ Does(s, r.s) /\ r.s \in States

\* Both ends of emitted code are machine states.
LEMMA DoesState ==
    ASSUME NEW s, NEW t, Does(s, t)
    PROVE  s \in States /\ t \in States
BY DEF Does, Base

\* The sources of a move.
LEMMA Fetches ==
    ASSUME NEW s \in States
    PROVE  /\ \A i \in MoveRegs : Fetched(s, read_reg_for_move(s, i))
           /\ \A space \in Spaces, addr \in Word :
                Fetched(s, RdConst(s, space, addr)) /\ Fetched(s, RdDyn(s, space, addr))
           /\ \A v \in Word : Fetched(s, [val |-> v, s |-> s])
<1>1. ASSUME NEW i \in MoveRegs PROVE Fetched(s, read_reg_for_move(s, i))
  <2>1. i \in ControlRegs /\ i # "SSH"
    BY Names
  <2>2. RegRead(s, i, read_reg_for_move(s, i))
    BY <2>1, MoveRead
  <2>. QED BY <2>1, <2>2 DEF RegRead, Does, Base, Fetched
<1>2. ASSUME NEW space \in Spaces, NEW addr \in Word
      PROVE  Fetched(s, RdConst(s, space, addr)) /\ Fetched(s, RdDyn(s, space, addr))
  BY MemoryRead, DoesState DEF MemRead, Fetched
<1>3. ASSUME NEW v \in Word PROVE Fetched(s, [val |-> v, s |-> s])
  BY BaseSame DEF Fetched
<1>. QED BY <1>1, <1>2, <1>3

\* The destinations of a move.
LEMMA Stores ==
    ASSUME NEW s \in States, NEW v \in Word
    PROVE  /\ \A i \in MoveRegs : Does(s, write_reg_for_move(s, i, v))
           /\ \A space \in DataSpaces, addr \in Word : Does(s, WrConst(s, space, addr, v))
           /\ \A space \in Spaces, addr \in Word : Does(s, WrDyn(s, space, addr, v))
<1>1. ASSUME NEW i \in MoveRegs PROVE Does(s, write_reg_for_move(s, i, v))
  <2>1. i \in ControlRegs /\ i # "SSH"
    BY Names
  <2>2. RegWritten(s, i, v, write_reg_for_move(s, i, v))
    BY <2>1, MoveWrite
  <2>. QED BY <2>1, <2>2 DEF RegWritten, Does
<1>. QED BY <1>1, MemoryWrite

\* X and Y are spaces.
LEMMA DataSpacesAreSpaces == DataSpaces \subseteq Spaces /\ "X" \in DataSpaces /\ "Y" \in DataSpaces
BY DEF DataSpaces, Spaces

\* An effective address as a step.
LEMMA EaStep ==
    ASSUME NEW s \in States, NEW e, IsEa(e)
    PROVE  calc_ea(s, e).addr \in Word /\ Does(s, calc_ea(s, e).s) /\ calc_ea(s, e).s \in States
BY EffectiveAddress, DoesState DEF EaOk

\* The arithmetic unit as a step.
LEMMA AluStep ==
    ASSUME NEW s \in States, NEW alu \in AluForms
    PROVE  Does(s, emit_parallel_alu(s, alu)) /\ emit_parallel_alu(s, alu) \in States
BY ArithmeticUnit, DoesState

\* The parallel moves, format by format.  Accumulator to memory and X0 or Y0 to
\* the accumulator.
LEMMA Pm0 ==
    ASSUME NEW s \in States, NEW i, AluOperands(i), i.op = "pm0"
    PROVE  Does(s, emit_pm_0(s, i))
<1>. DEFINE e == calc_ea(s, i.ea)
            rd == read_reg_for_move(e.s, i.reg)
            xy0 == load_reg(rd.s, IF i.space = "X" THEN "X0" ELSE "Y0")
            al == emit_parallel_alu(rd.s, i.alu)
            wr == WrDyn(al, i.space, e.addr, rd.val)
            mv == write_reg_for_move(wr, i.reg, xy0)
            last == [mv EXCEPT !.acc[i.reg] = al.acc[i.reg]]
<1>1. i.alu \in AluForms /\ i.reg \in {"A", "B"} /\ i.space \in DataSpaces /\ IsEa(i.ea)
  BY DEF AluOperands
<1>2. i.reg \in MoveRegs /\ i.space \in Spaces
        /\ (IF i.space = "X" THEN "X0" ELSE "Y0") \in MoveRegs
  BY <1>1, Names, DataSpacesAreSpaces DEF MoveRegs, RegNames
<1>3. e.addr \in Word /\ Does(s, e.s) /\ e.s \in States
  BY <1>1, EaStep
<1>. HIDE DEF e
<1>4. rd.val \in Word /\ Does(e.s, rd.s) /\ rd.s \in States
  BY <1>2, <1>3, Fetches DEF Fetched
<1>. HIDE DEF rd
<1>5. xy0 \in Word
  BY <1>2, <1>4, RegisterLoad
<1>. HIDE DEF xy0
<1>6. Does(rd.s, al) /\ al \in States
  BY <1>1, <1>4, AluStep
<1>. HIDE DEF al
<1>7. Does(al, wr) /\ wr \in States
  BY <1>2, <1>3, <1>4, <1>6, Stores, DoesState
<1>. HIDE DEF wr
<1>8. Does(wr, mv) /\ mv \in States
  BY <1>2, <1>5, <1>7, Stores, DoesState
<1>. HIDE DEF mv
<1>9. al.acc[i.reg] \in Acc
  BY <1>1, <1>6, StateFields
<1>10. Does(mv, last)
  BY <1>1, <1>8, <1>9, AccChanged
<1>. HIDE DEF last
<1>11. Does(s, mv) /\ Does(s, last)
  <2>1. Does(s, rd.s)
    BY <1>3, <1>4, DoesTrans
  <2>2. Does(s, al)
    BY <2>1, <1>6, DoesTrans
  <2>3. Does(s, wr)
    BY <2>2, <1>7, DoesTrans
  <2>4. Does(s, mv)
    BY <2>3, <1>8, DoesTrans
  <2>. QED BY <2>4, <1>10, DoesTrans
<1>12. emit_pm_0(s, i) = IF rd.s.acc[i.reg] # al.acc[i.reg] THEN last ELSE mv
  BY DEF emit_pm_0, e, rd, xy0, al, wr, mv, last
<1>. QED BY <1>11, <1>12

\* Memory and register, and accumulator to X0 or Y0.
LEMMA Pm1 ==
    ASSUME NEW s \in States, NEW i, AluOperands(i), i.op = "pm1"
    PROVE  Does(s, emit_pm_1(s, i))
<1>. DEFINE e == calc_ea(s, i.ea)
            one == IF ~ i.w THEN read_reg_for_move(e.s, i.reg)
                   ELSE IF e.imm THEN [val |-> e.addr, s |-> e.s]
                   ELSE RdDyn(e.s, i.space, e.addr)
            two == read_reg_for_move(one.s, i.src2)
            al == emit_parallel_alu(two.s, i.alu)
            mv == IF i.w THEN write_reg_for_move(al, i.reg, one.val)
                  ELSE WrDyn(al, i.space, e.addr, one.val)
            last == store_reg(mv, i.dst2, two.val)
<1>1. /\ i.alu \in AluForms /\ i.reg \in MoveRegs /\ i.space \in DataSpaces /\ IsEa(i.ea)
      /\ i.src2 \in {"A", "B"} /\ i.dst2 \in {"X0", "Y0"}
  BY DEF AluOperands
<1>2. i.src2 \in MoveRegs /\ i.space \in Spaces /\ i.dst2 \in RegNames \union PartNames
  BY <1>1, Names, DataSpacesAreSpaces DEF RegNames
<1>3. e.addr \in Word /\ Does(s, e.s) /\ e.s \in States
  BY <1>1, EaStep
<1>. HIDE DEF e
<1>4. Fetched(e.s, one)
  BY <1>1, <1>2, <1>3, Fetches
<1>. HIDE DEF one
<1>5. Fetched(one.s, two)
  BY <1>2, <1>4, Fetches DEF Fetched
<1>. HIDE DEF two
<1>6. Does(two.s, al) /\ al \in States
  BY <1>1, <1>5, AluStep DEF Fetched
<1>. HIDE DEF al
<1>7. Does(al, mv) /\ mv \in States
  <2>1. one.val \in Word
    BY <1>4 DEF Fetched
  <2>. QED BY <1>1, <1>2, <1>3, <1>6, <2>1, Stores, DoesState
<1>. HIDE DEF mv
<1>8. Does(mv, last)
  BY <1>2, <1>5, <1>7, RegisterStore DEF Fetched
<1>. HIDE DEF last
<1>9. Does(s, last)
  <2>1. Does(s, one.s)
    BY <1>3, <1>4, DoesTrans DEF Fetched
  <2>2. Does(s, two.s)
    BY <2>1, <1>5, DoesTrans DEF Fetched
  <2>3. Does(s, al)
    BY <2>2, <1>6, DoesTrans
  <2>4. Does(s, mv)
    BY <2>3, <1>7, DoesTrans
  <2>. QED BY <2>4, <1>8, DoesTrans
<1>10. emit_pm_1(s, i) = last
  BY DEF emit_pm_1, e, one, two, al, mv, last
<1>. QED BY <1>9, <1>10

\* No move, or an update of an address register.
LEMMA Pm2 ==
    ASSUME NEW s \in States, NEW i, AluOperands(i), i.op \in {"pm2", "pm2r"}
    PROVE  Does(s, emit_pm_2(s, i))
<1>. DEFINE t == IF i.op = "pm2r" THEN calc_ea(s, i.ea).s ELSE s
<1>1. i.alu \in AluForms /\ (i.op = "pm2r" => IsEa(i.ea))
  BY DEF AluOperands
<1>2. Does(s, t) /\ t \in States
  BY <1>1, EaStep, BaseSame
<1>3. emit_pm_2(s, i) = emit_parallel_alu(t, i.alu)
  BY DEF emit_pm_2
<1>. HIDE DEF t
<1>. QED BY <1>1, <1>2, <1>3, AluStep, DoesTrans

\* Register to register.
LEMMA Pm22 ==
    ASSUME NEW s \in States, NEW i, AluOperands(i), i.op = "pm22"
    PROVE  Does(s, emit_pm_2_2(s, i))
<1>. DEFINE rd == read_reg_for_move(s, i.src)
            al == emit_parallel_alu(rd.s, i.alu)
            last == write_reg_for_move(al, i.reg, rd.val)
<1>1. i.alu \in AluForms /\ i.reg \in MoveRegs /\ i.src \in MoveRegs
  BY DEF AluOperands
<1>2. rd.val \in Word /\ Does(s, rd.s) /\ rd.s \in States
  BY <1>1, Fetches DEF Fetched
<1>3. emit_pm_2_2(s, i) = last
  BY DEF emit_pm_2_2
<1>. HIDE DEF rd
<1>4. Does(rd.s, al) /\ al \in States
  BY <1>1, <1>2, AluStep
<1>. HIDE DEF al
<1>5. Does(al, last)
  BY <1>1, <1>2, <1>4, Stores
<1>. HIDE DEF last
<1>6. Does(s, al)
  BY <1>2, <1>4, DoesTrans
<1>. QED BY <1>3, <1>5, <1>6, DoesTrans

\* An immediate of two bits, as it is or at the top of a word.
LEMMA ShortImmediate ==
    ASSUME NEW k \in 0 .. 3
    PROVE  k \in Word /\ k * 2^(W - 2) \in Word
<1>1. W - 2 \in Nat /\ (W - 2) + 1 = W - 1 /\ (W - 2) + 2 = W /\ W - 1 \in Nat /\ (W - 1) + 1 = W
  BY WidthAssumption
<1>2. 2^(W - 2) \in Nat \ {0} /\ 2^((W - 2) + 1) = 2 * 2^(W - 2)
  BY <1>1, Doubling
<1>3. 2^((W - 1) + 1) = 2 * 2^(W - 1)
  BY <1>1, Doubling
<1>. DEFINE q == 2^(W - 2)
            z == 2^W
<1>4. q \in Nat \ {0} /\ z = 4 * q
  <2>1. 2^(W - 1) = 2 * q
    BY <1>1, <1>2
  <2>2. z = 2 * 2^(W - 1)
    BY <1>1, <1>3
  <2>. QED BY <1>2, <2>1, <2>2
<1>5. Word = 0 .. z - 1 /\ k * 2^(W - 2) = k * q
  BY DEF Word
<1>. HIDE DEF q, z
<1>6. k \in 0 .. z - 1
  BY <1>4
<1>7. k * q \in 0 .. z - 1
  <2>1. k = 0 \/ k = 1 \/ k = 2 \/ k = 3
    OBVIOUS
  <2>. QED BY <1>4, <2>1
<1>. QED BY <1>5, <1>6, <1>7

\* Short immediate.
LEMMA Pm3 ==
    ASSUME NEW s \in States, NEW i, AluOperands(i), i.op = "pm3"
    PROVE  Does(s, emit_pm_3(s, i))
<1>. DEFINE al == emit_parallel_alu(s, i.alu)
            v == IF i.reg \in {"X0", "X1", "Y0", "Y1", "A", "B"} THEN i.imm * 2^(W - 2) ELSE i.imm
<1>1. i.alu \in AluForms /\ i.reg \in MoveRegs /\ i.imm \in 0 .. 3
  BY DEF AluOperands
<1>2. v \in Word
  BY <1>1, ShortImmediate
<1>3. Does(s, al) /\ al \in States
  BY <1>1, AluStep
<1>4. emit_pm_3(s, i) = write_reg_for_move(al, i.reg, v)
  BY DEF emit_pm_3
<1>. HIDE DEF al, v
<1>. QED BY <1>1, <1>2, <1>3, <1>4, Stores, DoesTrans

\* Long memory.
LEMMA Pm4 ==
    ASSUME NEW s \in States, NEW i, AluOperands(i), i.op \in {"pm4", "pm4a"}
    PROVE  Does(s, emit_pm_4x(s, i))
<1>. DEFINE e == IF i.op = "pm4a" THEN [addr |-> i.at, s |-> s] ELSE calc_ea(s, i.ea)
            Rd(t, sp) == IF i.op = "pm4a" THEN RdConst(t, sp, e.addr)
                         ELSE RdDyn(t, sp, e.addr)
            Wr(t, sp, v) == IF i.op = "pm4a" THEN WrConst(t, sp, e.addr, v)
                            ELSE WrDyn(t, sp, e.addr, v)
            x == Rd(e.s, "X")
            y == Rd(x.s, "Y")
            pr == read_l_reg(e.s, i.reg)
            al == emit_parallel_alu(y.s, i.alu)
            be == emit_parallel_alu(pr.s, i.alu)
            load == write_l_reg(al, i.reg, x.val, y.val)
            half == Wr(be, "X", pr.x)
            store == Wr(half, "Y", pr.y)
<1>1. /\ i.alu \in AluForms /\ i.reg \in Pairs
      /\ i.op = "pm4a" => i.at \in Word
      /\ i.op = "pm4" => IsEa(i.ea)
  BY DEF AluOperands
<1>2. e.addr \in Word /\ Does(s, e.s) /\ e.s \in States
  BY <1>1, EaStep, BaseSame
<1>3. emit_pm_4x(s, i) = IF i.w THEN load ELSE store
  BY DEF emit_pm_4x
<1>4. \A t \in States, sp \in DataSpaces : Fetched(t, Rd(t, sp))
  <2>. HIDE DEF e
  <2>. QED BY <1>2, Fetches, DataSpacesAreSpaces
<1>5. \A t \in States, sp \in DataSpaces, v \in Word : Does(t, Wr(t, sp, v)) /\ Wr(t, sp, v) \in States
  <2>. HIDE DEF e
  <2>. QED BY <1>2, Stores, DoesState, DataSpacesAreSpaces
<1>6. Fetched(e.s, x)
  BY <1>2, <1>4, DataSpacesAreSpaces
<1>7. Fetched(x.s, y)
  BY <1>4, <1>6, DataSpacesAreSpaces DEF Fetched
<1>8. LongRead(e.s, pr) /\ pr.s \in States
  BY <1>1, <1>2, PairRead, DoesState DEF LongRead
<1>9. Does(y.s, al) /\ al \in States
  BY <1>1, <1>7, AluStep DEF Fetched
<1>10. Does(pr.s, be) /\ be \in States
  BY <1>1, <1>8, AluStep
<1>11. Does(al, load)
  <2>1. x.val \in Word /\ y.val \in Word
    BY <1>6, <1>7 DEF Fetched
  <2>. QED BY <1>1, <1>9, <2>1, PairWrite
<1>12. Does(be, half) /\ half \in States
  <2>1. pr.x \in Word
    BY <1>8 DEF LongRead
  <2>. HIDE DEF Wr, be, pr
  <2>. QED BY <1>5, <1>10, <2>1, DataSpacesAreSpaces
<1>13. Does(half, store)
  <2>1. pr.y \in Word
    BY <1>8 DEF LongRead
  <2>. HIDE DEF Wr, half, pr
  <2>. QED BY <1>5, <1>12, <2>1, DataSpacesAreSpaces
<1>. HIDE DEF e, Rd, Wr, x, y, pr, al, be, load, half, store
<1>14. Does(s, load)
  <2>1. Does(s, x.s)
    BY <1>2, <1>6, DoesTrans DEF Fetched
  <2>2. Does(s, y.s)
    BY <2>1, <1>7, DoesTrans DEF Fetched
  <2>3. Does(s, al)
    BY <2>2, <1>9, DoesTrans
  <2>. QED BY <2>3, <1>11, DoesTrans
<1>15. Does(s, store)
  <2>1. Does(s, pr.s)
    BY <1>2, <1>8, DoesTrans DEF LongRead
  <2>2. Does(s, be)
    BY <2>1, <1>10, DoesTrans
  <2>3. Does(s, half)
    BY <2>2, <1>12, DoesTrans
  <2>. QED BY <2>3, <1>13, DoesTrans
<1>. QED BY <1>3, <1>14, <1>15

\* X or Y memory.
LEMMA Pm5 ==
    ASSUME NEW s \in States, NEW i, AluOperands(i), i.op \in {"pm5", "pm5a"}
    PROVE  Does(s, emit_pm_5(s, i))
<1>. DEFINE e == IF i.op = "pm5a" THEN [addr |-> i.at, imm |-> FALSE, s |-> s]
                 ELSE calc_ea(s, i.ea)
            ld == CASE e.imm -> [val |-> e.addr, s |-> e.s]
                    [] ~ e.imm /\ i.op = "pm5a" -> RdConst(e.s, i.space, e.addr)
                    [] OTHER -> RdDyn(e.s, i.space, e.addr)
            rd == read_reg_for_move(e.s, i.reg)
            al == emit_parallel_alu(rd.s, i.alu)
            be == emit_parallel_alu(ld.s, i.alu)
            load == write_reg_for_move(be, i.reg, ld.val)
            c == WrConst(al, i.space, e.addr, rd.val)
            d == WrDyn(al, i.space, e.addr, rd.val)
<1>1. /\ i.alu \in AluForms /\ i.reg \in MoveRegs /\ i.space \in DataSpaces /\ i.space \in Spaces
      /\ i.op = "pm5a" => i.at \in Word
      /\ i.op = "pm5" => IsEa(i.ea)
  BY DataSpacesAreSpaces DEF AluOperands
<1>2. e.addr \in Word /\ Does(s, e.s) /\ e.s \in States
  BY <1>1, EaStep, BaseSame
<1>3. emit_pm_5(s, i) = CASE i.w -> load [] ~ i.w /\ i.op = "pm5a" -> c [] OTHER -> d
  BY DEF emit_pm_5
<1>. HIDE DEF e
<1>4. Fetched(e.s, ld)
  BY <1>1, <1>2, Fetches
<1>5. Fetched(e.s, rd)
  BY <1>1, <1>2, Fetches
<1>. HIDE DEF ld, rd
<1>6. Does(rd.s, al) /\ al \in States /\ rd.val \in Word
  BY <1>1, <1>5, AluStep DEF Fetched
<1>7. Does(ld.s, be) /\ be \in States /\ ld.val \in Word
  BY <1>1, <1>4, AluStep DEF Fetched
<1>. HIDE DEF al, be
<1>8. Does(be, load)
  BY <1>1, <1>7, Stores
<1>9. Does(al, c) /\ Does(al, d)
  BY <1>1, <1>2, <1>6, Stores
<1>. HIDE DEF load, c, d
<1>10. Does(s, be)
  <2>1. Does(s, ld.s)
    BY <1>2, <1>4, DoesTrans DEF Fetched
  <2>. QED BY <2>1, <1>7, DoesTrans
<1>11. Does(s, al)
  <2>1. Does(s, rd.s)
    BY <1>2, <1>5, DoesTrans DEF Fetched
  <2>. QED BY <2>1, <1>6, DoesTrans
<1>12. Does(s, load) /\ Does(s, c) /\ Does(s, d)
  BY <1>8, <1>9, <1>10, <1>11, DoesTrans
<1>. QED BY <1>3, <1>12

\* X and Y memory.
LEMMA Pm8 ==
    ASSUME NEW s \in States, NEW i, AluOperands(i), i.op = "pm8"
    PROVE  Does(s, emit_pm_8(s, i))
<1>. DEFINE e1 == calc_ea(s, i.ea)
            e2 == calc_ea(e1.s, i.ea2)
            one == IF i.w THEN RdDyn(e2.s, "X", e1.addr) ELSE read_reg_for_move(e2.s, i.reg)
            two == IF i.w2 THEN RdDyn(one.s, "Y", e2.addr)
                   ELSE read_reg_for_move(one.s, i.reg2)
            al == emit_parallel_alu(two.s, i.alu)
            mv == IF i.w THEN write_reg_for_move(al, i.reg, one.val)
                  ELSE WrDyn(al, "X", e1.addr, one.val)
            last == IF i.w2 THEN write_reg_for_move(mv, i.reg2, two.val)
                    ELSE WrDyn(mv, "Y", e2.addr, two.val)
<1>1. /\ i.alu \in AluForms /\ i.reg \in MoveRegs /\ i.reg2 \in MoveRegs /\ IsEa(i.ea)
      /\ IsEa(i.ea2) /\ "X" \in Spaces /\ "Y" \in Spaces
  BY DEF AluOperands, Spaces
<1>2. emit_pm_8(s, i) = last
  BY DEF emit_pm_8
<1>3. e1.addr \in Word /\ Does(s, e1.s) /\ e1.s \in States
  BY <1>1, EaStep
<1>. HIDE DEF e1
<1>4. e2.addr \in Word /\ Does(e1.s, e2.s) /\ e2.s \in States
  BY <1>1, <1>3, EaStep
<1>. HIDE DEF e2
<1>5. Fetched(e2.s, one)
  BY <1>1, <1>3, <1>4, Fetches
<1>. HIDE DEF one
<1>6. Fetched(one.s, two)
  BY <1>1, <1>4, <1>5, Fetches DEF Fetched
<1>. HIDE DEF two
<1>7. Does(two.s, al) /\ al \in States /\ two.val \in Word /\ one.val \in Word
  BY <1>1, <1>5, <1>6, AluStep DEF Fetched
<1>. HIDE DEF al
<1>8. Does(al, mv) /\ mv \in States
  BY <1>1, <1>3, <1>7, Stores, DoesState
<1>. HIDE DEF mv
<1>9. Does(mv, last)
  BY <1>1, <1>4, <1>7, <1>8, Stores
<1>. HIDE DEF last
<1>10. Does(s, last)
  <2>1. Does(s, e2.s)
    BY <1>3, <1>4, DoesTrans
  <2>2. Does(s, one.s)
    BY <2>1, <1>5, DoesTrans DEF Fetched
  <2>3. Does(s, two.s)
    BY <2>2, <1>6, DoesTrans DEF Fetched
  <2>4. Does(s, al)
    BY <2>3, <1>7, DoesTrans
  <2>5. Does(s, mv)
    BY <2>4, <1>8, DoesTrans
  <2>. QED BY <2>5, <1>9, DoesTrans
<1>. QED BY <1>2, <1>10

\* All formats.
LEMMA ParallelMoves ==
    ASSUME NEW s \in States, NEW i, AluOperands(i)
    PROVE  Does(s, emit_parallel(s, i))
<1>1. i.op \in {"pm0", "pm1", "pm2", "pm2r", "pm22", "pm3", "pm4", "pm4a", "pm5", "pm5a", "pm8"}
  BY DEF AluOperands
<1>. DEFINE t == emit_parallel(s, i)
<1>2. i.op = "pm0" => t = emit_pm_0(s, i)
  BY DEF emit_parallel
<1>3. i.op = "pm1" => t = emit_pm_1(s, i)
  BY DEF emit_parallel
<1>4. i.op \in {"pm2", "pm2r"} => t = emit_pm_2(s, i)
  BY DEF emit_parallel
<1>5. i.op = "pm22" => t = emit_pm_2_2(s, i)
  BY DEF emit_parallel
<1>6. i.op = "pm3" => t = emit_pm_3(s, i)
  BY DEF emit_parallel
<1>7. i.op \in {"pm4", "pm4a"} => t = emit_pm_4x(s, i)
  BY DEF emit_parallel
<1>8. i.op \in {"pm5", "pm5a"} => t = emit_pm_5(s, i)
  BY DEF emit_parallel
<1>9. i.op = "pm8" => t = emit_pm_8(s, i)
  BY DEF emit_parallel
<1>. HIDE DEF t
<1>10. Does(s, t)
  BY <1>1, <1>2, <1>3, <1>4, <1>5, <1>6, <1>7, <1>8, <1>9, Pm0, Pm1, Pm2, Pm22, Pm3, Pm4, Pm5, Pm8
<1>. QED BY <1>10 DEF t

-------------------------------------------------------------------------------
(* The emitters of the other moves.                                        *)

\* What a move does to the stack: it may read SSH, then write it.
Moved(s, t, pop, push) ==
    /\ Base(s, t)
    /\ LET k == IF pop THEN stack_pop(s.stk) ELSE s.stk
       IN  IF push THEN \E v \in Word : t.stk = write_ssh(k, v) ELSE t.stk = k

\* A move that does not touch SSH.
LEMMA PlainMove ==
    ASSUME NEW s, NEW t, Does(s, t)
    PROVE  Moved(s, t, FALSE, FALSE)
BY DEF Does, Moved

\* MOVEP with a register.
LEMMA MovepR ==
    ASSUME NEW s \in States, NEW i, MoveOperands(i), i.op = "movepr"
    PROVE  Does(s, emit_movep_r(s, i))
<1>. DEFINE rd == read_reg_for_move(s, i.reg)
            ld == RdConst(s, i.space, i.at)
            store == WrConst(rd.s, i.space, i.at, rd.val)
            load == write_reg_for_move(ld.s, i.reg, ld.val)
<1>1. i.reg \in MoveRegs /\ i.space \in DataSpaces /\ i.space \in Spaces /\ i.at \in Word
  BY DataSpacesAreSpaces DEF MoveOperands
<1>2. emit_movep_r(s, i) = IF i.w THEN store ELSE load
  BY DEF emit_movep_r
<1>3. rd.val \in Word /\ Does(s, rd.s) /\ rd.s \in States
  BY <1>1, Fetches DEF Fetched
<1>4. ld.val \in Word /\ Does(s, ld.s) /\ ld.s \in States
  BY <1>1, Fetches DEF Fetched
<1>. HIDE DEF rd, ld
<1>5. Does(rd.s, store) /\ Does(ld.s, load)
  BY <1>1, <1>3, <1>4, Stores
<1>. HIDE DEF store, load
<1>6. Does(s, store) /\ Does(s, load)
  BY <1>3, <1>4, <1>5, DoesTrans
<1>. QED BY <1>2, <1>6

\* MOVEP with memory of any space, P included.
LEMMA MovepEa ==
    ASSUME NEW s \in States, NEW i, MoveOperands(i), i.op = "movepea"
    PROVE  Does(s, emit_movep_ea(s, i))
<1>. DEFINE e == calc_ea(s, i.ea)
            from == IF e.imm /\ i.src2 # "P" THEN [val |-> e.addr, s |-> e.s]
                    ELSE RdDyn(e.s, i.src2, e.addr)
            ld == RdConst(e.s, i.space, i.at)
            out == WrConst(from.s, i.space, i.at, from.val)
            in == WrDyn(ld.s, i.src2, e.addr, ld.val)
<1>1. /\ i.space \in DataSpaces /\ i.space \in Spaces /\ i.at \in Word /\ i.src2 \in Spaces
      /\ IsEa(i.ea)
  BY DataSpacesAreSpaces DEF MoveOperands
<1>2. emit_movep_ea(s, i) = IF i.w THEN out ELSE in
  BY DEF emit_movep_ea
<1>3. e.addr \in Word /\ Does(s, e.s) /\ e.s \in States
  BY <1>1, EaStep
<1>. HIDE DEF e
<1>4. Fetched(e.s, from) /\ Fetched(e.s, ld)
  BY <1>1, <1>3, Fetches
<1>. HIDE DEF from, ld
<1>5. /\ from.val \in Word /\ Does(s, from.s) /\ from.s \in States
      /\ ld.val \in Word /\ Does(s, ld.s) /\ ld.s \in States
  BY <1>3, <1>4, DoesTrans DEF Fetched
<1>6. Does(from.s, out) /\ Does(ld.s, in)
  BY <1>1, <1>3, <1>5, Stores
<1>. HIDE DEF out, in
<1>7. Does(s, out) /\ Does(s, in)
  BY <1>5, <1>6, DoesTrans
<1>. QED BY <1>2, <1>7

\* MOVEC with an immediate.
LEMMA MovecImm ==
    ASSUME NEW s \in States, NEW i, MoveOperands(i), i.op = "movecimm"
    PROVE  Moved(s, emit_movec_imm(s, i), PopsSsh(i), PushesSsh(i))
<1>1. i.reg \in ControlRegs /\ i.imm \in Word
  BY DEF MoveOperands
<1>2. ~PopsSsh(i) /\ (PushesSsh(i) <=> i.reg = "SSH")
  BY DEF PopsSsh, PushesSsh
<1>3. RegWritten(s, i.reg, i.imm, emit_movec_imm(s, i))
  BY <1>1, MoveWrite DEF emit_movec_imm
<1>. QED BY <1>1, <1>2, <1>3 DEF RegWritten, Moved

\* MOVEC between registers.
LEMMA MovecReg ==
    ASSUME NEW s \in States, NEW i, MoveOperands(i), i.op = "movecreg"
    PROVE  Moved(s, emit_movec_reg(s, i), PopsSsh(i), PushesSsh(i))
<1>. DEFINE rd == read_reg_for_move(s, i.src)
            t == write_reg_for_move(rd.s, i.reg, rd.val)
<1>1. i.reg \in ControlRegs /\ i.src \in ControlRegs
  BY DEF MoveOperands
<1>2. (PopsSsh(i) <=> i.src = "SSH") /\ (PushesSsh(i) <=> i.reg = "SSH")
  BY DEF PopsSsh, PushesSsh
<1>3. emit_movec_reg(s, i) = t
  BY DEF emit_movec_reg
<1>4. RegRead(s, i.src, rd)
  BY <1>1, MoveRead
<1>. HIDE DEF rd
<1>5. rd.s \in States /\ rd.val \in Word /\ Base(s, rd.s)
  BY <1>4 DEF RegRead, Base
<1>6. RegWritten(rd.s, i.reg, rd.val, t)
  BY <1>1, <1>5, MoveWrite
<1>. HIDE DEF t
<1>7. Base(s, t)
  BY <1>5, <1>6, BaseTrans DEF RegWritten
<1>. QED BY <1>2, <1>3, <1>4, <1>5, <1>6, <1>7 DEF RegRead, RegWritten, Moved

\* MOVEC and MOVEM with memory, and the displaced moves.
LEMMA MoveMem ==
    ASSUME NEW s \in States, NEW i, MoveOperands(i),
           i.op \in {"movecea", "movecaa", "movemea", "movemaa", "movedisp"}
    PROVE  Moved(s, emit_move(s, i), PopsSsh(i), PushesSsh(i))
<1>. DEFINE e == Address(s, i)
            ld == CASE e.imm /\ i.op = "movecea" -> [val |-> e.addr, s |-> e.s]
                    [] i.op = "movecaa" -> RdConst(e.s, i.space, e.addr)
                    [] OTHER -> RdDyn(e.s, i.space, e.addr)
            rd == read_reg_for_move(e.s, i.reg)
            load == write_reg_for_move(ld.s, i.reg, ld.val)
            c == WrConst(rd.s, i.space, e.addr, rd.val)
            d == WrDyn(rd.s, i.space, e.addr, rd.val)
            t == emit_move(s, i)
<1>1. /\ i.reg \in ControlRegs /\ i.w \in BOOLEAN
      /\ i.op = "movedisp" => i.reg # "SSH" /\ i.src \in RegNames /\ i.imm \in Int
      /\ i.space \in Spaces
      /\ i.op = "movecaa" => i.space \in DataSpaces
      /\ i.op \in {"movecea", "movemea"} => IsEa(i.ea)
      /\ i.op \in {"movecaa", "movemaa"} => i.at \in Word
  BY Names, DataSpacesAreSpaces DEF MoveOperands, Spaces, RegNames
<1>2. /\ PopsSsh(i) <=> ~i.w /\ i.reg = "SSH"
      /\ PushesSsh(i) <=> i.w /\ i.reg = "SSH"
  BY <1>1 DEF PopsSsh, PushesSsh
<1>3. t = CASE i.w -> load [] ~ i.w /\ i.op = "movecaa" -> c [] OTHER -> d
  BY DEF emit_move
<1>4. e.addr \in Word /\ Does(s, e.s) /\ e.s \in States
  <2>1. CASE i.op \in {"movecea", "movemea"}
    BY <1>1, <2>1, EaStep DEF Address
  <2>2. CASE i.op = "movedisp"
    <3>1. s.reg[i.src] \in Int /\ i.imm \in Int
      BY <1>1, <2>2, StateFields, Masks
    <3>2. mask24(s.reg[i.src] + i.imm) \in Word
      BY <3>1, Masks
    <3>3. e = [addr |-> mask24(s.reg[i.src] + i.imm), imm |-> FALSE, s |-> s]
      BY <2>2 DEF Address
    <3>. QED BY <3>2, <3>3, BaseSame
  <2>3. CASE i.op \in {"movecaa", "movemaa"}
    <3>1. e = [addr |-> i.at, imm |-> FALSE, s |-> s]
      BY <2>3 DEF Address
    <3>. QED BY <1>1, <2>3, <3>1, BaseSame
  <2>. QED BY <2>1, <2>2, <2>3
<1>. HIDE DEF e, t
<1>5. Fetched(e.s, ld)
  BY <1>1, <1>4, Fetches
<1>6. RegRead(e.s, i.reg, rd)
  BY <1>1, <1>4, MoveRead
<1>. HIDE DEF ld, rd
<1>7. /\ ld.val \in Word /\ Does(s, ld.s) /\ ld.s \in States
  BY <1>4, <1>5, DoesTrans DEF Fetched
<1>8. rd.val \in Word /\ Base(s, rd.s) /\ rd.s \in States
  BY <1>4, <1>6, BaseTrans DEF RegRead, Does, Base
<1>9. CASE i.w
  <2>1. RegWritten(ld.s, i.reg, ld.val, load)
    BY <1>1, <1>7, MoveWrite
  <2>. HIDE DEF load
  <2>2. Base(s, load) /\ ld.s.stk = s.stk
    BY <1>7, <2>1, BaseTrans DEF RegWritten, Does
  <2>3. t = load
    BY <1>3, <1>9
  <2>4. Moved(s, t, PopsSsh(i), PushesSsh(i))
    BY <1>2, <1>7, <1>9, <2>1, <2>2, <2>3 DEF RegWritten, Moved
  <2>. QED BY <2>4 DEF t
<1>10. CASE ~i.w
  <2>1. (i.op = "movecaa" => Does(rd.s, c)) /\ Does(rd.s, d)
    BY <1>1, <1>4, <1>8, Stores
  <2>2. t = IF i.op = "movecaa" THEN c ELSE d
    BY <1>3, <1>10
  <2>. HIDE DEF c, d
  <2>3. Does(rd.s, t)
    BY <2>1, <2>2
  <2>4. Base(s, t) /\ t.stk = rd.s.stk
    BY <1>8, <2>3, BaseTrans DEF Does
  <2>5. rd.s.stk = (IF i.reg = "SSH" THEN stack_pop(s.stk) ELSE s.stk)
    BY <1>4, <1>6 DEF RegRead, Does
  <2>6. Moved(s, t, PopsSsh(i), PushesSsh(i))
    BY <1>2, <1>10, <2>4, <2>5 DEF Moved
  <2>. QED BY <2>6 DEF t
<1>. QED BY <1>1, <1>9, <1>10

\* VSL.
LEMMA Vsl ==
    ASSUME NEW s \in States, NEW i, OtherOperands(i), i.op = "vsl"
    PROVE  Does(s, emit_vsl(s, i))
<1>. DEFINE e == calc_ea(s, i.ea)
            a == e.s.acc[i.reg]
            x == extract_acc_mid(a)
            y == mask24(2 * extract_acc_lo(a) + i.imm)
            p == WrDyn(e.s, "X", e.addr, x)
            q == WrDyn(p, "Y", e.addr, y)
<1>1. i.reg \in {"A", "B"} /\ i.imm \in {0, 1} /\ IsEa(i.ea) /\ "X" \in Spaces /\ "Y" \in Spaces
  BY DEF OtherOperands, Spaces
<1>2. e.addr \in Word /\ Does(s, e.s) /\ e.s \in States
  BY <1>1, EaStep
<1>3. emit_vsl(s, i) = q
  BY DEF emit_vsl
<1>. HIDE DEF e
<1>4. a \in Acc
  BY <1>1, <1>2, StateFields
<1>. HIDE DEF a
<1>5. x \in Word /\ extract_acc_lo(a) \in Int
  BY <1>4, Parts, Masks
<1>6. 2 * extract_acc_lo(a) + i.imm \in Int
  BY <1>1, <1>5
<1>7. y \in Word
  BY <1>6, Masks
<1>. HIDE DEF x, y
<1>8. Does(e.s, p) /\ p \in States
  BY <1>1, <1>2, <1>5, Stores, DoesState
<1>. HIDE DEF p
<1>9. Does(p, q)
  BY <1>1, <1>2, <1>7, <1>8, Stores
<1>. HIDE DEF q
<1>10. Does(s, p)
  BY <1>2, <1>8, DoesTrans
<1>. QED BY <1>3, <1>9, <1>10, DoesTrans

\* LUA and LRA.
LEMMA LoadAddresses ==
    ASSUME NEW s \in States, NEW i, OtherOperands(i)
    PROVE  /\ i.op = "lua" => Does(s, emit_lua(s, i))
           /\ i.op = "luarel" => Does(s, emit_lua_rel(s, i))
           /\ i.op = "lrarn" => Does(s, emit_lra_rn(s, i))
           /\ i.op = "lradisp" => Does(s, emit_lra_disp(s, i))
<1>1. s.pc \in Int /\ \A n \in RegNames : s.reg[n] \in Int /\ s.reg[n] \in Word
  BY StateFields, Masks
<1>2. "R0" \in RegNames /\ "R4" \in RegNames
  BY DEF RegNames
<1>3. ASSUME i.op = "lua" PROVE Does(s, emit_lua(s, i))
  <2>. DEFINE e == calc_ea(s, i.ea)
              old == s.reg[i.ea.rn]
              new == e.s.reg[i.ea.rn]
              back == [e.s EXCEPT !.reg[i.ea.rn] = old]
              t == write_reg_for_move(back, i.reg, new)
  <2>1. i.reg \in RegNames /\ i.reg \in MoveRegs /\ IsEa(i.ea) /\ i.ea.rn \in RegNames
    BY <1>3, Names, <1>2 DEF OtherOperands, IsEa
  <2>2. Does(s, e.s) /\ e.s \in States
    BY <2>1, EaStep
  <2>3. emit_lua(s, i) = t
    BY DEF emit_lua
  <2>. HIDE DEF e
  <2>4. old \in Word /\ new \in Word
    BY <2>1, <2>2, StateFields
  <2>. HIDE DEF old, new
  <2>5. Does(e.s, back) /\ back \in States
    BY <2>1, <2>2, <2>4, RegChanged, DoesState
  <2>. HIDE DEF back
  <2>6. Does(back, t)
    BY <2>1, <2>4, <2>5, Stores
  <2>. HIDE DEF t
  <2>7. Does(s, back)
    BY <2>2, <2>5, DoesTrans
  <2>. QED BY <2>3, <2>6, <2>7, DoesTrans
<1>4. ASSUME i.op = "luarel" PROVE Does(s, emit_lua_rel(s, i))
  <2>1. i.reg \in RegNames /\ i.src \in RegNames /\ i.imm \in Int
    BY <1>2, <1>4 DEF OtherOperands
  <2>2. mask24(s.reg[i.src] + i.imm) \in Word
    BY <1>1, <2>1, Masks
  <2>. QED BY <2>1, <2>2, RegisterStore DEF emit_lua_rel
<1>5. ASSUME i.op = "lrarn" PROVE Does(s, emit_lra_rn(s, i))
  <2>1. i.reg \in MoveRegs /\ i.src \in RegNames
    BY <1>2, <1>5 DEF OtherOperands
  <2>2. mask24(s.pc + s.reg[i.src]) \in Word
    BY <1>1, <2>1, Masks
  <2>. QED BY <2>1, <2>2, Stores DEF emit_lra_rn
<1>6. ASSUME i.op = "lradisp" PROVE Does(s, emit_lra_disp(s, i))
  <2>1. i.reg \in MoveRegs /\ i.imm \in Int
    BY <1>6 DEF OtherOperands
  <2>2. mask24(s.pc + i.imm) \in Word
    BY <1>1, <2>1, Masks
  <2>. QED BY <2>1, <2>2, Stores DEF emit_lra_disp
<1>. QED BY <1>3, <1>4, <1>5, <1>6

-------------------------------------------------------------------------------
(* Bit operations and condition codes.                                     *)

\* A bit goes to the carry.
LEMMA CarryChanged ==
    ASSUME NEW s \in States, NEW v \in Int, NEW bit \in 0 .. W - 1
    PROVE  Does(s, update_carry_from_bit(s, v, bit))
<1>1. bit \in Nat /\ s.sr \in Srs
  BY StateFields, WidthAssumption
<1>2. Bit(v, bit) \in {0, 1}
  BY <1>1, BitRange
<1>3. set_carry(s.sr, Bit(v, bit)) \in Srs
  BY <1>1, <1>2, FlagOps DEF Flags
<1>4. update_carry_from_bit(s, v, bit) = [s EXCEPT !.sr = set_carry(s.sr, Bit(v, bit))]
  BY DEF update_carry_from_bit
<1>. QED BY <1>3, <1>4, SrChanged

\* BCLR, BSET, BCHG and BTST on memory.
LEMMA BitMem ==
    ASSUME NEW s \in States, NEW i, OtherOperands(i), i.op \in {"bitmem", "bitea"}
    PROVE  Does(s, emit_bit_op_mem(s, i))
<1>. DEFINE e == IF i.op = "bitea" THEN calc_ea(s, i.ea) ELSE [addr |-> i.at, s |-> s]
            rd == IF i.op = "bitea" THEN RdDyn(e.s, i.space, e.addr)
                  ELSE RdConst(e.s, i.space, e.addr)
            up == update_carry_from_bit(rd.s, rd.val, i.bit)
            new == apply_bit_op(rd.val, i.bit, i.bop)
            t == emit_bit_op_mem(s, i)
<1>1. /\ i.space \in DataSpaces /\ i.space \in Spaces /\ i.bit \in 0 .. W - 1 /\ i.bop \in BitOps
      /\ i.op = "bitea" => IsEa(i.ea)
      /\ i.op = "bitmem" => i.at \in Word
  BY DataSpacesAreSpaces DEF OtherOperands
<1>2. t = CASE i.bop = "Test" -> up
            [] i.bop # "Test" /\ i.op = "bitea" -> WrDyn(up, i.space, e.addr, new)
            [] OTHER -> WrConst(up, i.space, e.addr, new)
  BY DEF emit_bit_op_mem
<1>3. e.addr \in Word /\ Does(s, e.s) /\ e.s \in States
  BY <1>1, EaStep, BaseSame
<1>. HIDE DEF e, t
<1>4. Fetched(e.s, rd)
  BY <1>1, <1>3, Fetches
<1>. HIDE DEF rd
<1>5. rd.val \in Word /\ rd.val \in Int /\ Does(s, rd.s) /\ rd.s \in States
  BY <1>3, <1>4, DoesTrans, Masks DEF Fetched
<1>6. Does(rd.s, up) /\ up \in States
  BY <1>1, <1>5, CarryChanged, DoesState
<1>. HIDE DEF up
<1>7. Does(s, up)
  BY <1>5, <1>6, DoesTrans
<1>8. i.bop # "Test" => new \in Word
  BY <1>1, <1>5, BitChanged
<1>. HIDE DEF new
<1>9. i.bop # "Test" => Does(up, t)
  BY <1>1, <1>2, <1>3, <1>6, <1>8, Stores
<1>10. Does(s, t)
  BY <1>2, <1>7, <1>9, DoesTrans
<1>. QED BY <1>10 DEF t

\* On SSH a test pops and a change rewrites the top slot.
LEMMA BitReg ==
    ASSUME NEW s \in States, NEW i, OtherOperands(i), i.op = "bitreg"
    PROVE  /\ Base(s, emit_bit_op_reg(s, i))
           /\ emit_bit_op_reg(s, i).stk =
                IF i.reg # "SSH" THEN s.stk
                ELSE IF i.bop = "Test" THEN stack_pop(s.stk)
                ELSE write_ssh_tos(s.stk, apply_bit_op(s.stk.ssh, i.bit, i.bop))
<1>. DEFINE rd == CASE i.reg = "SSH" /\ i.bop = "Test" -> jit_read_ssh(s)
                    [] i.reg = "SSH" /\ i.bop # "Test" -> [val |-> s.stk.ssh, s |-> s]
                    [] i.reg \in {"A", "B"} -> read_accu24(s, i.reg)
                    [] OTHER -> [val |-> load_reg(s, i.reg), s |-> s]
            new == apply_bit_op(rd.val, i.bit, i.bop)
            tos == [rd.s EXCEPT !.stk = write_ssh_tos(rd.s.stk, new)]
            wr == CASE i.bop = "Test" -> rd.s
                    [] i.bop # "Test" /\ i.reg = "SSH" -> tos
                    [] i.bop # "Test" /\ i.reg \in {"A", "B"} ->
                         write_reg_for_move(rd.s, i.reg, new)
                    [] OTHER -> store_reg(rd.s, i.reg, new)
            k == IF i.reg # "SSH" THEN s.stk
                 ELSE IF i.bop = "Test" THEN stack_pop(s.stk)
                 ELSE write_ssh_tos(s.stk, apply_bit_op(s.stk.ssh, i.bit, i.bop))
            t == emit_bit_op_reg(s, i)
<1>1. i.reg \in ControlRegs /\ i.bit \in 0 .. W - 1 /\ i.bop \in BitOps
  BY DEF OtherOperands
<1>2. t = update_carry_from_bit(wr, rd.val, i.bit)
  BY DEF emit_bit_op_reg
<1>3. i.reg \notin {"SSH", "A", "B"} =>
        i.reg \in MoveRegs /\ i.reg \in RegNames \union PartNames
  BY <1>1, Names
<1>4. /\ rd.val \in Word /\ rd.s \in States /\ Base(s, rd.s)
      /\ rd.s.stk = IF i.reg = "SSH" /\ i.bop = "Test" THEN stack_pop(s.stk) ELSE s.stk
      /\ i.reg = "SSH" /\ i.bop # "Test" => rd.val = s.stk.ssh
  <2>1. CASE i.reg = "SSH" /\ i.bop = "Test"
    <3>1. rd = jit_read_ssh(s)
      BY <2>1
    <3>. QED BY <2>1, <3>1, SshRead DEF RegRead, Base
  <2>2. CASE i.reg = "SSH" /\ i.bop # "Test"
    <3>1. rd = [val |-> s.stk.ssh, s |-> s]
      BY <2>2
    <3>2. s.stk.ssh \in Word
      BY StateFields DEF Stacks
    <3>. QED BY <2>2, <3>1, <3>2, BaseSame DEF Does
  <2>3. CASE i.reg \in {"A", "B"}
    <3>1. rd = read_accu24(s, i.reg)
      BY <2>3
    <3>. QED BY <2>3, <3>1, AccuRead DEF RegRead, Base
  <2>4. CASE i.reg \notin {"SSH", "A", "B"}
    <3>1. rd = [val |-> load_reg(s, i.reg), s |-> s]
      BY <2>4
    <3>2. load_reg(s, i.reg) \in Word
      BY <1>3, <2>4, RegisterLoad
    <3>. QED BY <2>4, <3>1, <3>2, BaseSame DEF Does
  <2>. QED BY <2>1, <2>2, <2>3, <2>4
<1>. HIDE DEF rd, t
<1>5. i.bop # "Test" => new \in Word
  BY <1>1, <1>4, BitChanged
<1>6. rd.s.stk \in Stacks
  BY <1>4, StateFields
<1>7. Base(rd.s, wr) /\ wr.stk = k
  <2>1. CASE i.bop = "Test"
    <3>1. wr = rd.s
      BY <2>1
    <3>2. Base(rd.s, rd.s)
      BY <1>4, BaseSame DEF Does
    <3>. QED BY <1>4, <2>1, <3>1, <3>2
  <2>2. CASE i.bop # "Test" /\ i.reg = "SSH"
    <3>1. wr = tos
      BY <2>2
    <3>2. write_ssh_tos(rd.s.stk, new) \in Stacks
      BY <1>5, <1>6, <2>2, StackTypes
    <3>3. Base(rd.s, tos) /\ tos.stk = write_ssh_tos(rd.s.stk, new)
      BY <1>4, <3>2, StkChanged
    <3>4. rd.s.stk = s.stk /\ new = apply_bit_op(s.stk.ssh, i.bit, i.bop)
      BY <1>4, <2>2
    <3>. HIDE DEF wr, tos, new
    <3>. QED BY <2>2, <3>1, <3>3, <3>4
  <2>3. CASE i.bop # "Test" /\ i.reg \in {"A", "B"}
    <3>1. wr = write_reg_for_move(rd.s, i.reg, new)
      BY <2>3
    <3>2. Does(rd.s, write_reg_for_move(rd.s, i.reg, new))
      BY <1>4, <1>5, <2>3, Names, Stores
    <3>3. i.reg # "SSH"
      BY <2>3
    <3>. HIDE DEF wr, new
    <3>. QED BY <1>4, <3>1, <3>2, <3>3 DEF Does
  <2>4. CASE i.bop # "Test" /\ i.reg \notin {"SSH", "A", "B"}
    <3>1. wr = store_reg(rd.s, i.reg, new)
      BY <2>4
    <3>2. Does(rd.s, store_reg(rd.s, i.reg, new))
      BY <1>3, <1>4, <1>5, <2>4, RegisterStore
    <3>3. i.reg # "SSH"
      BY <2>4
    <3>. HIDE DEF wr, new
    <3>. QED BY <1>4, <3>1, <3>2, <3>3 DEF Does
  <2>. QED BY <1>1, <2>1, <2>2, <2>3, <2>4
<1>. HIDE DEF wr
<1>8. Does(wr, t)
  BY <1>1, <1>2, <1>4, <1>7, CarryChanged, Masks DEF Base
<1>9. Base(s, t) /\ t.stk = k
  <2>1. Base(s, wr)
    BY <1>4, <1>7, BaseTrans
  <2>. QED BY <1>7, <1>8, <2>1, BaseTrans DEF Does
<1>. QED BY <1>9 DEF t, k

\* A record of bits is a status register.
LEMMA SrFields ==
    ASSUME NEW f
    PROVE  LET F == {"s1", "s0", "sm", "rm", "S", "L", "E", "U", "N", "Z", "V", "C"}
           IN  f \in Srs <=> f \in [F -> {0, 1}]
<1>. DEFINE F == {"s1", "s0", "sm", "rm", "S", "L", "E", "U", "N", "Z", "V", "C"}
<1>1. ASSUME f \in Srs PROVE f \in [F -> {0, 1}]
  BY <1>1 DEF Srs
<1>2. ASSUME f \in [F -> {0, 1}] PROVE f \in Srs
  <2>1. f = [s1 |-> f.s1, s0 |-> f.s0, sm |-> f.sm, rm |-> f.rm, S |-> f.S, L |-> f.L,
             E |-> f.E, U |-> f.U, N |-> f.N, Z |-> f.Z, V |-> f.V, C |-> f.C]
    BY <1>2
  <2>. QED BY <1>2, <2>1 DEF Srs
<1>. QED BY <1>1, <1>2

\* ANDI and ORI with CCR.
LEMMA CcrImmediate ==
    ASSUME NEW s \in States, NEW i, i.op \in {"andi", "ori"}
    PROVE  Does(s, emit_andi(s, i)) /\ Does(s, emit_ori(s, i))
<1>. DEFINE F == {"s1", "s0", "sm", "rm", "S", "L", "E", "U", "N", "Z", "V", "C"}
            a == [f \in DOMAIN s.sr |-> IF f \in CcrBits \ i.flags THEN 0 ELSE s.sr[f]]
            b == [f \in DOMAIN s.sr |-> IF f \in i.flags THEN 1 ELSE s.sr[f]]
<1>1. s.sr \in [F -> {0, 1}]
  BY StateFields, SrFields
<1>2. a \in [F -> {0, 1}] /\ b \in [F -> {0, 1}]
  BY <1>1
<1>3. a \in Srs /\ b \in Srs
  BY <1>2, SrFields
<1>4. emit_andi(s, i) = [s EXCEPT !.sr = a] /\ emit_ori(s, i) = [s EXCEPT !.sr = b]
  BY DEF emit_andi, emit_ori
<1>. HIDE DEF a, b
<1>. QED BY <1>3, <1>4, SrChanged

-------------------------------------------------------------------------------
(* The stack and the frames the program believes in.                       *)

Frames == [h : Word, l : Srs]
Holds(k, fr) ==
    /\ k \in Stacks /\ Coherent(k) /\ fr \in Seq(Frames) /\ k.ptr = Len(fr)
    /\ \A j \in 1 .. Len(fr) : k.hi[j] = fr[j].h /\ k.lo[j] = fr[j].l

\* A call pushes a frame.
LEMMA FramePushed ==
    ASSUME NEW k, NEW fr, Holds(k, fr), k.ptr < Depth - 1, NEW h \in Word, NEW l \in Srs
    PROVE  Holds(inline_push(k, h, l), Append(fr, [h |-> h, l |-> l]))
<1>. DEFINE q == inline_push(k, h, l)
            f == [h |-> h, l |-> l]
            n == Len(fr)
<1>1. k \in Stacks /\ fr \in Seq(Frames) /\ n \in Nat /\ k.ptr = n /\ n < Depth - 1
  BY DEF Holds
<1>2. q \in Stacks
  BY <1>1, StackTypes
<1>3. Up(k.ptr) = n + 1 /\ n + 1 \in Slots
  BY <1>1, DepthAssumption DEF Up, Slots
<1>4. /\ q.ptr = n + 1 /\ q.hi = [k.hi EXCEPT ![n + 1] = h] /\ q.lo = [k.lo EXCEPT ![n + 1] = l]
      /\ q.ssh = h /\ q.ssl = l
  BY <1>1, <1>3 DEF inline_push, Stacks
<1>5. q.hi[n + 1] = h /\ q.lo[n + 1] = l
      /\ \A j \in 1 .. n : q.hi[j] = k.hi[j] /\ q.lo[j] = k.lo[j]
  <2>1. \A j \in 1 .. n : j \in Slots /\ j # n + 1
    BY <1>1, <1>3, DepthAssumption DEF Slots
  <2>2. k.hi \in [Slots -> Word] /\ k.lo \in [Slots -> Srs]
    BY <1>1 DEF Stacks
  <2>. HIDE DEF q, n
  <2>. QED BY <1>3, <1>4, <2>1, <2>2
<1>6. /\ f \in Frames /\ Append(fr, f) \in Seq(Frames) /\ Len(Append(fr, f)) = n + 1
      /\ Append(fr, f)[n + 1] = f /\ \A j \in 1 .. n : Append(fr, f)[j] = fr[j]
  BY <1>1 DEF Frames
<1>7. f.h = h /\ f.l = l
  OBVIOUS
<1>. HIDE DEF q, f
<1>8. Coherent(q)
  BY <1>4, <1>5 DEF Coherent
<1>9. \A j \in 1 .. n : k.hi[j] = fr[j].h /\ k.lo[j] = fr[j].l
  BY DEF Holds
<1>10. \A j \in 1 .. n + 1 : j = n + 1 \/ j \in 1 .. n
  BY <1>1
<1>11. \A j \in 1 .. n + 1 : q.hi[j] = Append(fr, f)[j].h /\ q.lo[j] = Append(fr, f)[j].l
  BY <1>5, <1>6, <1>7, <1>9, <1>10
<1>12. Holds(q, Append(fr, f))
  BY <1>2, <1>4, <1>6, <1>8, <1>11 DEF Holds
<1>. QED BY <1>12 DEF q, f

\* A write of SSH pushes half a frame.
LEMMA SshPushed ==
    ASSUME NEW k, NEW fr, Holds(k, fr), k.ptr < Depth - 1, NEW h \in Word
    PROVE  LET q == write_ssh(k, h)
           IN  Holds(q, Append(fr, [h |-> q.ssh, l |-> q.ssl]))
<1>. DEFINE q == write_ssh(k, h)
            n == Len(fr)
            l == k.lo[n + 1]
            p == inline_push(k, h, l)
<1>1. k \in Stacks /\ n \in Nat /\ k.ptr = n /\ n < Depth - 1
  BY DEF Holds
<1>2. Up(k.ptr) = n + 1 /\ n + 1 \in Slots
  BY <1>1, DepthAssumption DEF Up, Slots
<1>3. l \in Srs
  BY <1>1, <1>2 DEF Stacks
<1>4. q.ssh = h /\ q.ssl = l
  BY <1>1, <1>2 DEF write_ssh, Stacks
<1>5. q = p
  <2>1. [k.lo EXCEPT ![n + 1] = l] = k.lo
    BY <1>1, <1>2 DEF Stacks
  <2>2. q = [k EXCEPT !.ptr = n + 1, !.se = @ \/ k.ptr = Depth - 1, !.sc = ScUp(@),
                      !.hi[n + 1] = h, !.ssh = h, !.ssl = l]
    BY <1>2 DEF write_ssh
  <2>3. p = [k EXCEPT !.ptr = n + 1, !.se = @ \/ k.ptr = Depth - 1, !.sc = ScUp(@),
                      !.hi[n + 1] = h, !.lo[n + 1] = l, !.ssh = h, !.ssl = l]
    BY <1>2 DEF inline_push
  <2>4. q \in Stacks /\ p \in Stacks
    BY <1>1, <1>3, StackTypes
  <2>5. /\ q.ptr = p.ptr /\ q.se = p.se /\ q.uf = p.uf /\ q.sc = p.sc /\ q.hi = p.hi /\ q.lo = p.lo
        /\ q.ssh = p.ssh /\ q.ssl = p.ssl
    BY <1>1, <2>1, <2>2, <2>3 DEF Stacks
  <2>. HIDE DEF q, p, l
  <2>. QED BY <2>4, <2>5 DEF Stacks
<1>6. Holds(p, Append(fr, [h |-> h, l |-> l]))
  BY <1>1, <1>3, FramePushed
<1>. QED BY <1>4, <1>5, <1>6

\* A pop takes the last frame.
LEMMA FramePopped ==
    ASSUME NEW k, NEW fr, Holds(k, fr), k.ptr > 0
    PROVE  /\ Holds(stack_pop(k), SubSeq(fr, 1, Len(fr) - 1))
           /\ k.ssh = fr[Len(fr)].h /\ k.hi[k.ptr] = fr[Len(fr)].h
           /\ k.lo[k.ptr] = fr[Len(fr)].l /\ stack_pop(k).ptr < Depth - 1
<1>. DEFINE q == stack_pop(k)
            n == Len(fr)
            g == SubSeq(fr, 1, n - 1)
<1>1. k \in Stacks /\ fr \in Seq(Frames) /\ n \in Nat /\ k.ptr = n /\ n > 0 /\ n - 1 \in Nat
  BY DEF Holds
<1>2. n \in Slots /\ n - 1 \in Slots /\ Down(k.ptr) = n - 1
  BY <1>1, DepthAssumption DEF Stacks, Slots, Down
<1>3. /\ q.ptr = n - 1 /\ q.hi = k.hi /\ q.lo = k.lo /\ q.ssh = k.hi[n - 1] /\ q.ssl = k.lo[n - 1]
  BY <1>2 DEF stack_pop
<1>4. q \in Stacks
  BY <1>1, StackTypes
<1>5. g \in Seq(Frames) /\ Len(g) = n - 1 /\ \A j \in 1 .. n - 1 : g[j] = fr[j]
  <2>1. \A j \in 1 .. n - 1 : fr[j] \in Frames
    BY <1>1
  <2>2. /\ g \in Seq(Frames) /\ Len(g) = (IF 1 <= n - 1 THEN n - 1 - 1 + 1 ELSE 0)
        /\ \A j \in 1 .. n - 1 - 1 + 1 : g[j] = fr[1 + j - 1]
    BY <1>1, <2>1, SubSeqProperties
  <2>. DEFINE z == Len(g)
  <2>. HIDE DEF g, n
  <2>3. Len(g) = n - 1 /\ n - 1 - 1 + 1 = n - 1
    <3>1. n \in Int /\ n >= 1
      BY <1>1
    <3>2. z = (IF 1 <= n - 1 THEN n - 1 - 1 + 1 ELSE 0)
      BY <2>2
    <3>. HIDE DEF z
    <3>3. z = n - 1 /\ n - 1 - 1 + 1 = n - 1
      BY <3>1, <3>2
    <3>. QED BY <3>3 DEF z
  <2>4. ASSUME NEW j \in 1 .. n - 1 PROVE g[j] = fr[j]
    <3>1. 1 + j - 1 = j
      OBVIOUS
    <3>2. g[j] = fr[1 + j - 1]
      BY <2>2, <2>3
    <3>. QED BY <3>1, <3>2
  <2>. QED BY <2>2, <2>3, <2>4
<1>6. \A j \in 1 .. n : k.hi[j] = fr[j].h /\ k.lo[j] = fr[j].l
  BY DEF Holds
<1>. HIDE DEF q, g
<1>7. Coherent(q)
  BY <1>3 DEF Coherent
<1>8. \A j \in 1 .. Len(g) : j \in 1 .. n /\ j \in 1 .. n - 1
  BY <1>1, <1>5
<1>9. \A j \in 1 .. Len(g) : q.hi[j] = g[j].h /\ q.lo[j] = g[j].l
  BY <1>3, <1>5, <1>6, <1>8
<1>10. Holds(q, g)
  BY <1>3, <1>4, <1>5, <1>7, <1>9 DEF Holds
<1>11. n \in 1 .. n /\ k.ssh = k.hi[k.ptr]
  BY <1>1 DEF Holds, Coherent
<1>12. n - 1 < Depth - 1
  BY <1>1, <1>2, DepthAssumption DEF Slots
<1>. QED BY <1>1, <1>3, <1>6, <1>10, <1>11, <1>12 DEF q, g

\* A bit of SSH changes in the last frame.
LEMMA FrameChanged ==
    ASSUME NEW k, NEW fr, Holds(k, fr), k.ptr > 0, NEW v \in Word
    PROVE  Holds(write_ssh_tos(k, v), [fr EXCEPT ![Len(fr)].h = v])
<1>. DEFINE q == write_ssh_tos(k, v)
            n == Len(fr)
            g == [fr EXCEPT ![n].h = v]
<1>1. k \in Stacks /\ fr \in Seq(Frames) /\ n \in Nat /\ k.ptr = n /\ n > 0 /\ Coherent(k)
  BY DEF Holds
<1>2. n \in Slots /\ n \in 1 .. n
  BY <1>1 DEF Stacks
<1>3. q.ptr = n /\ q.hi = [k.hi EXCEPT ![n] = v] /\ q.lo = k.lo /\ q.ssh = v /\ q.ssl = k.ssl
  BY <1>1 DEF write_ssh_tos, Stacks
<1>4. q \in Stacks
  BY <1>1, StackTypes
<1>5. q.hi[n] = v /\ \A j \in 1 .. n : j # n => q.hi[j] = k.hi[j]
  <2>1. \A j \in 1 .. n : j \in Slots
    BY <1>1, <1>2, DepthAssumption DEF Slots
  <2>2. k.hi \in [Slots -> Word]
    BY <1>1 DEF Stacks
  <2>. HIDE DEF q
  <2>. QED BY <1>2, <1>3, <2>1, <2>2
<1>6. fr[n] \in Frames
  BY <1>1, <1>2
<1>7. g = [fr EXCEPT ![n] = [fr[n] EXCEPT !.h = v]] /\ [fr[n] EXCEPT !.h = v] \in Frames
  BY <1>6 DEF Frames
<1>8. g \in Seq(Frames) /\ Len(g) = n /\ g[n] = [fr[n] EXCEPT !.h = v]
      /\ \A j \in 1 .. n : j # n => g[j] = fr[j]
  BY <1>1, <1>2, <1>7
<1>9. g[n].h = v /\ g[n].l = fr[n].l
  BY <1>6, <1>8 DEF Frames
<1>10. \A j \in 1 .. n : k.hi[j] = fr[j].h /\ k.lo[j] = fr[j].l
  BY DEF Holds
<1>. HIDE DEF q, g
<1>11. Coherent(q)
  BY <1>1, <1>3, <1>5 DEF Coherent
<1>12. \A j \in 1 .. n : q.hi[j] = g[j].h /\ q.lo[j] = g[j].l
  BY <1>2, <1>3, <1>5, <1>8, <1>9, <1>10
<1>13. Holds(q, g)
  BY <1>3, <1>4, <1>8, <1>11, <1>12 DEF Holds
<1>. QED BY <1>13 DEF q, g

-------------------------------------------------------------------------------
(* How many words an instruction takes, as the emitters and the decoder    *)
(* say.                                                                    *)

\* The length the emitter charges for a move is the one the decoder computes.
LEMMA MoveLength ==
    ASSUME NEW i, i.op \notin {"flow", "bittest"}
    PROVE  inst_len(i) = instruction_length(i) /\ inst_len(i) \in {1, 2}
<1>1. CASE i.op \in {"pm0", "pm1", "pm4", "pm5"}
  BY <1>1 DEF inst_len, instruction_length, inst_len_for_ea
<1>2. CASE i.op \in {"movepea", "movecea", "movemea", "bitea", "vsl"}
  BY <1>2 DEF inst_len, instruction_length, inst_len_for_ea
<1>3. CASE i.op \in {"lradisp", "movedisp"}
  BY <1>3 DEF inst_len, instruction_length
<1>4. CASE i.op \notin {"pm0", "pm1", "pm4", "pm5", "movepea", "movecea", "movemea", "bitea", "vsl",
                        "lradisp", "movedisp"}
  BY <1>4 DEF inst_len, instruction_length
<1>. QED BY <1>1, <1>2, <1>3, <1>4

\* The jump, branch and call forms.
LEMMA FormDomain ==
    DOMAIN Forms = {"jmp", "jcc", "jsr", "jscc", "bra", "bcc", "bsr", "bscc", "bra_long",
                    "bcc_long", "bsr_long", "bscc_long", "bra_rn", "bcc_rn", "bsr_rn", "bscc_rn",
                    "jmp_ea", "jcc_ea", "jsr_ea", "jscc_ea"}
BY DEF Forms

\* The forms by the way they find their target and by their words.
LEMMA FormKinds ==
    /\ \A f \in {"jmp", "jcc", "jsr", "jscc"} : Forms[f].target = "abs" /\ Forms[f].words = 1
    /\ \A f \in {"bra", "bcc", "bsr", "bscc"} : Forms[f].target = "rel" /\ Forms[f].words = 1
    /\ \A f \in {"bra_long", "bcc_long", "bsr_long", "bscc_long"} :
         Forms[f].target = "rel" /\ Forms[f].words = 2
    /\ \A f \in {"bra_rn", "bcc_rn", "bsr_rn", "bscc_rn"} :
         Forms[f].target = "rn" /\ Forms[f].words = 1
    /\ \A f \in {"jmp_ea", "jcc_ea", "jsr_ea", "jscc_ea"} :
         Forms[f].target = "ea" /\ Forms[f].words = 0
<1>1. \A f \in {"jmp", "jcc", "jsr", "jscc"} : Forms[f].target = "abs" /\ Forms[f].words = 1
  BY DEF Forms, Form
<1>2. \A f \in {"bra", "bcc", "bsr", "bscc"} : Forms[f].target = "rel" /\ Forms[f].words = 1
  BY DEF Forms, Form
<1>3. \A f \in {"bra_long", "bcc_long", "bsr_long", "bscc_long"} :
         Forms[f].target = "rel" /\ Forms[f].words = 2
  BY DEF Forms, Form
<1>4. \A f \in {"bra_rn", "bcc_rn", "bsr_rn", "bscc_rn"} :
         Forms[f].target = "rn" /\ Forms[f].words = 1
  BY DEF Forms, Form
<1>5. \A f \in {"jmp_ea", "jcc_ea", "jsr_ea", "jscc_ea"} :
         Forms[f].target = "ea" /\ Forms[f].words = 0
  BY DEF Forms, Form
<1>. QED BY <1>1, <1>2, <1>3, <1>4, <1>5

\* The emitter and the decoder agree on the length of every form.
LEMMA FlowLength ==
    ASSUME NEW i, i.op = "flow", i.form \in DOMAIN Forms
    PROVE  EmittedWords(i) = instruction_length(i) /\ EmittedWords(i) \in {1, 2}
<1>1. CASE i.form \in {"jmp", "jcc", "jsr", "jscc", "bra", "bcc", "bsr", "bscc", "bra_rn", "bcc_rn",
                       "bsr_rn", "bscc_rn"}
  <2>1. Forms[i.form].words = 1
    BY <1>1, FormKinds
  <2>. QED BY <1>1, <2>1 DEF EmittedWords, instruction_length
<1>2. CASE i.form \in {"bra_long", "bcc_long", "bsr_long", "bscc_long"}
  <2>1. Forms[i.form].words = 2
    BY <1>2, FormKinds
  <2>. QED BY <1>2, <2>1 DEF EmittedWords, instruction_length
<1>3. CASE i.form \in {"jmp_ea", "jcc_ea", "jsr_ea", "jscc_ea"}
  <2>1. Forms[i.form].words = 0
    BY <1>3, FormKinds
  <2>. QED BY <1>3, <2>1 DEF EmittedWords, instruction_length, inst_len_for_ea
<1>. QED BY <1>1, <1>2, <1>3, FormDomain

\* A branch on a bit has two words.
LEMMA BitTestLength ==
    ASSUME NEW i, i.op = "bittest"
    PROVE  instruction_length(i) = 2
BY DEF instruction_length

-------------------------------------------------------------------------------
(* One instruction.                                                        *)

\* The machine between two instructions, and within one once PC was set.
Core(s, t) == /\ s \in States /\ t \in States /\ t.map = s.map
              /\ Apart(s.map) => Marked(s.map, s.m, t.m)

\* One after another.
LEMMA CoreTrans ==
    ASSUME NEW r, NEW s, NEW t, Core(r, s), Core(s, t)
    PROVE  Core(r, t)
BY MarkedTrans DEF Core

\* Emitted code that leaves PC alone is such a change.
LEMMA BaseCore ==
    ASSUME NEW s, NEW t, Base(s, t)
    PROVE  Core(s, t)
BY DEF Core, Base

\* So is setting PC, the words to advance, or both.
LEMMA PcChanged ==
    ASSUME NEW s, NEW t, Core(s, t), NEW p \in Word, NEW n \in 0 .. 2
    PROVE  /\ Core(s, [t EXCEPT !.pc = p, !.adv = n])
           /\ Core(s, [t EXCEPT !.pc = p])
           /\ Core(s, [t EXCEPT !.adv = n])
<1>1. Core(s, [t EXCEPT !.pc = p, !.adv = n])
  BY DEF Core, States
<1>2. Core(s, [t EXCEPT !.pc = p])
  BY DEF Core, States
<1>3. Core(s, [t EXCEPT !.adv = n])
  BY DEF Core, States
<1>. QED BY <1>1, <1>2, <1>3

\* The state an emitter starts from.
Begun(s, t, i) ==
    /\ Core(s, t) /\ t.adv = inst_len(i) /\ t.pc = s.pc /\ t.sr = s.sr /\ t.stk = s.stk
    /\ t.reg = s.reg /\ t.acc = s.acc /\ t.m.buf = s.m.buf /\ t.m.dev = s.m.dev

\* Start is such a state.
LEMMA StartState ==
    ASSUME st \in States, NEW i, inst_len(i) \in {1, 2}
    PROVE  Begun(st, Start(i), i)
<1>. DEFINE n == [st.m EXCEPT !.log = <<>>]
            u == [st EXCEPT !.m = n]
            t == [u EXCEPT !.adv = inst_len(i)]
<1>1. st.m \in Mems
  BY StateFields
<1>2. n \in Mems /\ n.buf = st.m.buf /\ n.dev = st.m.dev /\ n.dirty = st.m.dirty
  <2>1. \A S : <<>> \in Seq(S)
    OBVIOUS
  <2>2. <<>> \in Logs
    BY <2>1 DEF Logs
  <2>. QED BY <1>1, <2>2 DEF Mems
<1>3. Does(st, u)
  BY <1>2, MarkedSame, MemChanged
<1>4. Core(st, u) /\ u \in States
  BY <1>3, BaseCore, DoesState DEF Does
<1>5. Core(st, t)
  <2>1. inst_len(i) \in 0 .. 2 /\ st.pc \in Word
    BY StateFields
  <2>. HIDE DEF u
  <2>. QED BY <1>4, <2>1, PcChanged
<1>6. Start(i) = t
  <2>1. Start(i) = [st EXCEPT !.m = n, !.adv = inst_len(i)]
    BY DEF Start
  <2>. QED BY <2>1
<1>7. /\ t.adv = inst_len(i) /\ t.pc = st.pc /\ t.sr = st.sr /\ t.stk = st.stk
      /\ t.reg = st.reg /\ t.acc = st.acc /\ t.m = n
  BY DEF States
<1>. HIDE DEF t, u, n
<1>. QED BY <1>2, <1>5, <1>6, <1>7 DEF Begun

\* The menus hold instructions that have an encoding.
LEMMA OneLength ==
    ASSUME NEW i
    PROVE  inst_len(i) \in {1, 2}
<1>1. CASE i.op \in {"flow", "bittest"}
  BY <1>1 DEF inst_len
<1>. QED BY <1>1, MoveLength

\* What an instruction leaves: the frames of the calls in progress on the
\* stack, and either PC and the number of words to advance, or the target.
Outcome(i, t) ==
    /\ Core(st, t) /\ Holds(t.stk, NextFrames(i, st, t))
    /\ \/ /\ t.adv = instruction_length(i) /\ t.adv \in {1, 2} /\ t.pc = st.pc
          /\ NextPc(i, st) = (st.pc + instruction_length(i)) % 2^W
       \/ t.adv = 0 /\ t.pc = NextPc(i, st)

\* Instructions that neither call nor return.
Straight(i) == i.op \notin {"flow", "bittest", "rts", "rti"}

\* An instruction that moves, popping or pushing SSH as it does so.
LEMMA MovedOutcome ==
    ASSUME st \in States, Holds(st.stk, frames), NEW i, StackRoom(i), Straight(i), NEW t,
           Moved(Start(i), t, PopsSsh(i), PushesSsh(i)),
           ~(i.op = "bitreg" /\ i.reg = "SSH" /\ i.bop # "Test")
    PROVE  Outcome(i, t)
<1>. DEFINE s == Start(i)
            k == IF PopsSsh(i) THEN stack_pop(st.stk) ELSE st.stk
            kept == IF PopsSsh(i) THEN SubSeq(frames, 1, Len(frames) - 1) ELSE frames
<1>1. Begun(st, s, i) /\ inst_len(i) = instruction_length(i) /\ inst_len(i) \in {1, 2}
  BY StartState, OneLength, MoveLength DEF Straight
<1>2. ~Calls(i) /\ ~Returns(i)
  BY DEF Straight, Calls, Returns
<1>. HIDE DEF s
<1>3. Base(s, t) /\ (IF PushesSsh(i) THEN \E v \in Word : t.stk = write_ssh(k, v) ELSE t.stk = k)
  BY <1>1 DEF Moved, Begun, s
<1>4. Core(st, t)
  BY <1>1, <1>3, BaseCore, CoreTrans DEF Begun
<1>5. Holds(k, kept) /\ (PushesSsh(i) => k.ptr < Depth - 1)
  <2>1. CASE PopsSsh(i)
    BY <2>1, FramePopped DEF StackRoom
  <2>2. CASE ~PopsSsh(i)
    BY <2>2 DEF StackRoom
  <2>. QED BY <2>1, <2>2
<1>6. NextFrames(i, st, t) = IF PushesSsh(i) THEN Append(kept, [h |-> t.stk.ssh, l |-> t.stk.ssl])
                             ELSE kept
  BY <1>2 DEF NextFrames
<1>. HIDE DEF k, kept
<1>7. Holds(t.stk, NextFrames(i, st, t))
  <2>1. CASE PushesSsh(i)
    <3>1. PICK v \in Word : t.stk = write_ssh(k, v)
      BY <1>3, <2>1
    <3>. QED BY <1>5, <1>6, <2>1, <3>1, SshPushed
  <2>2. CASE ~PushesSsh(i)
    BY <1>3, <1>5, <1>6, <2>2
  <2>. QED BY <2>1, <2>2
<1>8. t.adv = instruction_length(i) /\ t.adv \in {1, 2} /\ t.pc = st.pc
  BY <1>1, <1>3 DEF Base, Begun
<1>9. NextPc(i, st) = (st.pc + instruction_length(i)) % 2^W
  BY <1>2 DEF NextPc, Straight
<1>. QED BY <1>4, <1>7, <1>8, <1>9 DEF Outcome

\* An instruction that leaves the stack alone.
LEMMA DoesOutcome ==
    ASSUME st \in States, Holds(st.stk, frames), NEW i, StackRoom(i), Straight(i), NEW t,
           Does(Start(i), t), ~PopsSsh(i), ~PushesSsh(i),
           ~(i.op = "bitreg" /\ i.reg = "SSH" /\ i.bop # "Test")
    PROVE  Outcome(i, t)
<1>1. Moved(Start(i), t, PopsSsh(i), PushesSsh(i))
  BY PlainMove DEF Moved, Does
<1>. QED BY <1>1, MovedOutcome

\* A change of a bit of SSH.
LEMMA SshBitOutcome ==
    ASSUME st \in States, Holds(st.stk, frames), NEW i, StackRoom(i), OtherOperands(i),
           i.op = "bitreg", i.reg = "SSH", i.bop # "Test", NEW t,
           t = emit_bit_op_reg(Start(i), i)
    PROVE  Outcome(i, t)
<1>. DEFINE s == Start(i)
            v == apply_bit_op(st.stk.ssh, i.bit, i.bop)
            n == Len(frames)
<1>1. Begun(st, s, i) /\ inst_len(i) = instruction_length(i) /\ inst_len(i) \in {1, 2}
  BY StartState, OneLength, MoveLength
<1>2. s \in States /\ s.stk = st.stk
  BY <1>1 DEF Begun, Core
<1>. HIDE DEF s
<1>3. Base(s, t) /\ t.stk = write_ssh_tos(st.stk, v)
  BY <1>2, BitReg DEF s
<1>4. Core(st, t)
  BY <1>1, <1>3, BaseCore, CoreTrans DEF Begun
<1>5. st.stk.ssh \in Word /\ i.bit \in 0 .. W - 1 /\ i.bop \in BitOps /\ st.stk.ptr > 0
  BY StateFields DEF OtherOperands, StackRoom, Stacks
<1>6. v \in Word /\ st.stk.ssh = frames[n].h
  BY <1>5, BitChanged, FramePopped
<1>7. ~Calls(i) /\ ~Returns(i) /\ ~PopsSsh(i) /\ ~PushesSsh(i)
  BY DEF Calls, Returns, PopsSsh, PushesSsh
<1>8. NextFrames(i, st, t) = [frames EXCEPT ![n].h = apply_bit_op(@, i.bit, i.bop)]
  BY <1>7 DEF NextFrames
<1>9. [frames EXCEPT ![n].h = apply_bit_op(@, i.bit, i.bop)] = [frames EXCEPT ![n].h = v]
  BY <1>6
<1>. HIDE DEF v
<1>10. Holds(t.stk, NextFrames(i, st, t))
  <2>1. Holds(write_ssh_tos(st.stk, v), [frames EXCEPT ![Len(frames)].h = v])
    BY <1>5, <1>6, FrameChanged
  <2>. QED BY <1>3, <1>8, <1>9, <2>1
<1>11. t.adv = instruction_length(i) /\ t.adv \in {1, 2} /\ t.pc = st.pc
  BY <1>1, <1>3 DEF Base, Begun
<1>12. NextPc(i, st) = (st.pc + instruction_length(i)) % 2^W
  BY <1>7 DEF NextPc
<1>. QED BY <1>4, <1>10, <1>11, <1>12 DEF Outcome

\* A branch that is taken, and one that is not: r is the state once the
\* operand was read, kept the frames that are left.
Kept(i) == IF PopsSsh(i) \/ Returns(i) THEN SubSeq(frames, 1, Len(frames) - 1) ELSE frames
Branches(i) == i.op \in {"flow", "bittest"}

\* A branch that is taken: PC is the target, a call has pushed its frame.
LEMMA TakenOutcome ==
    ASSUME st \in States, NEW i, Branches(i), instruction_length(i) \in {1, 2}, NEW s,
           Begun(st, s, i), NEW r, Base(s, r),
           r.sr = st.sr, Holds(r.stk, Kept(i)), Calls(i) => r.stk.ptr < Depth - 1,
           Taken(i, st), NEW to \in Word, NextPc(i, st) = to, NEW t,
           t = [(IF Calls(i) THEN push_return(r, instruction_length(i)) ELSE r)
                  EXCEPT !.pc = to, !.adv = 0]
    PROVE  Outcome(i, t)
<1>. DEFINE h == mask_pc(r.pc + instruction_length(i))
            x == IF Calls(i) THEN push_return(r, instruction_length(i)) ELSE r
            f == [h |-> h, l |-> r.sr]
<1>1. r \in States /\ r.pc = st.pc /\ st.pc \in Word /\ r.sr \in Srs /\ r.stk \in Stacks
  BY StateFields DEF Base, Begun
<1>2. h \in Word /\ h = (st.pc + instruction_length(i)) % 2^W
  <2>1. r.pc + instruction_length(i) \in Int
    BY <1>1, Masks
  <2>. QED BY <1>1, <2>1, Masks DEF mask_pc, mask24
<1>3. Base(r, x) /\ x.stk = IF Calls(i) THEN inline_push(r.stk, h, r.sr) ELSE r.stk
  <2>1. CASE Calls(i)
    <3>1. inline_push(r.stk, h, r.sr) \in Stacks
      BY <1>1, <1>2, StackTypes
    <3>2. x = [r EXCEPT !.stk = inline_push(r.stk, h, r.sr)]
      BY <2>1 DEF push_return
    <3>. QED BY <1>1, <2>1, <3>1, <3>2, StkChanged
  <2>2. CASE ~Calls(i)
    BY <1>1, <2>2, BaseSame DEF Does
  <2>. QED BY <2>1, <2>2
<1>4. t = [x EXCEPT !.pc = to, !.adv = 0]
  OBVIOUS
<1>. HIDE DEF h, x
<1>5. Core(st, x) /\ x \in States
  BY <1>3, BaseCore, CoreTrans DEF Begun, Base
<1>6. Core(st, t)
  <2>1. 0 \in 0 .. 2
    OBVIOUS
  <2>2. Core(st, [x EXCEPT !.pc = to, !.adv = 0])
    BY <1>5, <2>1, PcChanged
  <2>. QED BY <1>4, <2>2
<1>7. t.pc = to /\ t.adv = 0 /\ t.stk = x.stk
  BY <1>4, <1>5 DEF States
<1>8. ~PushesSsh(i)
  BY DEF PushesSsh, Branches
<1>9. NextFrames(i, st, t) = IF Calls(i) THEN Append(Kept(i), f) ELSE Kept(i)
  <2>1. f = [h |-> (st.pc + instruction_length(i)) % 2^W, l |-> st.sr]
    BY <1>2
  <2>. HIDE DEF f
  <2>. QED BY <1>8, <2>1 DEF NextFrames, Kept, Branches
<1>10. Holds(t.stk, NextFrames(i, st, t))
  <2>1. CASE Calls(i)
    <3>1. Holds(inline_push(r.stk, h, r.sr), Append(Kept(i), f))
      BY <1>1, <1>2, <2>1, FramePushed
    <3>. HIDE DEF f
    <3>. QED BY <1>3, <1>7, <1>9, <2>1, <3>1
  <2>2. CASE ~Calls(i)
    BY <1>3, <1>7, <1>9, <2>2
  <2>. QED BY <2>1, <2>2
<1>. QED BY <1>6, <1>7, <1>10 DEF Outcome

\* A branch that is not taken: PC is to advance over the whole instruction.
LEMMA NotTakenOutcome ==
    ASSUME st \in States, NEW i, Branches(i), instruction_length(i) \in {1, 2}, NEW s,
           Begun(st, s, i), NEW r, Base(s, r),
           Holds(r.stk, Kept(i)), ~Taken(i, st), NEW t,
           t = [r EXCEPT !.adv = instruction_length(i)]
    PROVE  Outcome(i, t)
<1>1. Core(st, r) /\ r \in States /\ r.pc = st.pc
  BY BaseCore, CoreTrans DEF Begun, Base
<1>2. st.pc \in Word /\ instruction_length(i) \in 0 .. 2
  BY StateFields
<1>3. Core(st, t)
  BY <1>1, <1>2, PcChanged
<1>4. t.pc = st.pc /\ t.adv = instruction_length(i) /\ t.stk = r.stk
  BY <1>1 DEF States
<1>5. ~PushesSsh(i) /\ ~Returns(i)
  BY DEF PushesSsh, Branches, Returns
<1>6. NextFrames(i, st, t) = Kept(i)
  BY <1>5 DEF NextFrames, Kept, Branches
<1>7. NextPc(i, st) = (st.pc + instruction_length(i)) % 2^W
  BY <1>5 DEF NextPc
<1>. QED BY <1>3, <1>4, <1>6, <1>7 DEF Outcome

\* What an operand is depends on the registers and on what memory holds.
LEMMA SameAddress ==
    ASSUME NEW r, NEW s, NEW e, IsEa(e), s.reg = r.reg
    PROVE  calc_ea(s, e).addr = calc_ea(r, e).addr
<1>1. CASE e.mode \in {"(R)-N", "(R)+N", "(R)-", "(R)+", "(R)"}
  BY <1>1 DEF calc_ea
<1>2. CASE e.mode \in {"(R+N)", "-(R)"}
  BY <1>2 DEF calc_ea
<1>3. CASE e.mode \in {"abs", "imm"}
  BY <1>3 DEF calc_ea
<1>. QED BY <1>1, <1>2, <1>3 DEF IsEa

\* A read depends on the arrays and devices, not on marks or the log.
LEMMA SameView ==
    ASSUME NEW map, NEW m, NEW n, n.buf = m.buf, n.dev = m.dev, NEW space, NEW addr
    PROVE  read_memory(map, n, space, addr).val = read_memory(map, m, space, addr).val
<1>. DEFINE rg == lookup(map[space], addr)
<1>1. CASE rg.kind = "Buffer"
  BY <1>1 DEF read_memory
<1>2. CASE rg.kind = "Callback"
  BY <1>2 DEF read_memory, DeviceRead
<1>3. CASE rg.kind \notin {"Buffer", "Callback"}
  BY <1>3 DEF read_memory
<1>. QED BY <1>1, <1>2, <1>3

\* Jumps, branches and calls, conditional or not, with every kind of target.
LEMMA FlowOutcome ==
    ASSUME st \in States, Holds(st.stk, frames), NEW i, StackRoom(i), FlowOperands(i),
           i.op = "flow", NEW t, t = emit_flow(Start(i), i)
    PROVE  Outcome(i, t)
<1>. DEFINE s == Start(i)
            f == Forms[i.form]
            e == IF f.target = "ea" THEN calc_ea(s, i.ea) ELSE [addr |-> i.at, s |-> s]
            to == CASE f.target = "rel" -> mask_pc(s.pc + i.at)
                    [] f.target = "rn" -> mask24(s.pc + s.reg["R0"])
                    [] OTHER -> e.addr
            taken == f.cond => eval_cc(i.cc, e.s.sr)
            w == EmittedWords(i)
<1>1. /\ i.form \in DOMAIN Forms
      /\ f.target = "abs" => i.at \in Word
      /\ f.target = "rel" => i.at \in Int
      /\ f.target = "ea" => IsEa(i.ea)
  BY DEF FlowOperands
<1>2. f.target \in {"abs", "rel", "rn", "ea"}
  BY <1>1, FormDomain, FormKinds
<1>3. Begun(st, s, i)
  BY StartState, OneLength
<1>4. w = instruction_length(i) /\ w \in {1, 2} /\ Branches(i)
  BY <1>1, FlowLength DEF Branches
<1>5. /\ s \in States /\ s.pc = st.pc /\ s.reg = st.reg /\ s.sr = st.sr /\ s.stk = st.stk
  BY <1>3 DEF Begun, Core
<1>6. t = IF taken THEN [(IF f.call THEN push_return(e.s, w) ELSE e.s) EXCEPT !.pc = to, !.adv = 0]
          ELSE [e.s EXCEPT !.adv = w]
  BY DEF emit_flow
<1>. HIDE DEF s, w
<1>7. /\ Base(s, e.s) /\ e.s.sr = st.sr /\ e.s.stk = st.stk
      /\ f.target = "ea" => e.addr = calc_ea(st, i.ea).addr /\ e.addr \in Word
      /\ f.target # "ea" => e.addr = i.at
  <2>1. CASE f.target = "ea"
    <3>1. e = calc_ea(s, i.ea)
      BY <2>1
    <3>2. EaOk(s, calc_ea(s, i.ea))
      BY <1>1, <1>5, <2>1, EffectiveAddress
    <3>3. calc_ea(s, i.ea).addr = calc_ea(st, i.ea).addr
      BY <1>1, <1>5, <2>1, SameAddress
    <3>. QED BY <1>5, <2>1, <3>1, <3>2, <3>3 DEF EaOk, Does
  <2>2. CASE f.target # "ea"
    <3>1. e = [addr |-> i.at, s |-> s]
      BY <2>2
    <3>. HIDE DEF e
    <3>. QED BY <1>5, <2>2, <3>1, BaseSame DEF Does
  <2>. QED BY <2>1, <2>2
<1>8. st.pc \in Int /\ st.reg["R0"] \in Int
  <2>1. "R0" \in RegNames
    BY DEF RegNames
  <2>. QED BY <2>1, StateFields, Masks
<1>9. to \in Word /\ to = CASE f.target = "abs" -> i.at
             [] f.target = "rel" -> (st.pc + i.at) % 2^W
             [] f.target = "rn" -> (st.pc + st.reg["R0"]) % 2^W
             [] OTHER -> calc_ea(st, i.ea).addr
  <2>1. CASE f.target = "abs"
    BY <1>1, <1>7, <2>1
  <2>2. CASE f.target = "rel"
    <3>1. st.pc + i.at \in Int
      BY <1>1, <1>8, <2>2
    <3>2. (st.pc + i.at) % 2^W \in Word
      BY <3>1, Masks DEF mask24
    <3>. QED BY <1>5, <2>2, <3>2 DEF mask_pc
  <2>3. CASE f.target = "rn"
    <3>1. st.pc + st.reg["R0"] \in Int
      BY <1>8
    <3>2. (st.pc + st.reg["R0"]) % 2^W \in Word
      BY <3>1, Masks DEF mask24
    <3>. QED BY <1>5, <2>3, <3>2 DEF mask24
  <2>4. CASE f.target = "ea"
    BY <1>7, <2>4
  <2>. QED BY <1>2, <2>1, <2>2, <2>3, <2>4
<1>10. Taken(i, st) <=> taken
  BY <1>7 DEF Taken
<1>11. Calls(i) <=> f.call
  BY DEF Calls
<1>12. ~Returns(i) /\ ~PopsSsh(i) /\ Kept(i) = frames
  BY DEF Returns, PopsSsh, Kept
<1>13. Holds(e.s.stk, Kept(i)) /\ (Calls(i) => e.s.stk.ptr < Depth - 1)
  BY <1>7, <1>12 DEF StackRoom
<1>14. CASE taken
  <2>1. NextPc(i, st) = to
    BY <1>9, <1>10, <1>12, <1>14 DEF NextPc
  <2>2. t = [(IF Calls(i) THEN push_return(e.s, instruction_length(i)) ELSE e.s)
               EXCEPT !.pc = to, !.adv = 0]
    BY <1>4, <1>6, <1>11, <1>14
  <2>3. Taken(i, st)
    BY <1>10, <1>14
  <2>. HIDE DEF e, f, to, taken
  <2>. QED BY <1>3, <1>4, <1>7, <1>9, <1>13, <2>1, <2>2, <2>3, TakenOutcome, ZenonT(60)
<1>15. CASE ~taken
  <2>1. t = [e.s EXCEPT !.adv = instruction_length(i)]
    BY <1>4, <1>6, <1>15
  <2>2. ~Taken(i, st)
    BY <1>10, <1>15
  <2>. HIDE DEF e, f, to, taken
  <2>. QED BY <1>3, <1>4, <1>7, <1>13, <2>1, <2>2, NotTakenOutcome
<1>. QED BY <1>14, <1>15

\* The operand of a branch on a bit, as the emitted code reads it and as the
\* program sees it.
Operand(i) == CASE i.operand = "const" -> View(st, i.space, i.at)
                [] i.operand = "ea" -> View(st, i.space, calc_ea(st, i.ea).addr)
                [] OTHER -> IF i.reg = "SSH" THEN frames[Len(frames)].h ELSE load_reg(st, i.reg)

\* The operand of a branch on a bit is the one the instruction means; SSH is
\* popped.
LEMMA OperandRead ==
    ASSUME st \in States, Holds(st.stk, frames), NEW i, StackRoom(i), FlowOperands(i),
           i.op = "bittest", NEW s, Begun(st, s, i)
    PROVE  LET rd == read_bit_test_operand(s, i)
           IN  /\ Base(s, rd.s) /\ rd.s.sr = st.sr /\ rd.val = Operand(i)
               /\ rd.s.stk = IF PopsSsh(i) THEN stack_pop(st.stk) ELSE st.stk
<1>. DEFINE rd == read_bit_test_operand(s, i)
            P(r) == /\ Base(s, r.s) /\ r.s.sr = st.sr /\ r.val = Operand(i)
                    /\ r.s.stk = IF PopsSsh(i) THEN stack_pop(st.stk) ELSE st.stk
<1>. SUFFICES P(rd)
  OBVIOUS
<1>1. /\ i.operand \in {"const", "ea", "reg"}
      /\ i.operand # "reg" => i.space \in Spaces
      /\ i.operand = "const" => i.at \in Word
      /\ i.operand = "ea" => IsEa(i.ea)
      /\ i.operand = "reg" => i.reg \in ControlRegs
  BY DataSpacesAreSpaces DEF FlowOperands
<1>2. /\ s \in States /\ s.pc = st.pc /\ s.reg = st.reg /\ s.acc = st.acc /\ s.sr = st.sr
      /\ s.stk = st.stk /\ s.map = st.map /\ s.m.buf = st.m.buf /\ s.m.dev = st.m.dev
  BY DEF Begun, Core
<1>3. PopsSsh(i) <=> i.operand = "reg" /\ i.reg = "SSH"
  BY DEF PopsSsh
<1>4. CASE i.operand = "const"
  <2>1. rd = RdConst(s, i.space, i.at)
    BY <1>4 DEF read_bit_test_operand
  <2>2. MemRead(s, rd) /\ rd.val = read_memory(s.map, s.m, i.space, i.at).val
    BY <1>1, <1>2, <1>4, <2>1, MemoryRead
  <2>3. rd.val = Operand(i)
    BY <1>2, <1>4, <2>2, SameView DEF Operand, View
  <2>. HIDE DEF rd
  <2>. QED BY <1>2, <1>3, <1>4, <2>2, <2>3 DEF MemRead, Does
<1>5. CASE i.operand = "ea"
  <2>. DEFINE e == calc_ea(s, i.ea)
  <2>1. rd = RdDyn(e.s, i.space, e.addr)
    BY <1>5 DEF read_bit_test_operand
  <2>2. EaOk(s, e) /\ e.addr = calc_ea(st, i.ea).addr
    BY <1>1, <1>2, <1>5, EffectiveAddress, SameAddress
  <2>. HIDE DEF e
  <2>3. e.s \in States /\ e.addr \in Word /\ e.s.map = s.map /\ e.s.m = s.m /\ e.s.sr = s.sr
        /\ e.s.stk = s.stk /\ Base(s, e.s)
    BY <2>2 DEF EaOk, Does, Base
  <2>4. MemRead(e.s, rd) /\ rd.val = read_memory(s.map, s.m, i.space, e.addr).val
    BY <1>1, <1>5, <2>1, <2>3, MemoryRead
  <2>5. rd.val = Operand(i)
    BY <1>2, <1>5, <2>2, <2>4, SameView DEF Operand, View
  <2>. HIDE DEF rd
  <2>6. Base(e.s, rd.s) /\ rd.s.stk = e.s.stk /\ rd.s.sr = e.s.sr
    BY <2>4 DEF MemRead, Does
  <2>7. Base(s, rd.s)
    BY <2>3, <2>6, BaseTrans
  <2>. QED BY <1>2, <1>3, <1>5, <2>3, <2>5, <2>6, <2>7
<1>6. CASE i.operand = "reg" /\ i.reg = "SSH"
  <2>1. rd = jit_read_ssh(s)
    BY <1>6 DEF read_bit_test_operand
  <2>2. RegRead(s, "SSH", rd) /\ rd.val = s.stk.ssh
    BY <1>2, <2>1, SshRead
  <2>3. rd.s.sr = s.sr
    BY <1>2, <2>1 DEF jit_read_ssh, States
  <2>4. st.stk.ptr > 0
    BY <1>3, <1>6 DEF StackRoom
  <2>5. st.stk.ssh = frames[Len(frames)].h
    BY <2>4, FramePopped
  <2>6. Operand(i) = frames[Len(frames)].h
    BY <1>6 DEF Operand
  <2>. HIDE DEF rd
  <2>. QED BY <1>2, <1>3, <1>6, <2>2, <2>3, <2>5, <2>6 DEF RegRead
<1>7. CASE i.operand = "reg" /\ i.reg # "SSH"
  <2>1. rd = [val |-> load_reg(s, i.reg), s |-> s]
    BY <1>7 DEF read_bit_test_operand
  <2>2. load_reg(s, i.reg) = load_reg(st, i.reg)
    BY <1>2 DEF load_reg
  <2>3. Operand(i) = load_reg(st, i.reg)
    BY <1>7 DEF Operand
  <2>. HIDE DEF rd
  <2>. QED BY <1>2, <1>3, <1>7, <2>1, <2>2, <2>3, BaseSame DEF Does
<1>. QED BY <1>1, <1>4, <1>5, <1>6, <1>7

\* Branches and calls on a bit, also of SSH: the pop comes before the push.
LEMMA BitTestOutcome ==
    ASSUME st \in States, Holds(st.stk, frames), NEW i, StackRoom(i), FlowOperands(i),
           i.op = "bittest", NEW t, t = emit_bit_test_branch(Start(i), i)
    PROVE  Outcome(i, t)
<1>. DEFINE s == Start(i)
            rd == read_bit_test_operand(s, i)
            to == IF i.rel THEN mask_pc(s.pc + i.to) ELSE i.to
            taken == bit_test_predicate(rd.val, i.bit, i.set)
<1>1. i.to \in (IF i.rel THEN Int ELSE Word) /\ i.rel \in BOOLEAN
  BY DEF FlowOperands
<1>2. Begun(st, s, i)
  BY StartState, OneLength
<1>3. instruction_length(i) = 2 /\ Branches(i)
  BY BitTestLength DEF Branches
<1>4. t = IF taken THEN [(IF i.call THEN push_return(rd.s, 2) ELSE rd.s) EXCEPT !.pc = to, !.adv = 0]
          ELSE [rd.s EXCEPT !.adv = 2]
  BY DEF emit_bit_test_branch
<1>5. /\ Base(s, rd.s) /\ rd.s.sr = st.sr /\ rd.val = Operand(i)
      /\ rd.s.stk = IF PopsSsh(i) THEN stack_pop(st.stk) ELSE st.stk
  BY <1>2, OperandRead
<1>6. s.pc = st.pc /\ st.pc \in Int
  BY <1>2, StateFields, Masks DEF Begun
<1>7. Taken(i, st) <=> taken
  BY <1>5 DEF Taken, Operand, bit_test_predicate
<1>8. Calls(i) <=> i.call
  BY DEF Calls
<1>9. ~Returns(i)
  BY DEF Returns
<1>10. to \in Word /\ to = IF i.rel THEN (st.pc + i.to) % 2^W ELSE i.to
  <2>1. CASE i.rel
    <3>1. st.pc + i.to \in Int
      BY <1>1, <1>6, <2>1
    <3>2. (st.pc + i.to) % 2^W \in Word
      BY <3>1, Masks DEF mask24
    <3>. QED BY <1>6, <2>1, <3>2 DEF mask_pc
  <2>2. CASE ~i.rel
    BY <1>1, <2>2
  <2>. QED BY <2>1, <2>2
<1>. HIDE DEF s, rd, to
<1>11. Holds(rd.s.stk, Kept(i)) /\ (Calls(i) => rd.s.stk.ptr < Depth - 1)
  <2>1. CASE PopsSsh(i)
    <3>1. st.stk.ptr > 0
      BY <2>1 DEF StackRoom
    <3>. QED BY <1>5, <2>1, <3>1, FramePopped DEF Kept
  <2>2. CASE ~PopsSsh(i)
    BY <1>5, <1>9, <2>2 DEF Kept, StackRoom
  <2>. QED BY <2>1, <2>2
<1>12. CASE taken
  <2>1. NextPc(i, st) = to
    BY <1>7, <1>9, <1>10, <1>12 DEF NextPc
  <2>2. t = [(IF Calls(i) THEN push_return(rd.s, instruction_length(i)) ELSE rd.s)
               EXCEPT !.pc = to, !.adv = 0]
    BY <1>3, <1>4, <1>8, <1>12
  <2>3. Taken(i, st) /\ instruction_length(i) \in {1, 2}
    BY <1>3, <1>7, <1>12
  <2>. HIDE DEF taken
  <2>. QED BY <1>2, <1>3, <1>5, <1>10, <1>11, <2>1, <2>2, <2>3, TakenOutcome
<1>13. CASE ~taken
  <2>1. t = [rd.s EXCEPT !.adv = instruction_length(i)]
    BY <1>3, <1>4, <1>13
  <2>2. ~Taken(i, st) /\ instruction_length(i) \in {1, 2}
    BY <1>3, <1>7, <1>13
  <2>. HIDE DEF taken
  <2>. QED BY <1>2, <1>3, <1>5, <1>11, <2>1, <2>2, NotTakenOutcome
<1>. QED BY <1>12, <1>13

\* RTS and RTI.
LEMMA ReturnOutcome ==
    ASSUME st \in States, Holds(st.stk, frames), NEW i, StackRoom(i), i.op \in {"rts", "rti"},
           NEW t, t = IF i.op = "rts" THEN emit_rts(Start(i)) ELSE emit_rti(Start(i))
    PROVE  Outcome(i, t)
<1>. DEFINE s == Start(i)
            k == stack_pop(st.stk)
            to == inline_popped(st.stk)[1]
            f == inline_popped(st.stk)[2]
            r == [s EXCEPT !.stk = k]
            x == [r EXCEPT !.sr = f]
<1>1. Begun(st, s, i)
  BY StartState, OneLength
<1>2. s \in States /\ s.stk = st.stk /\ Core(st, s)
  BY <1>1 DEF Begun, Core
<1>3. st.stk \in Stacks
  BY StateFields
<1>4. k \in Stacks /\ to \in Word /\ f \in Srs /\ inline_pop(st.stk) = k /\ to = st.stk.hi[st.stk.ptr]
  BY <1>3, StackTypes
<1>5. st.stk.ptr > 0 /\ Returns(i)
  BY DEF StackRoom, Returns
<1>6. Holds(k, SubSeq(frames, 1, Len(frames) - 1)) /\ to = frames[Len(frames)].h
  BY <1>4, <1>5, FramePopped
<1>. HIDE DEF s, k, to, f
<1>7. t = IF i.op = "rts" THEN [s EXCEPT !.stk = k, !.pc = to, !.adv = 0]
          ELSE [s EXCEPT !.stk = k, !.pc = to, !.adv = 0, !.sr = f]
  BY <1>2, <1>4 DEF emit_rts, emit_rti, s, k, to, f
<1>8. Core(st, r) /\ r.stk = k /\ r \in States
  <2>1. Base(s, r) /\ r.stk = k
    BY <1>2, <1>4, StkChanged
  <2>. HIDE DEF r
  <2>. QED BY <1>2, <2>1, BaseCore, CoreTrans DEF Base
<1>9. Core(st, x) /\ x.stk = k
  <2>1. Does(r, x)
    BY <1>4, <1>8, SrChanged
  <2>. HIDE DEF r, x
  <2>. QED BY <1>8, <2>1, BaseCore, CoreTrans DEF Does
<1>10. t = IF i.op = "rts" THEN [r EXCEPT !.pc = to, !.adv = 0] ELSE [x EXCEPT !.pc = to, !.adv = 0]
  <2>1. [s EXCEPT !.stk = k, !.pc = to, !.adv = 0] = [r EXCEPT !.pc = to, !.adv = 0]
    OBVIOUS
  <2>2. [s EXCEPT !.stk = k, !.pc = to, !.adv = 0, !.sr = f] = [x EXCEPT !.pc = to, !.adv = 0]
    BY <1>2 DEF States
  <2>. QED BY <1>7, <2>1, <2>2
<1>. HIDE DEF r, x
<1>11. 0 \in 0 .. 2
  OBVIOUS
<1>12. Core(st, [r EXCEPT !.pc = to, !.adv = 0]) /\ Core(st, [x EXCEPT !.pc = to, !.adv = 0])
  BY <1>4, <1>8, <1>9, <1>11, PcChanged
<1>13. Core(st, t)
  BY <1>10, <1>12
<1>14. t.pc = to /\ t.adv = 0 /\ t.stk = k
  BY <1>8, <1>9, <1>10 DEF Core, States
<1>15. ~Calls(i) /\ ~PushesSsh(i)
  BY DEF Calls, PushesSsh
<1>16. NextFrames(i, st, t) = SubSeq(frames, 1, Len(frames) - 1)
  BY <1>5, <1>15 DEF NextFrames
<1>17. NextPc(i, st) = to
  BY <1>5, <1>6 DEF NextPc
<1>. QED BY <1>6, <1>13, <1>14, <1>16, <1>17 DEF Outcome

\* The end of an instruction: in a single step and in a block PC moves to the
\* instruction that is next.
LEMMA FinishStep ==
    ASSUME st \in States, NEW i, NEW t, Outcome(i, t), Finish(i, t)
    PROVE  /\ Core(st, st') /\ Holds(st'.stk, frames') /\ ins' = i
           /\ st'.pc = NextPc(i, st)
<1>. DEFINE n == instruction_length(i)
            p == mask_pc(t.pc + n)
<1>1. Core(st, t) /\ t \in States /\ t.pc \in Word /\ t.pc \in Int /\ t.adv \in 0 .. 2
  BY StateFields, Masks DEF Outcome, Core
<1>2. st' = advance_pc(t) \/ st' = FallThrough(t, i)
  BY DEF Finish
<1>3. frames' = NextFrames(i, st, t) /\ ins' = i
  BY DEF Finish
<1>4. CASE t.adv = 0 /\ t.pc = NextPc(i, st)
  <2>1. mask_pc(t.pc + 0) = t.pc
    <3>1. t.pc + 0 = t.pc
      BY <1>1
    <3>2. mask24(t.pc) = t.pc
      BY <1>1, Masks
    <3>. QED BY <3>1, <3>2 DEF mask_pc, mask24
  <2>2. advance_pc(t) = [t EXCEPT !.pc = t.pc]
    BY <1>4, <2>1 DEF advance_pc
  <2>3. [t EXCEPT !.pc = t.pc] = t
    BY <1>1 DEF States
  <2>4. FallThrough(t, i) = t
    BY <1>4 DEF FallThrough
  <2>5. st' = t
    BY <1>2, <2>2, <2>3, <2>4
  <2>. QED BY <1>1, <1>3, <1>4, <2>5 DEF Outcome
<1>5. CASE /\ t.adv = n /\ t.adv \in {1, 2} /\ t.pc = st.pc
           /\ NextPc(i, st) = (st.pc + n) % 2^W
  <2>1. advance_pc(t) = [t EXCEPT !.pc = p] /\ FallThrough(t, i) = [t EXCEPT !.pc = p]
    BY <1>5 DEF advance_pc, FallThrough
  <2>2. p = NextPc(i, st) /\ p \in Word
    <3>1. t.pc + n \in Int
      BY <1>1, <1>5
    <3>2. (t.pc + n) % 2^W \in Word
      BY <3>1, Masks DEF mask24
    <3>. QED BY <1>5, <3>2 DEF mask_pc
  <2>. HIDE DEF p, n
  <2>3. st' = [t EXCEPT !.pc = p]
    BY <1>2, <2>1
  <2>4. 0 \in 0 .. 2
    OBVIOUS
  <2>5. Core(st, st')
    BY <1>1, <2>2, <2>3, <2>4, PcChanged
  <2>6. st'.pc = p /\ st'.stk = t.stk
    BY <1>1, <2>3 DEF States
  <2>. QED BY <1>3, <2>2, <2>5, <2>6 DEF Outcome
<1>. QED BY <1>4, <1>5 DEF Outcome

-------------------------------------------------------------------------------
(* The actions.                                                            *)

\* The opcode tells which operand fields an instruction has.
LEMMA Kinds ==
    ASSUME NEW i, Encodable(i)
    PROVE  /\ HasAlu(i) => AluOperands(i)
           /\ i.op \in {"movepr", "movepea", "movecimm", "movecreg", "movecea", "movecaa", "movemea",
                        "movemaa", "movedisp"} => MoveOperands(i)
           /\ i.op \in {"vsl", "lua", "luarel", "lrarn", "lradisp", "bitmem", "bitea", "bitreg",
                        "andi", "ori"} => OtherOperands(i)
           /\ i.op \in {"flow", "bittest"} => FlowOperands(i)
<1>1. AluOperands(i) => i.op \in {"pm0", "pm1", "pm2", "pm2r", "pm22", "pm3", "pm4", "pm4a", "pm5",
                                  "pm5a", "pm8"}
  BY DEF AluOperands
<1>2. MoveOperands(i) => i.op \in {"movepr", "movepea", "movecimm", "movecreg", "movecea", "movecaa",
                                   "movemea", "movemaa", "movedisp"}
  BY DEF MoveOperands
<1>3. OtherOperands(i) => i.op \in {"vsl", "lua", "luarel", "lrarn", "lradisp", "bitmem", "bitea",
                                    "bitreg", "andi", "ori"}
  BY DEF OtherOperands
<1>4. FlowOperands(i) => i.op \in {"rts", "rti", "flow", "bittest"}
  BY DEF FlowOperands
<1>. QED BY <1>1, <1>2, <1>3, <1>4 DEF Encodable, HasAlu

Leaves(i) == \E t : Outcome(i, t) /\ Finish(i, t)

\* Action by action.  Parallel moves.
LEMMA ParallelLeaves ==
    ASSUME st \in States, Holds(st.stk, frames), NEW i, Encodable(i), StackRoom(i), Parallel(i)
    PROVE  Leaves(i)
<1>. DEFINE t == emit_parallel(Start(i), i)
<1>1. HasAlu(i) /\ Finish(i, t)
  BY DEF Parallel
<1>2. AluOperands(i)
  BY <1>1, Kinds
<1>3. Start(i) \in States
  BY StartState, OneLength DEF Begun, Core
<1>4. Does(Start(i), t)
  BY <1>2, <1>3, ParallelMoves
<1>5. Straight(i) /\ ~PushesSsh(i) /\ i.op # "bitreg"
  BY <1>1 DEF HasAlu, Straight, PushesSsh
<1>6. ~PopsSsh(i)
  <2>1. i.op = "pm22" => i.src # "SSH"
    BY <1>2, Names DEF AluOperands
  <2>. QED BY <1>1, <2>1 DEF PopsSsh, HasAlu
<1>. HIDE DEF t
<1>7. Outcome(i, t)
  BY <1>4, <1>5, <1>6, DoesOutcome
<1>. QED BY <1>1, <1>7 DEF Leaves

\* MOVEP.
LEMMA MovePeripheralLeaves ==
    ASSUME st \in States, Holds(st.stk, frames), NEW i, Encodable(i), StackRoom(i),
           MovePeripheral(i)
    PROVE  Leaves(i)
<1>. DEFINE t == IF i.op = "movepr" THEN emit_movep_r(Start(i), i) ELSE emit_movep_ea(Start(i), i)
<1>1. i.op \in {"movepr", "movepea"} /\ Finish(i, t)
  BY DEF MovePeripheral
<1>2. MoveOperands(i)
  BY <1>1, Kinds
<1>3. Start(i) \in States
  BY StartState, OneLength DEF Begun, Core
<1>4. Does(Start(i), t)
  BY <1>1, <1>2, <1>3, MovepR, MovepEa
<1>5. Straight(i) /\ ~PushesSsh(i) /\ ~PopsSsh(i) /\ i.op # "bitreg"
  BY <1>1 DEF Straight, PushesSsh, PopsSsh
<1>. HIDE DEF t
<1>6. Outcome(i, t)
  BY <1>4, <1>5, DoesOutcome
<1>. QED BY <1>1, <1>6 DEF Leaves

\* MOVEC with an immediate or a register.
LEMMA MoveRegisterLeaves ==
    ASSUME st \in States, Holds(st.stk, frames), NEW i, Encodable(i), StackRoom(i), MoveRegister(i)
    PROVE  Leaves(i)
<1>. DEFINE t == IF i.op = "movecimm" THEN emit_movec_imm(Start(i), i)
                 ELSE emit_movec_reg(Start(i), i)
<1>1. i.op \in {"movecimm", "movecreg"} /\ Finish(i, t)
  BY DEF MoveRegister
<1>2. MoveOperands(i)
  BY <1>1, Kinds
<1>3. Start(i) \in States
  BY StartState, OneLength DEF Begun, Core
<1>4. Moved(Start(i), t, PopsSsh(i), PushesSsh(i))
  BY <1>1, <1>2, <1>3, MovecImm, MovecReg
<1>5. Straight(i) /\ i.op # "bitreg"
  BY <1>1 DEF Straight
<1>. HIDE DEF t
<1>6. Outcome(i, t)
  BY <1>4, <1>5, MovedOutcome
<1>. QED BY <1>1, <1>6 DEF Leaves

\* MOVEC, MOVEM and displaced moves.
LEMMA MoveMemoryLeaves ==
    ASSUME st \in States, Holds(st.stk, frames), NEW i, Encodable(i), StackRoom(i), MoveMemory(i)
    PROVE  Leaves(i)
<1>. DEFINE t == emit_move(Start(i), i)
<1>1. i.op \in {"movecea", "movecaa", "movemea", "movemaa", "movedisp"} /\ Finish(i, t)
  BY DEF MoveMemory
<1>2. MoveOperands(i)
  BY <1>1, Kinds
<1>3. Start(i) \in States
  BY StartState, OneLength DEF Begun, Core
<1>4. Moved(Start(i), t, PopsSsh(i), PushesSsh(i))
  BY <1>1, <1>2, <1>3, MoveMem
<1>5. Straight(i) /\ i.op # "bitreg"
  BY <1>1 DEF Straight
<1>. HIDE DEF t
<1>6. Outcome(i, t)
  BY <1>4, <1>5, MovedOutcome
<1>. QED BY <1>1, <1>6 DEF Leaves

\* VSL, LUA, LRA, ANDI and ORI.
LEMMA OtherLeaves ==
    ASSUME st \in States, Holds(st.stk, frames), NEW i, Encodable(i), StackRoom(i),
           StoreShifted(i) \/ LoadAddress(i) \/ ConditionCodes(i)
    PROVE  Leaves(i)
<1>. DEFINE t == CASE i.op = "vsl" -> emit_vsl(Start(i), i)
                   [] i.op = "lua" -> emit_lua(Start(i), i)
                   [] i.op = "luarel" -> emit_lua_rel(Start(i), i)
                   [] i.op = "lrarn" -> emit_lra_rn(Start(i), i)
                   [] i.op = "lradisp" -> emit_lra_disp(Start(i), i)
                   [] i.op = "andi" -> emit_andi(Start(i), i)
                   [] i.op = "ori" -> emit_ori(Start(i), i)
<1>1. i.op \in {"vsl", "lua", "luarel", "lrarn", "lradisp", "andi", "ori"} /\ Finish(i, t)
  BY DEF StoreShifted, LoadAddress, ConditionCodes
<1>2. OtherOperands(i)
  BY <1>1, Kinds
<1>3. Start(i) \in States
  BY StartState, OneLength DEF Begun, Core
<1>4. Does(Start(i), t)
  BY <1>1, <1>2, <1>3, Vsl, LoadAddresses, CcrImmediate
<1>5. Straight(i) /\ ~PushesSsh(i) /\ ~PopsSsh(i) /\ i.op # "bitreg"
  BY <1>1 DEF Straight, PushesSsh, PopsSsh
<1>. HIDE DEF t
<1>6. Outcome(i, t)
  BY <1>4, <1>5, DoesOutcome
<1>. QED BY <1>1, <1>6 DEF Leaves

\* Bit operations on memory and on registers.
LEMMA BitOperationLeaves ==
    ASSUME st \in States, Holds(st.stk, frames), NEW i, Encodable(i), StackRoom(i), BitOperation(i)
    PROVE  Leaves(i)
<1>. DEFINE s == Start(i)
            t == IF i.op = "bitreg" THEN emit_bit_op_reg(s, i) ELSE emit_bit_op_mem(s, i)
<1>1. i.op \in {"bitmem", "bitea", "bitreg"} /\ Finish(i, t)
  BY DEF BitOperation
<1>2. OtherOperands(i)
  BY <1>1, Kinds
<1>3. s \in States
  BY StartState, OneLength DEF Begun, Core
<1>4. Straight(i) /\ ~PushesSsh(i)
  BY <1>1 DEF Straight, PushesSsh
<1>5. PopsSsh(i) <=> i.op = "bitreg" /\ i.reg = "SSH" /\ i.bop = "Test"
  BY <1>1 DEF PopsSsh
<1>6. CASE i.op # "bitreg"
  <2>1. Does(s, t)
    BY <1>1, <1>2, <1>3, <1>6, BitMem
  <2>. HIDE DEF t
  <2>2. Outcome(i, t)
    BY <1>4, <1>5, <1>6, <2>1, DoesOutcome
  <2>. QED BY <1>1, <2>2 DEF Leaves
<1>7. CASE i.op = "bitreg" /\ ~(i.reg = "SSH" /\ i.bop # "Test")
  <2>1. t = emit_bit_op_reg(s, i)
    BY <1>7
  <2>. HIDE DEF t, s
  <2>2. Base(s, t) /\ t.stk = IF i.reg # "SSH" THEN s.stk ELSE stack_pop(s.stk)
    BY <1>2, <1>3, <1>7, <2>1, BitReg
  <2>3. Moved(s, t, PopsSsh(i), PushesSsh(i))
    BY <1>4, <1>5, <1>7, <2>2 DEF Moved
  <2>4. Outcome(i, t)
    BY <1>4, <1>7, <2>3, MovedOutcome DEF s
  <2>. QED BY <1>1, <2>4 DEF Leaves
<1>8. CASE i.op = "bitreg" /\ i.reg = "SSH" /\ i.bop # "Test"
  <2>1. t = emit_bit_op_reg(Start(i), i)
    BY <1>8
  <2>. HIDE DEF t
  <2>2. Outcome(i, t)
    BY <1>2, <1>8, <2>1, SshBitOutcome
  <2>. QED BY <1>1, <2>2 DEF Leaves
<1>. QED BY <1>6, <1>7, <1>8

\* Branches, branches on a bit, returns.
LEMMA ControlLeaves ==
    ASSUME st \in States, Holds(st.stk, frames), NEW i, Encodable(i), StackRoom(i),
           Branch(i) \/ BranchOnBit(i) \/ Return(i)
    PROVE  Leaves(i)
<1>1. CASE Branch(i)
  <2>. DEFINE t == emit_flow(Start(i), i)
  <2>1. i.op = "flow" /\ Finish(i, t)
    BY <1>1 DEF Branch
  <2>2. FlowOperands(i)
    BY <2>1, Kinds
  <2>3. Outcome(i, t)
    BY <2>1, <2>2, FlowOutcome
  <2>. HIDE DEF t
  <2>. QED BY <2>1, <2>3 DEF Leaves
<1>2. CASE BranchOnBit(i)
  <2>. DEFINE t == emit_bit_test_branch(Start(i), i)
  <2>1. i.op = "bittest" /\ Finish(i, t)
    BY <1>2 DEF BranchOnBit
  <2>2. FlowOperands(i)
    BY <2>1, Kinds
  <2>3. Outcome(i, t)
    BY <2>1, <2>2, BitTestOutcome
  <2>. HIDE DEF t
  <2>. QED BY <2>1, <2>3 DEF Leaves
<1>3. CASE Return(i)
  <2>. DEFINE t == IF i.op = "rts" THEN emit_rts(Start(i)) ELSE emit_rti(Start(i))
  <2>1. i.op \in {"rts", "rti"} /\ Finish(i, t)
    BY <1>3 DEF Return
  <2>2. Outcome(i, t)
    BY <2>1, ReturnOutcome
  <2>. HIDE DEF t
  <2>. QED BY <2>1, <2>2 DEF Leaves
<1>. QED BY <1>1, <1>2, <1>3

-------------------------------------------------------------------------------
(* The inductive invariant: the machine is well typed, the stack holds the  *)
(* frames, and where program memory has storage of its own, what changed in *)
(* it since the start is marked.  CallsOnStack alone is not inductive: that  *)
(* a pushed address is a word needs the types of everything an instruction  *)
(* reads.                                                                   *)

IInv == /\ st \in States /\ menu \in DOMAIN Menus /\ Holds(st.stk, frames)
        /\ Apart(st.map) => Marked(st.map, InitMem, st.m)

\* Reset: the embedder's arrays, an empty stack.
LEMMA FirstMemory == InitMem \in Mems
<1>1. 2^W \in Nat \ {0}
  BY Widths
<1>. DEFINE M == 2^W
<1>. HIDE DEF M
<1>2. DOMAIN Sizes = {"xr", "yr", "pr"} /\ \A b \in DOMAIN Sizes : Sizes[b] = 8
  BY DEF Sizes
<1>3. \A k \in Int : (3 * k + 8 + 1) % M \in Int /\ (5 * k + 2) % M \in Int /\ M + 3 \in Int
  BY <1>1 DEF M
<1>4. InitBuf \in Bufs
  <2>1. ASSUME NEW b \in DOMAIN Sizes, NEW k \in 0 .. 7
        PROVE  (IF b = "xr" /\ k = 1 THEN M + 3 ELSE (3 * k + Sizes[b] + 1) % M) \in Int
    BY <1>2, <1>3
  <2>2. \A b \in DOMAIN Sizes : 0 .. Sizes[b] - 1 = 0 .. 7
    BY <1>2
  <2>3. InitBuf = [b \in DOMAIN Sizes |-> [k \in 0 .. 7 |->
                     IF b = "xr" /\ k = 1 THEN M + 3 ELSE (3 * k + Sizes[b] + 1) % M]]
    BY <2>2 DEF InitBuf, M
  <2>. QED BY <2>1, <2>3 DEF Bufs
<1>5. InitDev \in [Spaces -> [Word -> Int]]
  <2>1. Word = 0 .. M - 1 /\ Word \subseteq Int
    BY Masks DEF Word, M
  <2>2. InitDev = [space \in Spaces |-> [a \in Word |-> (5 * a + 2) % M]]
    BY <2>1 DEF InitDev, M
  <2>. QED BY <1>3, <2>1, <2>2
<1>6. <<>> \in Logs
  <2>1. \A S : <<>> \in Seq(S)
    OBVIOUS
  <2>. QED BY <2>1 DEF Logs
<1>. QED BY <1>4, <1>5, <1>6 DEF InitMem, Mems

\* The stack after reset holds no frame.
LEMMA FirstStack == Holds(NewStack, <<>>)
<1>1. 0 \in Slots /\ 0 \in 0 .. 2 * Depth - 1 /\ 0 \in Word
  BY DepthAssumption, Masks DEF Slots
<1>2. Sr0 \in Srs
  BY DEF Sr0, Srs
<1>. DEFINE e == EmptyStack(0)
            lo == [k \in Slots |-> Sr0]
<1>3. /\ e \in [ptr : Slots, se : BOOLEAN, uf : BOOLEAN, sc : 0 .. 2 * Depth - 1,
                hi : [Slots -> Word], lo : [Slots -> {0}], ssh : Word, ssl : {0}]
      /\ e.ptr = 0 /\ e.ssh = e.hi[0]
  BY <1>1 DEF EmptyStack
<1>4. NewStack \in Stacks /\ Coherent(NewStack) /\ NewStack.ptr = 0
  <2>1. lo \in [Slots -> Srs] /\ lo[0] = Sr0
    BY <1>1, <1>2
  <2>2. NewStack = [e EXCEPT !.lo = lo, !.ssl = Sr0]
    BY DEF NewStack
  <2>. HIDE DEF e, lo
  <2>. QED BY <1>1, <1>2, <1>3, <2>1, <2>2 DEF Stacks, Coherent
<1>5. \A S : <<>> \in Seq(S) /\ Len(<<>>) = 0
  OBVIOUS
<1>. QED BY <1>4, <1>5 DEF Holds

\* The invariant holds at the start.
LEMMA FirstState ==
    ASSUME Init
    PROVE  IInv
<1>1. PICK map \in Menus[menu].maps, r \in Menus[menu].regs, a \in Menus[menu].accs,
           f \in Menus[menu].srs, p \in Menus[menu].pcs :
         st = [pc |-> p, adv |-> 0, sr |-> f, stk |-> NewStack, reg |-> r, acc |-> a,
               map |-> map, m |-> InitMem]
  BY DEF Init
<1>2. menu \in DOMAIN Menus /\ frames = <<>>
  BY DEF Init
<1>3. /\ r \in [RegNames -> Word] /\ a \in Accs /\ f \in Srs /\ p \in Word
      /\ map \in Maps /\ 0 \in 0 .. 2
  BY <1>2, MenusAssumption DEF Accs, Maps
<1>4. NewStack \in Stacks /\ Holds(NewStack, frames)
  BY <1>2, FirstStack DEF Holds
<1>5. st \in States /\ st.stk = NewStack /\ st.m = InitMem
  BY <1>1, <1>3, <1>4, FirstMemory DEF States
<1>6. Marked(st.map, InitMem, InitMem)
  BY MarkedSame
<1>. QED BY <1>2, <1>4, <1>5, <1>6 DEF IInv

\* One instruction keeps the invariant and goes on where it should.
LEMMA StepKeeps ==
    ASSUME IInv, Next
    PROVE  IInv' /\ st'.pc = NextPc(ins', st)
<1>1. st \in States /\ menu \in DOMAIN Menus /\ Holds(st.stk, frames)
  BY DEF IInv
<1>2. menu' = menu
  BY DEF Next
<1>3. PICK i \in Menus[menu].ins :
        /\ StackRoom(i)
        /\ \/ Parallel(i) \/ MovePeripheral(i) \/ MoveRegister(i) \/ MoveMemory(i)
           \/ StoreShifted(i) \/ LoadAddress(i) \/ BitOperation(i)
           \/ ConditionCodes(i) \/ Branch(i) \/ BranchOnBit(i) \/ Return(i)
  BY DEF Next
<1>4. Encodable(i)
  BY <1>1, MenusAssumption
<1>5. Leaves(i)
  BY <1>1, <1>3, <1>4, ParallelLeaves, MovePeripheralLeaves, MoveRegisterLeaves, MoveMemoryLeaves,
     OtherLeaves, BitOperationLeaves, ControlLeaves
<1>6. PICK t : Outcome(i, t) /\ Finish(i, t)
  BY <1>5 DEF Leaves
<1>7. Core(st, st') /\ Holds(st'.stk, frames') /\ ins' = i /\ st'.pc = NextPc(i, st)
  BY <1>1, <1>6, FinishStep
<1>8. Apart(st'.map) => Marked(st'.map, InitMem, st'.m)
  BY <1>7, MarkedTrans DEF IInv, Core
<1>9. st' \in States
  BY <1>7 DEF Core
<1>. QED BY <1>1, <1>2, <1>7, <1>8, <1>9 DEF IInv

\* A step that changes nothing keeps the invariant.
LEMMA StutterKeeps ==
    ASSUME IInv, UNCHANGED vars
    PROVE  IInv'
BY DEF IInv, vars

\* The invariant holds throughout.
LEMMA Inductive == Spec => []IInv
<1>1. Init => IInv
  BY FirstState
<1>2. IInv /\ [Next]_vars => IInv'
  BY StepKeeps, StutterKeeps
<1>. QED BY <1>1, <1>2, PTL DEF Spec

-------------------------------------------------------------------------------
(* The theorems.                                                           *)

\* However calls, returns, moves through SSH, bit operations on SSH and
\* branches that pop it are interleaved, within the depth of the stack, the
\* hardware stack holds the frames of the calls in progress, each with the
\* address after its call and the SR it found, its mirrors show the top, and
\* registers, accumulators and PC stay within their widths.
THEOREM StackHoldsFrames == Spec => []CallsOnStack
<1>1. ASSUME IInv PROVE CallsOnStack
  <2>1. /\ st.reg \in [RegNames -> Word] /\ st.acc \in Accs /\ st.pc \in Word /\ st.adv \in 0 .. 2
        /\ st.m \in Mems
    BY <1>1, StateFields DEF IInv
  <2>2. st.m.dirty \subseteq Word
    BY <2>1 DEF Mems
  <2>3. /\ Coherent(st.stk) /\ frames \in Seq(Frames) /\ st.stk.ptr = Len(frames)
        /\ \A j \in 1 .. Len(frames) : st.stk.hi[j] = frames[j].h /\ st.stk.lo[j] = frames[j].l
    BY <1>1 DEF IInv, Holds
  <2>4. DOMAIN frames = 1 .. Len(frames)
    BY <2>3
  <2>. QED BY <2>1, <2>2, <2>3, <2>4 DEF CallsOnStack, TypeOK, Accs
<1>. QED BY <1>1, Inductive, PTL

\* In every memory map in which program memory has storage of its own, a word
\* of program memory that differs from what it was at the start is marked
\* dirty, whichever instruction wrote it and through whichever space, register
\* or effective address: the block cache never runs code that is stale and
\* unmarked.
THEOREM ProgramChangesMarked ==
    ASSUME ProgramApart
    PROVE  Spec => []ChangedIsDirty
<1>1. ASSUME IInv PROVE ChangedIsDirty
  <2>1. st \in States /\ st.map \in Maps
    BY <1>1, StateFields DEF IInv
  <2>2. Apart(st.map)
    BY <2>1 DEF ProgramApart, Maps
  <2>3. Marked(st.map, InitMem, st.m)
    BY <1>1, <2>2 DEF IInv
  <2>4. [st EXCEPT !.m = InitMem].map = st.map /\ [st EXCEPT !.m = InitMem].m = InitMem
    BY <2>1 DEF States
  <2>5. \A a : /\ View(st, "P", a) = PView(st.map, st.m, a)
               /\ View([st EXCEPT !.m = InitMem], "P", a) = PView(st.map, InitMem, a)
    BY <2>4, Zenon DEF View, PView
  <2>. QED BY <2>3, <2>5 DEF ChangedIsDirty, Marked
<1>. QED BY <1>1, Inductive, PTL

\* After every instruction PC is where the decoder's length, or the target of
\* the branch that is taken, says: the one that advance_pc leaves in a single
\* step and the one the block's emitter leaves agree, with wrap-around, for
\* every call, jump and branch form and for returns.
THEOREM GoesOnAtNext == Spec => NextInstruction
<1>1. ASSUME IInv, [Next]_vars PROVE [st'.pc = NextPc(ins', st)]_vars
  BY <1>1, StepKeeps
<1>. QED BY <1>1, Inductive, PTL DEF Spec, NextInstruction

===============================================================================
