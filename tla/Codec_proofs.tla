----------------------------- MODULE Codec_proofs -----------------------------
(***************************************************************************)
(* Lemmas about the operators the codec is built from: the words, the      *)
(* filter in all its versions, the Rice coder and its bits, the groups of  *)
(* a frame and PCM.  Whatever the encoder makes of a value the decoder     *)
(* makes the value of, from channels that stay equal on both sides.        *)
(***************************************************************************)
EXTENDS CodecInv, FiniteSetTheorems, SequenceTheorems, WellFoundedInduction, TLAPS

-----------------------------------------------------------------------------
(* Numbers *)

\* Any set of numbers has a least one.
LEMMA LeastNumber ==
  ASSUME NEW T, T \subseteq Nat, T # {}
  PROVE  \E m \in T : \A k \in T : m <= k
<1> DEFINE R == {ss \in Nat \X Nat : ss[1] < ss[2]}
<1>1. R = OpToRel(<, Nat)
  BY DEF OpToRel
<1>2. IsWellFoundedOn(R, Nat)
  BY NatLessThanWellFounded DEF OpToRel
<1>3. \E m \in T : \A k \in T : ~(<<k, m>> \in R)
  BY <1>2, WFMin
<1>4. \A k, m \in T : ~(<<k, m>> \in R) => m <= k
  OBVIOUS
<1> QED
  BY <1>3, <1>4

\* Induction, for a set of numbers.
LEMMA Induction ==
  ASSUME NEW T, 0 \in T, \A n \in Nat : n \in T => n + 1 \in T
  PROVE  Nat \subseteq T
<1> DEFINE bad == Nat \ T
<1>1. SUFFICES ASSUME bad # {} PROVE FALSE
  OBVIOUS
<1>2. PICK m \in bad : \A k \in bad : m <= k
  BY <1>1, LeastNumber
<1>3. m - 1 \in Nat /\ m - 1 \notin bad
  BY <1>2
<1>4. (m - 1) + 1 \in T
  BY <1>3
<1> QED
  BY <1>2, <1>4

\* The values that a recursive function over 0..n starts and goes on with.
Iterates(A, a, n, step) ==
  \E f \in [0..n -> A] : f[0] = a /\ \A i \in 1..n : f[i] = step[i][f[i - 1]]

\* What a recursive function over 0..n computes exists.
LEMMA Recursion ==
  ASSUME NEW A, NEW a \in A, NEW n \in Nat, NEW step \in [1..n -> [A -> A]]
  PROVE  Iterates(A, a, n, step)
<1> DEFINE Upto(m, f) == f[0] = a /\ \A i \in 1..m : f[i] = step[i][f[i - 1]]
           T == {m \in Nat : m <= n => \E f \in [0..m -> A] : Upto(m, f)}
<1>1. 0 \in T
  <2>1. [i \in 0..0 |-> a] \in [0..0 -> A] /\ Upto(0, [i \in 0..0 |-> a])
    OBVIOUS
  <2> QED
    BY <2>1
<1>2. ASSUME NEW m \in Nat, m \in T PROVE m + 1 \in T
  <2>1. SUFFICES ASSUME m + 1 <= n
                 PROVE  \E f \in [0..(m + 1) -> A] : Upto(m + 1, f)
    OBVIOUS
  <2>2. PICK f \in [0..m -> A] : Upto(m, f)
    BY <1>2, <2>1
  <2> DEFINE b == step[m + 1][f[m]]
             g == [i \in 0..(m + 1) |-> IF i = m + 1 THEN b ELSE f[i]]
  <2>3. m + 1 \in 1..n /\ f[m] \in A
    BY <2>1, <2>2
  <2>4. b \in A
    BY <2>3
  <2>5. g \in [0..(m + 1) -> A]
    BY <2>2, <2>4
  <2>6. g[0] = a /\ g[m] = f[m] /\ g[m + 1] = b
    BY <2>2
  <2>7. \A i \in 1..m : g[i] = step[i][g[i - 1]]
    BY <2>2
  <2>8. Upto(m + 1, g)
    <3>1. ASSUME NEW i \in 1..(m + 1) PROVE g[i] = step[i][g[i - 1]]
      <4>1. CASE i \in 1..m
        BY <2>7, <4>1
      <4>2. CASE i = m + 1
        BY <2>6, <4>2
      <4> QED
        BY <4>1, <4>2
    <3> QED
      BY <2>6, <3>1
  <2> QED
    BY <2>5, <2>8
<1> HIDE DEF T
<1>3. n \in T
  BY <1>1, <1>2, Induction
<1> QED
  BY <1>3 DEF T, Iterates

-----------------------------------------------------------------------------
(* Powers of two *)

\* A power of two counts the subsets of a set.
LEMMA PowerIs ==
  ASSUME NEW n \in Nat
  PROVE  IsFiniteSet(SUBSET (1..n)) /\ Cardinality(SUBSET (1..n)) = 2^n
<1>1. IsFiniteSet(1..n) /\ Cardinality(1..n) = n
  BY FS_Interval
<1> QED
  BY <1>1, FS_SUBSET

\* Powers of two are positive,
LEMMA PowerNat == ASSUME NEW n \in Nat PROVE 2^n \in Nat \ {0}
<1>1. {} \in SUBSET (1..n)
  OBVIOUS
<1> QED
  BY <1>1, PowerIs, FS_CardinalityType, FS_EmptySet

\* start at 1,
LEMMA PowerZero == 2^0 = 1
<1>1. SUBSET (1..0) = {{}}
  OBVIOUS
<1>2. Cardinality({{}}) = 1
  BY FS_Singleton
<1> QED
  BY <1>1, <1>2, PowerIs

\* Half of the subsets of 1..n + 1 have the last element.
LEMMA PowerNext == ASSUME NEW n \in Nat PROVE 2^(n + 1) = 2 * 2^n
<1> DEFINE A == SUBSET (1..n)
           f == [X \in A |-> X \cup {n + 1}]
           B == {f[X] : X \in A}
<1>1. IsFiniteSet(A) /\ Cardinality(A) = 2^n
  BY PowerIs
<1>2. \A X \in A : n + 1 \notin X
  OBVIOUS
<1>3. f \in Bijection(A, B)
  <2>1. f \in [A -> B]
    OBVIOUS
  <2>2. ASSUME NEW X \in A, NEW Y \in A, f[X] = f[Y] PROVE X = Y
    BY <1>2, <2>2
  <2>3. \A Y \in B : \E X \in A : f[X] = Y
    OBVIOUS
  <2> HIDE DEF f, A, B
  <2> QED
    BY <2>1, <2>2, <2>3 DEF Bijection, Injection, Surjection, IsInjective
<1>4. ExistsBijection(A, B)
  BY <1>3 DEF ExistsBijection
<1>5. IsFiniteSet(B) /\ Cardinality(B) = 2^n
  BY <1>1, <1>4, FS_Bijection
<1>6. A \cap B = {}
  BY <1>2
<1>7. SUBSET (1..(n + 1)) = A \cup B
  <2>1. ASSUME NEW X \in SUBSET (1..(n + 1)) PROVE X \in A \cup B
    <3>1. CASE n + 1 \notin X
      BY <3>1
    <3>2. CASE n + 1 \in X
      <4>1. X \ {n + 1} \in A
        OBVIOUS
      <4>2. f[X \ {n + 1}] = X
        BY <3>2, <4>1
      <4> QED
        BY <4>1, <4>2
    <3> QED
      BY <3>1, <3>2
  <2>2. ASSUME NEW X \in A \cup B PROVE X \in SUBSET (1..(n + 1))
    <3>1. 1..n \subseteq 1..(n + 1) /\ n + 1 \in 1..(n + 1)
      OBVIOUS
    <3>2. CASE X \in A
      BY <3>1, <3>2
    <3>3. CASE X \in B
      <4>1. PICK Y \in A : X = Y \cup {n + 1}
        BY <3>3
      <4> QED
        BY <3>1, <4>1
    <3> QED
      BY <3>2, <3>3
  <2> QED
    BY <2>1, <2>2
<1>8. Cardinality(A \cup B) = 2^n + 2^n
  <2>1. Cardinality({}) = 0
    BY FS_EmptySet
  <2>2. Cardinality(A \cup B) = Cardinality(A) + Cardinality(B) - Cardinality(A \cap B)
    BY <1>1, <1>5, FS_Union
  <2> HIDE DEF A, B
  <2> QED
    BY <1>1, <1>5, <1>6, <2>1, <2>2, PowerNat
<1>9. Cardinality(SUBSET (1..(n + 1))) = 2^(n + 1)
  BY PowerIs
<1> HIDE DEF A, B
<1>10. 2^n \in Nat
  BY PowerNat
<1>11. 2^(n + 1) = 2^n + 2^n
  BY <1>7, <1>8, <1>9, Zenon
<1> QED
  BY <1>10, <1>11

\* and the first of them.
LEMMA PowerSmall == 2^1 = 2 /\ 2^2 = 4 /\ 2^3 = 8 /\ 2^4 = 16 /\ 2^5 = 32
<1>1. 2^(0 + 1) = 2 * 2^0 /\ 2^(1 + 1) = 2 * 2^1 /\ 2^(2 + 1) = 2 * 2^2
      /\ 2^(3 + 1) = 2 * 2^3 /\ 2^(4 + 1) = 2 * 2^4
  BY PowerNext
<1> QED
  BY <1>1, PowerZero

\* 2^(m + n) is 2^m times 2^n.
LEMMA PowerSum ==
  ASSUME NEW m \in Nat, NEW n \in Nat
  PROVE  2^(m + n) = 2^m * 2^n
<1> DEFINE T == {k \in Nat : 2^(m + k) = 2^m * 2^k}
<1>1. 0 \in T
  BY PowerZero, PowerNat
<1>2. ASSUME NEW k \in Nat, k \in T PROVE k + 1 \in T
  <2>1. 2^(m + (k + 1)) = 2 * 2^(m + k)
    <3>1. m + (k + 1) = (m + k) + 1 /\ m + k \in Nat
      OBVIOUS
    <3> QED
      BY <3>1, PowerNext
  <2>2. 2^(k + 1) = 2 * 2^k
    BY PowerNext
  <2>3. 2^m \in Nat /\ 2^k \in Nat /\ 2^(m + k) = 2^m * 2^k
    BY <1>2, PowerNat
  <2>4. \A a, b \in Nat : 2 * (a * b) = a * (2 * b)
    BY SMT
  <2> QED
    BY <2>1, <2>2, <2>3, <2>4
<1> HIDE DEF T
<1>3. n \in T
  BY <1>1, <1>2, Induction
<1> QED
  BY <1>3 DEF T

\* Powers of two grow.
LEMMA PowerLeq ==
  ASSUME NEW m \in Nat, NEW n \in Nat, m <= n
  PROVE  2^m <= 2^n
<1>1. n - m \in Nat /\ n = m + (n - m)
  OBVIOUS
<1>2. 2^n = 2^m * 2^(n - m)
  BY <1>1, PowerSum
<1>3. 2^m \in Nat \ {0} /\ 2^(n - m) \in Nat \ {0}
  BY <1>1, PowerNat
<1>4. \A a, b \in Nat \ {0} : a <= a * b
  BY SMT
<1> QED
  BY <1>2, <1>3, <1>4

-----------------------------------------------------------------------------
(* Words *)

\* Division with remainder by a positive number.
LEMMA IntDivMod ==
  ASSUME NEW limit \in Nat \ {0}, NEW n \in Int
  PROVE  /\ n \div limit \in Int
         /\ n % limit \in 0..(limit - 1)
         /\ n = limit * (n \div limit) + (n % limit)
  BY SMT

\* A multiple of a number is 0 or at least as far from 0 as the number.
LEMMA IntMultiple ==
  ASSUME NEW limit \in Nat \ {0}, NEW k \in Int, k # 0
  PROVE  limit * k >= limit \/ limit * k <= -limit
  BY SMT

\* Quotient and remainder are unique.
LEMMA IntDivUnique ==
  ASSUME NEW limit \in Nat \ {0}, NEW n \in Int, NEW q \in Int,
         NEW r \in 0..(limit - 1), n = limit * q + r
  PROVE  n \div limit = q /\ n % limit = r
<1> DEFINE p == n \div limit
           s == n % limit
<1>1. p \in Int /\ s \in 0..(limit - 1) /\ n = limit * p + s
  BY IntDivMod
<1> HIDE DEF p, s
<1>2. limit * (p - q) = limit * p - limit * q
  BY <1>1, SMT
<1>3. limit * (p - q) = r - s
  BY <1>1, <1>2, SMT
<1>4. CASE p - q # 0
  <2>1. p - q \in Int
    BY <1>1
  <2>2. limit * (p - q) >= limit \/ limit * (p - q) <= -limit
    BY <1>4, <2>1, IntMultiple
  <2> QED
    BY <2>2, <1>3, <1>1, SMT
<1>5. CASE p - q = 0
  <2>1. p = q
    BY <1>1, <1>5
  <2>2. r = s
    BY <1>1, <2>1, SMT
  <2> QED
    BY <2>1, <2>2 DEF p, s
<1> QED
  BY <1>4, <1>5

Word == 2^W

\* The number of values of a word, its half and its quarter.
LEMMA WordIs ==
  /\ Word \in Nat \ {0} /\ 2^(W - 1) \in Nat /\ 2^(W - 2) \in Nat
  /\ Word = 2 * 2^(W - 1) /\ 2^(W - 1) = 2 * 2^(W - 2)
  /\ 2^(W - 1) >= 512
  /\ W - 1 \in Nat /\ W - 2 \in Nat /\ W \in Nat
<1>1. W \in Nat /\ W >= 10 /\ W - 1 \in Nat /\ W - 2 \in Nat
  BY WordAssumption
<1>2. 2^(W - 1 + 1) = 2 * 2^(W - 1) /\ 2^(W - 2 + 1) = 2 * 2^(W - 2)
  BY <1>1, PowerNext
<1>3. W - 1 + 1 = W /\ W - 2 + 1 = W - 1
  BY <1>1
<1>4. 2^W \in Nat \ {0} /\ 2^(W - 1) \in Nat /\ 2^(W - 2) \in Nat
  BY <1>1, PowerNat
<1>5. 2^9 <= 2^(W - 1)
  <2>1. 9 \in Nat /\ W - 1 \in Nat /\ 9 <= W - 1
    BY <1>1
  <2> QED
    BY <2>1, PowerLeq
<1>6. 2^(4 + 5) = 2^4 * 2^5
  BY PowerSum
<1>7. 2^9 = 512
  BY <1>6, PowerSmall
<1> QED
  BY <1>1, <1>2, <1>3, <1>4, <1>5, <1>7 DEF Word

\* The value of an uint32_t, and of an int32_t.
LEMMA UIs ==
  ASSUME NEW x \in Int
  PROVE  U(x) \in UInt32 /\ \E q \in Int : x = U(x) + q * Word
<1>1. Word \in Nat \ {0}
  BY WordIs
<1>2. /\ x \div Word \in Int /\ x % Word \in 0..(Word - 1)
      /\ x = Word * (x \div Word) + (x % Word)
  BY <1>1, IntDivMod
<1>3. U(x) = x % Word
  BY DEF U, Word
<1> DEFINE q == x \div Word
<1>4. \A d \in Int : Word * d = d * Word
  BY <1>1
<1>5. x = U(x) + q * Word
  BY <1>1, <1>2, <1>3, <1>4
<1> QED
  BY <1>1, <1>2, <1>3, <1>5 DEF UInt32, UINT32_MAX, Word

\* An uint32_t that differs from x by a multiple of 2^W is what x is wrapped to.
LEMMA UUnique ==
  ASSUME NEW x \in Int, NEW y \in UInt32, NEW q \in Int, x = y + q * Word
  PROVE  U(x) = y
<1>1. Word \in Nat \ {0}
  BY WordIs
<1>2. y \in 0..(Word - 1)
  BY DEF UInt32, UINT32_MAX, Word
<1>3. x = Word * q + y
  BY <1>1, <1>2
<1> HIDE DEF Word
<1>4. x % Word = y
  BY <1>1, <1>2, <1>3, IntDivUnique
<1> QED
  BY <1>4 DEF U, Word

\* Wrapping leaves an uint32_t alone.
LEMMA USmall == ASSUME NEW x \in UInt32 PROVE U(x) = x
<1>1. x \in Int
  BY WordIs DEF UInt32, UINT32_MAX, Word
<1>2. x = x + 0 * Word
  BY <1>1, WordIs
<1> QED
  BY <1>1, <1>2, UUnique

\* What x is wrapped to is an int32_t and differs by a multiple of 2^W,
LEMMA WrapIs ==
  ASSUME NEW x \in Int
  PROVE  Wrap(x) \in Int32 /\ \E q \in Int : x = Wrap(x) + q * Word
<1> DEFINE h == 2^(W - 1)
<1>1. h \in Nat /\ Word \in Nat \ {0} /\ Word = 2 * h
  BY WordIs
<1>2. U(x + h) \in UInt32 /\ \E q \in Int : x + h = U(x + h) + q * Word
  BY <1>1, UIs
<1>3. Wrap(x) = U(x + h) - h
  BY DEF Wrap, U
<1>4. UInt32 = 0..(Word - 1) /\ Int32 = (-h)..(h - 1)
  BY DEF UInt32, UINT32_MAX, Word, Int32
<1> HIDE DEF h
<1>5. Wrap(x) \in Int32
  BY <1>1, <1>2, <1>3, <1>4
<1>6. PICK q \in Int : x + h = U(x + h) + q * Word
  BY <1>2
<1>7. q * Word \in Int /\ U(x + h) \in Int
  BY <1>1, <1>2, <1>4
<1>8. x = Wrap(x) + q * Word
  BY <1>1, <1>3, <1>6, <1>7
<1> QED
  BY <1>5, <1>8

\* and it is the only one.
LEMMA WrapUnique ==
  ASSUME NEW x \in Int, NEW y \in Int32, NEW q \in Int, x = y + q * Word
  PROVE  Wrap(x) = y
<1> DEFINE h == 2^(W - 1)
<1>1. h \in Nat /\ Word \in Nat \ {0} /\ Word = 2 * h
  BY WordIs
<1>2. Wrap(x) = U(x + h) - h
  BY DEF Wrap, U
<1>3. UInt32 = 0..(Word - 1) /\ Int32 = (-h)..(h - 1)
  BY DEF UInt32, UINT32_MAX, Word, Int32
<1> HIDE DEF h
<1>4. y + h \in UInt32 /\ x + h \in Int /\ y \in Int
  BY <1>1, <1>3
<1>5. q * Word \in Int
  BY <1>1
<1>6. x + h = (y + h) + q * Word
  BY <1>1, <1>4, <1>5
<1>7. U(x + h) = y + h
  BY <1>4, <1>6, UUnique
<1> QED
  BY <1>1, <1>2, <1>4, <1>7

\* The int32_t and the uint32_t are integers.
LEMMA IntWords ==
  /\ Int32 \subseteq Int /\ UInt32 \subseteq Nat
  /\ 0 \in Int32 /\ 0 \in UInt32
  /\ UInt32 = 0..(Word - 1) /\ Int32 = (-2^(W - 1))..(2^(W - 1) - 1)
  /\ \A x \in -512..511 : x \in Int32
  BY WordIs DEF Int32, UInt32, UINT32_MAX, Word

\* So is what is wrapped.
LEMMA Ints ==
  ASSUME NEW x \in Int
  PROVE  Wrap(x) \in Int /\ U(x) \in Int /\ U(x) \in Nat
<1>1. Wrap(x) \in Int32 /\ U(x) \in UInt32
  BY WrapIs, UIs
<1>2. Wrap(x) \in Int /\ U(x) \in Nat
  BY <1>1, IntWords, Zenon
<1> QED
  BY <1>2

\* Wrapping leaves an int32_t alone.
LEMMA WrapSmall == ASSUME NEW x \in Int32 PROVE Wrap(x) = x
<1>1. x \in Int /\ x = x + 0 * Word
  BY WordIs, IntWords
<1> QED
  BY <1>1, WrapUnique

\* Sums of multiples of 2^W.
LEMMA Multiples ==
  ASSUME NEW a \in Int, NEW b \in Int
  PROVE  /\ a * Word + b * Word = (a + b) * Word
         /\ a * Word - b * Word = (a - b) * Word
         /\ -(a * Word) = (-a) * Word
         /\ a * Word \in Int
<1>1. Word \in Int
  BY WordIs
<1>2. \A w \in Int : a * w + b * w = (a + b) * w /\ a * w - b * w = (a - b) * w
         /\ -(a * w) = (-a) * w /\ a * w \in Int
  BY SMT
<1> QED
  BY <1>1, <1>2

\* Numbers that differ by a multiple of 2^W have the same value.
LEMMA WrapCong ==
  ASSUME NEW x \in Int, NEW y \in Int, NEW q \in Int, x = y + q * Word
  PROVE  Wrap(x) = Wrap(y) /\ U(x) = U(y)
<1>1. PICK p \in Int : y = Wrap(y) + p * Word
  BY WrapIs
<1>2. PICK s \in Int : y = U(y) + s * Word
  BY UIs
<1>3. Wrap(y) \in Int32 /\ Wrap(y) \in Int /\ U(y) \in UInt32 /\ U(y) \in Int
  BY WrapIs, UIs, Ints
<1>4. x = Wrap(y) + (p + q) * Word /\ x = U(y) + (s + q) * Word
  <2>1. p * Word + q * Word = (p + q) * Word /\ s * Word + q * Word = (s + q) * Word
        /\ p * Word \in Int /\ q * Word \in Int /\ s * Word \in Int
    BY Multiples
  <2> QED
    BY <1>1, <1>2, <1>3, <2>1
<1>5. p + q \in Int /\ s + q \in Int
  OBVIOUS
<1> QED
  BY <1>3, <1>4, <1>5, WrapUnique, UUnique

\* A sum can be wrapped at any point.
LEMMA WrapSum ==
  ASSUME NEW x \in Int, NEW y \in Int
  PROVE  /\ Wrap(x + Wrap(y)) = Wrap(x + y) /\ Wrap(x - Wrap(y)) = Wrap(x - y)
         /\ Wrap(Wrap(x) + y) = Wrap(x + y) /\ Wrap(Wrap(x) - y) = Wrap(x - y)
         /\ Wrap(Wrap(x)) = Wrap(x) /\ Wrap(-Wrap(x)) = Wrap(-x) /\ U(-Wrap(x)) = U(-x)
         /\ Wrap(U(x)) = Wrap(x) /\ Wrap(-U(x)) = Wrap(-x)
<1>1. PICK p \in Int : y = Wrap(y) + p * Word
  BY WrapIs
<1>2. PICK q \in Int : x = Wrap(x) + q * Word
  BY WrapIs
<1>3. PICK s \in Int : x = U(x) + s * Word
  BY UIs
<1>4. Wrap(x) \in Int /\ Wrap(y) \in Int /\ U(x) \in Int
  BY Ints
<1>5. /\ p * Word \in Int /\ q * Word \in Int /\ s * Word \in Int
      /\ -(p * Word) = (-p) * Word /\ -(q * Word) = (-q) * Word /\ -(s * Word) = (-s) * Word
      /\ -p \in Int /\ -q \in Int /\ -s \in Int
  BY Multiples
<1>6. /\ x + Wrap(y) = (x + y) + (-p) * Word
      /\ x - Wrap(y) = (x - y) + p * Word
      /\ Wrap(x) + y = (x + y) + (-q) * Word
      /\ Wrap(x) - y = (x - y) + (-q) * Word
      /\ Wrap(x) = x + (-q) * Word
      /\ -Wrap(x) = -x + q * Word
      /\ U(x) = x + (-s) * Word
      /\ -U(x) = -x + s * Word
  BY <1>1, <1>2, <1>3, <1>4, <1>5
<1>7. /\ x + Wrap(y) \in Int /\ x + y \in Int /\ x - Wrap(y) \in Int /\ x - y \in Int
      /\ Wrap(x) + y \in Int /\ Wrap(x) - y \in Int /\ -Wrap(x) \in Int /\ -x \in Int
      /\ U(x) \in Int /\ -U(x) \in Int
  BY <1>4
<1>8. Wrap(x + Wrap(y)) = Wrap(x + y) /\ Wrap(x - Wrap(y)) = Wrap(x - y)
  BY <1>5, <1>6, <1>7, WrapCong
<1>9. Wrap(Wrap(x) + y) = Wrap(x + y) /\ Wrap(Wrap(x) - y) = Wrap(x - y)
  BY <1>5, <1>6, <1>7, WrapCong
<1>10. Wrap(Wrap(x)) = Wrap(x) /\ Wrap(-Wrap(x)) = Wrap(-x) /\ U(-Wrap(x)) = U(-x)
  BY <1>4, <1>5, <1>6, <1>7, WrapCong
<1>11. Wrap(U(x)) = Wrap(x) /\ Wrap(-U(x)) = Wrap(-x)
  BY <1>4, <1>5, <1>6, <1>7, WrapCong
<1> QED
  BY <1>8, <1>9, <1>10, <1>11

\* What is taken off and added again is back, and the other way around.
LEMMA WrapBack ==
  ASSUME NEW x \in Int32, NEW s \in Int
  PROVE  Wrap(Wrap(x - s) + s) = x /\ Wrap(s - Wrap(s - x)) = x
<1>1. x \in Int /\ x - s \in Int /\ s - x \in Int
  BY IntWords
<1>2. Wrap(Wrap(x - s) + s) = Wrap((x - s) + s) /\ Wrap(s - Wrap(s - x)) = Wrap(s - (s - x))
  BY <1>1, WrapSum
<1>3. (x - s) + s = x /\ s - (s - x) = x
  BY <1>1
<1> QED
  BY <1>2, <1>3, WrapSmall

-----------------------------------------------------------------------------
(* The values of a channel: predictor, filter and interleaving *)

\* The parameters for every number of bytes per sample.
LEMMA Parameters ==
  ASSUME NEW sb \in 1..3
  PROVE  /\ get_predict_k(sb) \in Nat /\ get_filter_k(sb) \in Nat
         /\ get_filter_round(sb) \in Nat
  BY DEF get_predict_k, get_filter_k, get_filter_round

\* Shifts of integers are integers.
LEMMA DivInt ==
  ASSUME NEW x \in Int, NEW k \in Nat
  PROVE  x \div 2^k \in Int
<1>1. 2^k \in Nat \ {0}
  BY PowerNat
<1> QED
  BY <1>1, IntDivMod

\* What the predictor, the filter and its updates compute.
LEMMA PredictType ==
  ASSUME NEW x \in Int, NEW k \in Nat
  PROVE  tta_predict1(x, k) \in Int
<1>1. 2^k \in Int
  BY PowerNat
<1>2. x * (2^k - 1) \in Int
  BY <1>1
<1>3. (x * (2^k - 1)) \div 2^k \in Int
  BY <1>2, DivInt
<1> QED
  BY <1>3, Ints DEF tta_predict1

\* The sum of the filter.
LEMMA SumType ==
  ASSUME NEW a \in [Taps -> Int], NEW b \in [Taps -> Int], NEW round \in Int
  PROVE  filter_sum(a, b, round) \in Int
<1> DEFINE r(i) == Wrap(a[i] * b[i])
<1>1. \A i \in Taps : a[i] * b[i] \in Int
  OBVIOUS
<1>2. \A i \in Taps : r(i) \in Int
  BY <1>1, Ints
<1>3. \A i \in 0..7 : r(i) \in Int
  BY <1>2 DEF Taps
<1>4. filter_sum(a, b, round) = Wrap(round + r(0) + r(1) + r(2) + r(3) + r(4) + r(5) + r(6) + r(7))
  BY DEF filter_sum
<1> HIDE DEF r
<1>5. r(0) \in Int /\ r(1) \in Int /\ r(2) \in Int /\ r(3) \in Int
      /\ r(4) \in Int /\ r(5) \in Int /\ r(6) \in Int /\ r(7) \in Int
  BY <1>3
<1>6. round + r(0) + r(1) + r(2) + r(3) + r(4) + r(5) + r(6) + r(7) \in Int
  BY <1>5
<1> QED
  BY <1>4, <1>6, Ints

\* The fields of the filter state.
LEMMA FilterStateIs ==
  ASSUME NEW f \in FilterState
  PROVE  /\ f.qm \in [Taps -> Int32] /\ f.dx \in [Taps -> Int] /\ f.dl \in [Taps -> Int32]
         /\ f.error \in {-1, 0, 1}
         /\ f.qm \in [Taps -> Int] /\ f.dl \in [Taps -> Int]
<1>1. /\ f.qm \in [Taps -> Int32] /\ f.dx \in [Taps -> Int] /\ f.dl \in [Taps -> Int32]
      /\ f.error \in {-1, 0, 1}
  BY DEF FilterState
<1>2. [Taps -> Int32] \subseteq [Taps -> Int]
  BY IntWords, Zenon
<1> QED
  BY <1>1, <1>2, Zenon

\* The weights after the update by the last error.
LEMMA UpdatedAType ==
  ASSUME NEW f \in FilterState
  PROVE  updated_a(f) \in [Taps -> Int32] /\ updated_a(f) \in [Taps -> Int]
<1>1. \A i \in Taps : f.qm[i] + f.dx[i] * f.error \in Int
  <2> SUFFICES ASSUME NEW i \in Taps PROVE f.qm[i] + f.dx[i] * f.error \in Int
    OBVIOUS
  <2>1. f.qm[i] \in Int /\ f.dx[i] \in Int /\ f.error \in Int
    BY FilterStateIs
  <2> QED
    BY <2>1
<1>2. \A i \in Taps : Wrap(f.qm[i] + f.dx[i] * f.error) \in Int32
  BY <1>1, WrapIs
<1>3. updated_a(f) \in [Taps -> Int32]
  BY <1>2, Zenon DEF updated_a
<1>4. [Taps -> Int32] \subseteq [Taps -> Int]
  BY IntWords, Zenon
<1> QED
  BY <1>3, <1>4, Zenon

\* The signs for the next update.
LEMMA UpdatedMType ==
  ASSUME NEW b, NEW k \in Nat
  PROVE  updated_m(b, k) \in Int
<1>1. 2^k \in Int
  BY PowerNat
<1> QED
  BY <1>1 DEF updated_m

\* The filter after a sample is a filter again.
LEMMA FilterNextType ==
  ASSUME NEW f \in FilterState, NEW a \in [Taps -> Int32], NEW input \in Int32, NEW residue
  PROVE  FilterNext(f, a, input, residue) \in FilterState
<1>1. updated_dx(f.dx, f.dl) \in [Taps -> Int]
  <2> DEFINE body(i) == CASE i < 4 -> f.dx[i + 1]
                          [] i = 4 -> updated_m(f.dl[4], 0)
                          [] i = 5 -> updated_m(f.dl[5], 1)
                          [] i = 6 -> updated_m(f.dl[6], 1)
                          [] i = 7 -> updated_m(f.dl[7], 2)
  <2>1. \A i \in Taps : f.dx[i] \in Int
    BY FilterStateIs
  <2>2. updated_m(f.dl[4], 0) \in Int /\ updated_m(f.dl[5], 1) \in Int
        /\ updated_m(f.dl[6], 1) \in Int /\ updated_m(f.dl[7], 2) \in Int
    BY UpdatedMType
  <2>3. ASSUME NEW i \in Taps PROVE body(i) \in Int
    <3>1. i < 4 => i + 1 \in Taps
      BY DEF Taps
    <3>2. i \in 0..7 /\ (i < 4 \/ i = 4 \/ i = 5 \/ i = 6 \/ i = 7)
      BY DEF Taps
    <3> QED
      BY <2>1, <2>2, <3>1, <3>2
  <2>4. updated_dx(f.dx, f.dl) = [i \in Taps |-> body(i)]
    BY DEF updated_dx
  <2> HIDE DEF body
  <2> QED
    BY <2>3, <2>4, Zenon
<1>2. updated_dl(f.dl, input) \in [Taps -> Int32]
  <2> DEFINE b == f.dl
             b7 == Wrap(input - b[7])
             b6 == Wrap(b7 - b[6])
             b5 == Wrap(b6 - b[5])
  <2>1. \A i \in Taps : b[i] \in Int32 /\ b[i] \in Int
    BY FilterStateIs
  <2>2. 5 \in Taps /\ 6 \in Taps /\ 7 \in Taps
    BY DEF Taps
  <2>3. input \in Int
    BY IntWords
  <2>4. b7 \in Int32 /\ b7 \in Int
    <3>1. input - b[7] \in Int
      BY <2>1, <2>2, <2>3
    <3> QED
      BY <3>1, WrapIs, Ints
  <2>5. b6 \in Int32 /\ b6 \in Int
    <3>1. b7 - b[6] \in Int
      BY <2>1, <2>2, <2>4
    <3> QED
      BY <3>1, WrapIs, Ints
  <2>6. b5 \in Int32
    <3>1. b6 - b[5] \in Int
      BY <2>1, <2>2, <2>5
    <3> QED
      BY <3>1, WrapIs, Ints
  <2>7. updated_dl(b, input) = [i \in Taps |-> CASE i < 4 -> b[i + 1]
                        [] i = 4 -> b5
                        [] i = 5 -> b6
                        [] i = 6 -> b7
                        [] i = 7 -> input]
    BY DEF updated_dl
  <2> HIDE DEF b, b5, b6, b7
  <2>8. \A i \in Taps : (CASE i < 4 -> b[i + 1]
                        [] i = 4 -> b5
                        [] i = 5 -> b6
                        [] i = 6 -> b7
                        [] i = 7 -> input) \in Int32
    <3> SUFFICES ASSUME NEW i \in Taps
                 PROVE (CASE i < 4 -> b[i + 1]
                        [] i = 4 -> b5
                        [] i = 5 -> b6
                        [] i = 6 -> b7
                        [] i = 7 -> input) \in Int32
      OBVIOUS
    <3>1. i < 4 => i + 1 \in Taps
      BY DEF Taps
    <3>2. i < 4 \/ i = 4 \/ i = 5 \/ i = 6 \/ i = 7
      BY DEF Taps
    <3>3. i \in 0..7
      BY DEF Taps
    <3> QED
      BY <2>1, <2>4, <2>5, <2>6, <3>1, <3>2, <3>3
  <2>9. updated_dl(b, input) \in [Taps -> Int32]
    BY <2>7, <2>8, Zenon
  <2> QED
    BY <2>9 DEF b
<1>3. signof32(residue) \in {-1, 0, 1}
  BY DEF signof32
<1> QED
  BY <1>1, <1>2, <1>3 DEF FilterNext, FilterState

\* The filters of encoder and decoder stay in step, and the decoder's takes
\* off what the encoder's added.
LEMMA FilterTypes ==
  ASSUME NEW f \in FilterState, NEW value \in Int32, NEW round \in Int, NEW k \in Nat
  PROVE  LET e == tta_filter_enc(f, value, round, k)
         IN  e.value \in Int32 /\ e.filter \in FilterState
<1> DEFINE a == updated_a(f)
           s == asr32(filter_sum(a, f.dl, round), k)
           retval == Wrap(value - s)
<1>1. s \in Int
  <2>1. filter_sum(a, f.dl, round) \in Int
    BY UpdatedAType, FilterStateIs, SumType
  <2> QED
    BY <2>1, DivInt DEF asr32
<1>2. retval \in Int32
  <2>1. value \in Int
    BY IntWords
  <2>2. value - s \in Int
    BY <1>1, <2>1
  <2> QED
    BY <2>2, WrapIs
<1>3. tta_filter_enc(f, value, round, k) = [filter |-> FilterNext(f, a, value, retval), value |-> retval]
  BY Zenon DEF tta_filter_enc
<1>4. FilterNext(f, a, value, retval) \in FilterState
  BY UpdatedAType, FilterNextType
<1> HIDE DEF retval
<1> QED
  BY <1>2, <1>3, <1>4

\* From the same filter the decoder gets the value back, and the same filter.
LEMMA FilterBack ==
  ASSUME NEW f \in FilterState, NEW value \in Int32, NEW round \in Int, NEW k \in Nat
  PROVE  LET e == tta_filter_enc(f, value, round, k)
         IN  tta_filter_dec(f, e.value, round, k) = [filter |-> e.filter, value |-> value]
<1> DEFINE a == updated_a(f)
           s == asr32(filter_sum(a, f.dl, round), k)
           retval == Wrap(value - s)
<1>1. s \in Int
  <2>1. filter_sum(a, f.dl, round) \in Int
    BY UpdatedAType, FilterStateIs, SumType
  <2> QED
    BY <2>1, DivInt DEF asr32
<1>2. Wrap(retval + s) = value
  BY <1>1, WrapBack
<1>3. tta_filter_enc(f, value, round, k) = [filter |-> FilterNext(f, a, value, retval), value |-> retval]
  BY Zenon DEF tta_filter_enc
<1>4. tta_filter_dec(f, retval, round, k)
        = [filter |-> FilterNext(f, a, Wrap(retval + s), retval), value |-> Wrap(retval + s)]
  BY Zenon DEF tta_filter_dec
<1> HIDE DEF retval, s, a
<1> QED
  BY <1>2, <1>3, <1>4

\* The interleaving and back.
LEMMA InterleavedType == ASSUME NEW x \in Int32 PROVE tta_postfilter_enc(x) \in UInt32
<1> DEFINE y == U(-x)
           d == U(2 * y)
<1>1. -x \in Int
  BY IntWords
<1>2. y \in UInt32 /\ 2 * y \in Int
  BY <1>1, UIs, Ints
<1>3. d \in UInt32
  BY <1>2, UIs
<1>4. UINT32_MAX = Word - 1 /\ UInt32 = 0..(Word - 1) /\ Word \in Nat
  BY IntWords, WordIs DEF UINT32_MAX, Word
<1>5. tta_postfilter_enc(x) = IF y >= 2^(W - 1) THEN UINT32_MAX - d ELSE d
  BY DEF tta_postfilter_enc
<1> HIDE DEF d, y
<1> QED
  BY <1>3, <1>4, <1>5

\* The interleaving is undone.
LEMMA InterleavedBack ==
  ASSUME NEW x \in Int32
  PROVE  tta_prefilter_dec(tta_postfilter_enc(x)) = x
<1> DEFINE h == 2^(W - 1)
           y == U(-x)
           d == U(2 * y)
           u == tta_postfilter_enc(x)
<1>1. h \in Nat /\ h >= 512 /\ Word = 2 * h /\ UINT32_MAX = 2 * h - 1
  BY WordIs DEF UINT32_MAX, Word
<1>2. UInt32 = 0..(2 * h - 1) /\ Int32 = (-h)..(h - 1)
  BY <1>1, IntWords
<1>3. x \in (-h)..(h - 1)
  BY <1>2
<1>4. u = IF y >= h THEN UINT32_MAX - d ELSE d
  BY DEF tta_postfilter_enc
<1>5. tta_prefilter_dec(u) = Wrap(-(IF u % 2 = 1 THEN UINT32_MAX - u \div 2 ELSE u \div 2))
  BY DEF tta_prefilter_dec
<1>6. y = IF x > 0 THEN 2 * h - x ELSE -x
  <2>1. CASE x > 0
    <3>1. -x \in Int /\ 2 * h - x \in UInt32 /\ -x = (2 * h - x) + (-1) * Word
      BY <1>1, <1>2, <1>3, <2>1
    <3> QED
      BY <3>1, <2>1, UUnique
  <2>2. CASE ~(x > 0)
    <3>1. -x \in UInt32
      BY <1>1, <1>2, <1>3, <2>2
    <3> QED
      BY <3>1, <2>2, USmall
  <2> QED
    BY <2>1, <2>2
<1> HIDE DEF y
<1>7. CASE x > 0
  <2>1. y = 2 * h - x /\ y >= h
    BY <1>1, <1>3, <1>6, <1>7
  <2>2. d = 2 * h - 2 * x
    <3>1. 2 * y \in Int /\ 2 * y = (2 * h - 2 * x) + 1 * Word
      BY <1>1, <1>3, <2>1
    <3>2. CASE 2 * h - 2 * x \in UInt32
      BY <3>1, <3>2, UUnique
    <3>3. 2 * h - 2 * x \in UInt32
      BY <1>1, <1>2, <1>3, <1>7
    <3> QED
      BY <3>2, <3>3
  <2> HIDE DEF d
  <2>3. u = 2 * x - 1
    BY <1>1, <1>3, <1>4, <2>1, <2>2
  <2>4. u % 2 = 1 /\ u \div 2 = x - 1
    BY <1>1, <1>3, <2>3
  <2>5. tta_prefilter_dec(u) = Wrap(-(UINT32_MAX - (x - 1)))
    BY <1>5, <2>4
  <2>6. -(UINT32_MAX - (x - 1)) = x + (-1) * Word /\ -(UINT32_MAX - (x - 1)) \in Int
    BY <1>1, <1>3
  <2> QED
    BY <2>5, <2>6, WrapUnique
<1>8. CASE ~(x > 0) /\ x # -h
  <2>1. y = -x /\ ~(y >= h)
    BY <1>1, <1>3, <1>6, <1>8
  <2>2. d = -2 * x
    <3>1. 2 * y = -2 * x /\ -2 * x \in UInt32
      BY <1>1, <1>2, <1>3, <1>8, <2>1
    <3> QED
      BY <3>1, USmall
  <2> HIDE DEF d
  <2>3. u = -2 * x
    BY <1>4, <2>1, <2>2
  <2>4. u % 2 # 1 /\ u \div 2 = -x
    BY <1>1, <1>3, <2>3
  <2>5. tta_prefilter_dec(u) = Wrap(-(-x))
    BY <1>5, <2>4
  <2>6. -(-x) = x
    BY <1>3
  <2> QED
    BY <2>5, <2>6, WrapSmall
<1>9. CASE x = -h
  <2>1. y = h /\ y >= h
    BY <1>1, <1>6, <1>9
  <2>2. d = 0
    <3>1. 2 * y \in Int /\ 2 * y = 0 + 1 * Word /\ 0 \in UInt32
      BY <1>1, <1>2, <2>1
    <3> QED
      BY <3>1, UUnique
  <2> HIDE DEF d
  <2>3. u = 2 * h - 1
    BY <1>1, <1>4, <2>1, <2>2
  <2>4. u % 2 = 1 /\ u \div 2 = h - 1
    BY <1>1, <2>3
  <2>5. tta_prefilter_dec(u) = Wrap(-(UINT32_MAX - (h - 1)))
    BY <1>5, <2>4
  <2>6. -(UINT32_MAX - (h - 1)) = x
    BY <1>1, <1>9
  <2> QED
    BY <2>5, <2>6, WrapSmall
<1> QED
  BY <1>7, <1>8, <1>9 DEF u

-----------------------------------------------------------------------------
(* Numbers and their bits *)

\* The number that bits make, bit after bit.
LEMMA NumberIs ==
  ASSUME NEW bits \in Seq(Bit)
  PROVE  \E low \in [0..Len(bits) -> Nat] :
           /\ NumberOf(bits) = low[Len(bits)]
           /\ low[0] = 0
           /\ \A i \in 1..Len(bits) : low[i] = low[i - 1] + bits[i] * 2^(i - 1)
<1> DEFINE n == Len(bits)
           step == [i \in 1..n |-> [a \in Nat |-> a + bits[i] * 2^(i - 1)]]
           R(f) == f = [i \in 0..n |-> IF i = 0 THEN 0 ELSE f[i - 1] + bits[i] * 2^(i - 1)]
           low == CHOOSE f : R(f)
<1>1. n \in Nat /\ \A i \in 1..n : bits[i] \in Bit
  OBVIOUS
<1>2. \A i \in 1..n, a \in Nat : a + bits[i] * 2^(i - 1) \in Nat
  <2> SUFFICES ASSUME NEW i \in 1..n, NEW a \in Nat PROVE a + bits[i] * 2^(i - 1) \in Nat
    OBVIOUS
  <2>1. bits[i] = 0 \/ bits[i] = 1
    BY <1>1 DEF Bit
  <2>2. i - 1 \in Nat
    OBVIOUS
  <2>3. 2^(i - 1) \in Nat
    BY <2>2, PowerNat
  <2> QED
    BY <2>1, <2>3
<1>3. step \in [1..n -> [Nat -> Nat]]
  BY <1>2, Zenon
<1>4. \A i \in 1..n, a \in Nat : step[i][a] = a + bits[i] * 2^(i - 1)
  BY Zenon
<1>5. PICK f \in [0..n -> Nat] : f[0] = 0 /\ \A i \in 1..n : f[i] = step[i][f[i - 1]]
  <2>1. 0 \in Nat
    OBVIOUS
  <2> HIDE DEF step, n
  <2>2. Iterates(Nat, 0, n, step)
    BY <1>1, <1>3, <2>1, Recursion
  <2> QED
    BY <2>2 DEF Iterates
<1>5a. R(f)
  <2> HIDE DEF step
  <2>1. ASSUME NEW i \in 1..n PROVE f[i] = f[i - 1] + bits[i] * 2^(i - 1)
    <3>1. f[i - 1] \in Nat
      BY <1>1
    <3> QED
      BY <1>4, <1>5, <3>1
  <2>2. f = [i \in 0..n |-> IF i = 0 THEN 0 ELSE f[i - 1] + bits[i] * 2^(i - 1)]
    BY <1>1, <1>5, <2>1
  <2> QED
    BY <2>2
<1>6. R(low)
  BY <1>5a, Zenon
<1>7. NumberOf(bits) = low[n]
  BY Zenon DEF NumberOf
<1> HIDE DEF low, n, step
<1> DEFINE T == {i \in Nat : i \in 0..n => low[i] \in Nat}
<1>8. 0 \in T
  BY <1>1, <1>6
<1>9. ASSUME NEW i \in Nat, i \in T PROVE i + 1 \in T
  <2> SUFFICES ASSUME i + 1 \in 0..n PROVE low[i + 1] \in Nat
    OBVIOUS
  <2>1. i \in 0..n /\ i + 1 \in 1..n /\ i + 1 # 0 /\ (i + 1) - 1 = i
    BY <1>1
  <2>2. low[i + 1] = low[i] + bits[i + 1] * 2^(i + 1 - 1)
    BY <1>6, <2>1
  <2>3. low[i] \in Nat
    BY <1>9, <2>1
  <2> QED
    BY <1>2, <2>1, <2>2, <2>3
<1> HIDE DEF T
<1>10. \A i \in 0..n : low[i] \in Nat
  <2>1. Nat \subseteq T
    BY <1>8, <1>9, Induction
  <2>2. \A i \in 0..n : i \in T
    BY <2>1, <1>1
  <2> QED
    BY <2>2 DEF T
<1>11. low \in [0..n -> Nat]
  BY <1>6, <1>10
<1>12. low[0] = 0 /\ \A i \in 1..n : low[i] = low[i - 1] + bits[i] * 2^(i - 1)
  BY <1>1, <1>6
<1> QED
  BY <1>7, <1>11, <1>12 DEF n

\* n bits make a number below 2^n.
LEMMA NumberBound ==
  ASSUME NEW bits \in Seq(Bit)
  PROVE  NumberOf(bits) \in 0..(2^Len(bits) - 1)
<1> DEFINE n == Len(bits)
<1>1. n \in Nat /\ \A i \in 1..n : bits[i] = 0 \/ bits[i] = 1
  BY DEF Bit
<1>2. PICK low \in [0..n -> Nat] :
           /\ NumberOf(bits) = low[n]
           /\ low[0] = 0
           /\ \A i \in 1..n : low[i] = low[i - 1] + bits[i] * 2^(i - 1)
  BY NumberIs
<1> DEFINE T == {i \in Nat : i \in 0..n => low[i] < 2^i}
<1> HIDE DEF n
<1>3. 0 \in T
  BY <1>2, PowerZero
<1>4. ASSUME NEW i \in Nat, i \in T PROVE i + 1 \in T
  <2> SUFFICES ASSUME i + 1 \in 0..n PROVE low[i + 1] < 2^(i + 1)
    OBVIOUS
  <2>1. i \in 0..n /\ i + 1 \in 1..n /\ (i + 1) - 1 = i
    BY <1>1
  <2>2. low[i + 1] = low[i] + bits[i + 1] * 2^i /\ low[i] \in Nat /\ low[i] < 2^i
    BY <1>2, <1>4, <2>1
  <2>3. 2^i \in Nat /\ 2^(i + 1) = 2 * 2^i
    BY PowerNat, PowerNext
  <2>4. bits[i + 1] = 0 \/ bits[i + 1] = 1
    BY <1>1, <2>1
  <2> QED
    BY <2>2, <2>3, <2>4
<1> HIDE DEF T
<1>5. n \in T
  BY <1>1, <1>3, <1>4, Induction
<1>6. low[n] < 2^n /\ low[n] \in Nat /\ 2^n \in Nat
  BY <1>1, <1>2, <1>5, PowerNat DEF T
<1> QED
  BY <1>2, <1>6 DEF n

\* n bits of a number.
LEMMA BitsType ==
  ASSUME NEW x \in Nat, NEW n \in Nat
  PROVE  BitsOf(x, n) \in Seq(Bit) /\ Len(BitsOf(x, n)) = n
<1>1. \A i \in 1..n : (x \div 2^(i - 1)) % 2 \in Bit
  <2> SUFFICES ASSUME NEW i \in 1..n PROVE (x \div 2^(i - 1)) % 2 \in Bit
    OBVIOUS
  <2>1. i - 1 \in Nat
    OBVIOUS
  <2>2. x \div 2^(i - 1) \in Int
    BY <2>1, DivInt
  <2> QED
    BY <2>2 DEF Bit
<1> QED
  BY <1>1 DEF BitsOf

\* The n low bits of x make x again if it has no more than those.
LEMMA NumberOfBits ==
  ASSUME NEW x \in Nat, NEW n \in Nat, x < 2^n
  PROVE  NumberOf(BitsOf(x, n)) = x
<1> DEFINE bits == BitsOf(x, n)
<1>1. bits \in Seq(Bit) /\ Len(bits) = n /\ \A i \in 1..n : bits[i] = (x \div 2^(i - 1)) % 2
  BY BitsType DEF BitsOf
<1> HIDE DEF bits
<1>2. PICK low \in [0..n -> Nat] :
           /\ NumberOf(bits) = low[n]
           /\ low[0] = 0
           /\ \A i \in 1..n : low[i] = low[i - 1] + bits[i] * 2^(i - 1)
  BY <1>1, NumberIs
<1> DEFINE T == {i \in Nat : i \in 0..n => low[i] = x % 2^i}
<1>3. 0 \in T
  <2>1. x % 1 = 0
    OBVIOUS
  <2> QED
    BY <1>2, <2>1, PowerZero
<1>4. ASSUME NEW i \in Nat, i \in T PROVE i + 1 \in T
  <2> SUFFICES ASSUME i + 1 \in 0..n PROVE low[i + 1] = x % 2^(i + 1)
    OBVIOUS
  <2>1. i \in 0..n /\ i + 1 \in 1..n /\ (i + 1) - 1 = i
    OBVIOUS
  <2> DEFINE P == 2^i
             q == x \div P
             r == x % P
             b == q % 2
             s == q \div 2
  <2>2. P \in Nat \ {0} /\ 2^(i + 1) = 2 * P
    BY PowerNat, PowerNext
  <2>3. low[i + 1] = r + b * P
    BY <1>1, <1>2, <1>4, <2>1
  <2> HIDE DEF P
  <2>4. q \in Int /\ r \in 0..(P - 1) /\ x = P * q + r
    BY <2>2, IntDivMod
  <2>5. s \in Int /\ b \in 0..1 /\ q = 2 * s + b
    BY <2>4
  <2> HIDE DEF q, r, b, s
  <2>6. P * q = (2 * P) * s + b * P
    <3>1. \A p \in Nat, a \in Int : p * (2 * a + 0) = (2 * p) * a + 0 * p
      BY SMT
    <3>2. \A p \in Nat, a \in Int : p * (2 * a + 1) = (2 * p) * a + 1 * p
      BY SMT
    <3> QED
      BY <2>2, <2>5, <3>1, <3>2
  <2>7. b * P = 0 \/ b * P = P
    BY <2>2, <2>5
  <2>8. r + b * P \in 0..(2 * P - 1)
    BY <2>2, <2>4, <2>7
  <2>9. (2 * P) * s \in Int /\ 2 * P \in Nat \ {0}
    BY <2>2, <2>5
  <2>10. x = (2 * P) * s + (r + b * P)
    BY <2>2, <2>4, <2>6, <2>7, <2>9
  <2> DEFINE L == 2 * P
             t == r + b * P
  <2>11. L \in Nat \ {0} /\ t \in 0..(L - 1) /\ x = L * s + t
    BY <2>8, <2>9, <2>10
  <2> HIDE DEF L, t
  <2>12. x % L = t
    BY <2>5, <2>11, IntDivUnique
  <2> QED
    BY <2>2, <2>3, <2>12 DEF L, t
<1> HIDE DEF T
<1>5. n \in T
  BY <1>3, <1>4, Induction
<1>6. low[n] = x % 2^n
  BY <1>5 DEF T
<1>7. x % 2^n = x
  <2>1. 2^n \in Nat \ {0}
    BY PowerNat
  <2> DEFINE P == 2^n
  <2> HIDE DEF P
  <2>2. x \in 0..(P - 1) /\ x = P * 0 + x /\ P \in Nat \ {0}
    BY <2>1 DEF P
  <2>3. x % P = x
    BY <2>2, IntDivUnique
  <2> QED
    BY <2>3 DEF P
<1> QED
  BY <1>2, <1>6, <1>7 DEF bits

-----------------------------------------------------------------------------
(* The adaptive state of the Rice coder *)

\* The table of thresholds ends with UINT32_MAX.
LEMMA Thresholds ==
  /\ binexp32p4(0) = 0 /\ binexp32p4(KMax + 1) = UINT32_MAX
  /\ \A k \in 0..(KMax + 1) : binexp32p4(k) \in Int
<1>1. KMax \in Nat /\ UINT32_MAX \in Int
  BY WordAssumption, WordIs DEF UINT32_MAX, Word
<1>2. \A k \in 1..KMax : 2^(k + 4) \in Int
  <2> SUFFICES ASSUME NEW k \in 1..KMax PROVE 2^(k + 4) \in Int
    OBVIOUS
  <2>1. k + 4 \in Nat
    BY <1>1
  <2> QED
    BY <2>1, PowerNat
<1>3. binexp32p4(0) = 0
  BY <1>1 DEF binexp32p4
<1>4. binexp32p4(KMax + 1) = UINT32_MAX
  <2>1. KMax + 1 # 0 /\ KMax + 1 \notin 1..KMax /\ KMax + 1 > KMax
    BY <1>1
  <2> QED
    BY <2>1 DEF binexp32p4
<1>5. \A k \in 1..KMax : binexp32p4(k) = 2^(k + 4)
  <2> SUFFICES ASSUME NEW k \in 1..KMax PROVE binexp32p4(k) = 2^(k + 4)
    OBVIOUS
  <2>1. k # 0 /\ ~(k > KMax)
    BY <1>1
  <2> QED
    BY <2>1 DEF binexp32p4
<1>6. \A k \in 0..(KMax + 1) : k = 0 \/ k \in 1..KMax \/ k = KMax + 1
  BY <1>1
<1> QED
  BY <1>1, <1>2, <1>3, <1>4, <1>5, <1>6

\* The coder starts in a legal state.
LEMMA RiceInitType == RiceInit \in RiceState
<1>1. KInit \in 0..KMax /\ KInit + 4 \in Nat /\ KInit + 4 <= W - 1
  BY WordAssumption
<1>2. 2^(KInit + 4) <= 2^(W - 1)
  BY <1>1, WordIs, PowerLeq
<1>3. 2^(KInit + 4) \in Nat
  BY <1>1, PowerNat
<1>4. 2^(KInit + 4) \in UInt32
  BY <1>2, <1>3, WordIs, IntWords
<1> QED
  BY <1>1, <1>4 DEF RiceInit, RiceState

\* k never leaves the table: the sum is never below 0 and never above
\* UINT32_MAX.
LEMMA UpdateType ==
  ASSUME NEW rice \in RiceState, NEW j \in 0..1, NEW value \in Int
  PROVE  rice24_update(rice, j, value) \in RiceState
<1> DEFINE k   == rice.k[j]
           sum == U(rice.sum[j] + value - rice.sum[j] \div 16)
           kk  == IF sum < binexp32p4(k) THEN k - 1
                  ELSE IF sum > binexp32p4(k + 1) THEN k + 1 ELSE k
<1>1. /\ rice.k \in [0..1 -> 0..KMax] /\ rice.sum \in [0..1 -> UInt32]
      /\ k \in 0..KMax /\ rice.sum[j] \in UInt32
  BY DEF RiceState
<1>2. sum \in UInt32 /\ sum \in 0..UINT32_MAX /\ UINT32_MAX \in Int
  <2>1. rice.sum[j] \in Nat
    BY <1>1, IntWords
  <2>2. rice.sum[j] + value - rice.sum[j] \div 16 \in Int
    BY <2>1
  <2>3. sum \in UInt32
    BY <2>2, UIs
  <2> QED
    BY <2>3, WordIs DEF UInt32, UINT32_MAX, Word
<1>3. kk \in 0..KMax
  <2> HIDE DEF sum, k
  <2>1. KMax \in Nat
    BY WordAssumption
  <2>2. k \in 0..KMax /\ k \in 0..(KMax + 1) /\ k + 1 \in 0..(KMax + 1)
    BY <1>1, <2>1
  <2>3. binexp32p4(k) \in Int /\ binexp32p4(k + 1) \in Int
    BY <2>2, Thresholds
  <2>4. sum < binexp32p4(k) => k # 0
    BY <1>2, <2>3, Thresholds
  <2>5. sum > binexp32p4(k + 1) => k # KMax
    BY <1>2, <2>3, Thresholds
  <2> QED
    BY <2>1, <2>2, <2>4, <2>5
<1>4. rice24_update(rice, j, value) = [rice EXCEPT !.sum[j] = sum, !.k[j] = kk]
  BY Zenon DEF rice24_update
<1> HIDE DEF sum, kk
<1>5. rice24_update(rice, j, value)
        = [sum |-> [rice.sum EXCEPT ![j] = sum], k |-> [rice.k EXCEPT ![j] = kk]]
  BY <1>4 DEF RiceState
<1> QED
  BY <1>1, <1>2, <1>3, <1>5 DEF RiceState

\* The two updates of a value can be made in any order.
LEMMA UpdatesCommute ==
  ASSUME NEW rice \in RiceState, NEW x \in Int, NEW y \in Int
  PROVE  rice24_update(rice24_update(rice, 0, x), 1, y)
           = rice24_update(rice24_update(rice, 1, y), 0, x)
<1> DEFINE sum(j, v) == U(rice.sum[j] + v - rice.sum[j] \div 16)
           kk(j, v)  == IF sum(j, v) < binexp32p4(rice.k[j]) THEN rice.k[j] - 1
                        ELSE IF sum(j, v) > binexp32p4(rice.k[j] + 1) THEN rice.k[j] + 1
                        ELSE rice.k[j]
<1>1. rice.k \in [0..1 -> 0..KMax] /\ rice.sum \in [0..1 -> UInt32]
      /\ rice = [sum |-> rice.sum, k |-> rice.k]
  BY DEF RiceState
<1> DEFINE up(j, v) == [sum |-> [rice.sum EXCEPT ![j] = sum(j, v)],
                        k   |-> [rice.k EXCEPT ![j] = kk(j, v)]]
<1>2. \A j \in 0..1, v \in Int : rice24_update(rice, j, v) = up(j, v)
  <2> SUFFICES ASSUME NEW j \in 0..1, NEW v \in Int PROVE rice24_update(rice, j, v) = up(j, v)
    OBVIOUS
  <2>1. rice24_update(rice, j, v) = [rice EXCEPT !.sum[j] = sum(j, v), !.k[j] = kk(j, v)]
    BY Zenon DEF rice24_update
  <2> HIDE DEF sum, kk
  <2> QED
    BY <1>1, <2>1
<1>3. up(0, x).sum[1] = rice.sum[1] /\ up(0, x).k[1] = rice.k[1]
      /\ up(1, y).sum[0] = rice.sum[0] /\ up(1, y).k[0] = rice.k[0]
  <2> HIDE DEF sum, kk
  <2> QED
    BY <1>1
<1>4. rice24_update(up(0, x), 1, y) = [up(0, x) EXCEPT !.sum[1] = sum(1, y), !.k[1] = kk(1, y)]
  <2> HIDE DEF up
  <2> QED
    BY <1>3, Zenon DEF rice24_update
<1>5. rice24_update(up(1, y), 0, x) = [up(1, y) EXCEPT !.sum[0] = sum(0, x), !.k[0] = kk(0, x)]
  <2> HIDE DEF up
  <2> QED
    BY <1>3, Zenon DEF rice24_update
<1> HIDE DEF sum, kk
<1>6. [up(0, x) EXCEPT !.sum[1] = sum(1, y), !.k[1] = kk(1, y)]
        = [up(1, y) EXCEPT !.sum[0] = sum(0, x), !.k[0] = kk(0, x)]
  <2>1. [[rice.sum EXCEPT ![0] = sum(0, x)] EXCEPT ![1] = sum(1, y)]
          = [[rice.sum EXCEPT ![1] = sum(1, y)] EXCEPT ![0] = sum(0, x)]
    BY <1>1
  <2>2. [[rice.k EXCEPT ![0] = kk(0, x)] EXCEPT ![1] = kk(1, y)]
          = [[rice.k EXCEPT ![1] = kk(1, y)] EXCEPT ![0] = kk(0, x)]
    BY <1>1
  <2> QED
    BY <2>1, <2>2
<1> HIDE DEF up
<1> QED
  BY <1>2, <1>4, <1>5, <1>6

-----------------------------------------------------------------------------
(* Sequences of bits and bytes *)

\* Induction over the sequences of a set.
LEMMA SeqInduction ==
  ASSUME NEW S, NEW T, <<>> \in T, \A s \in Seq(S), e \in S : s \in T => Append(s, e) \in T
  PROVE  \A s \in Seq(S) : s \in T
<1> DEFINE N == {n \in Nat : \A s \in Seq(S) : Len(s) = n => s \in T}
<1>1. 0 \in N
  <2>1. \A s \in Seq(S) : Len(s) = 0 => s = <<>>
    BY EmptySeq
  <2> QED
    BY <2>1
<1>2. ASSUME NEW n \in Nat, n \in N PROVE n + 1 \in N
  <2> SUFFICES ASSUME NEW s \in Seq(S), Len(s) = n + 1 PROVE s \in T
    OBVIOUS
  <2>1. s # <<>>
    BY EmptySeq
  <2>2. PICK t \in Seq(S), e \in S : s = Append(t, e)
    BY <2>1, SequenceEmptyOrAppend
  <2>3. Len(t) = n
    <3>1. Len(Append(t, e)) = Len(t) + 1 /\ Len(t) \in Nat
      BY AppendProperties, LenProperties
    <3> QED
      BY <2>2, <3>1
  <2>4. t \in T
    BY <1>2, <2>3
  <2> QED
    BY <2>2, <2>4
<1> HIDE DEF N
<1>3. Nat \subseteq N
  BY <1>1, <1>2, Induction
<1> SUFFICES ASSUME NEW s \in Seq(S) PROVE s \in T
  OBVIOUS
<1>4. Len(s) \in Nat
  BY LenProperties
<1> QED
  BY <1>3, <1>4 DEF N

\* The sequences joined, one after the other.
LEMMA FlattenIs ==
  ASSUME NEW S, NEW seqs \in Seq(Seq(S))
  PROVE  \E fl \in [0..Len(seqs) -> Seq(S)] :
           /\ FlattenSeq(seqs) = fl[Len(seqs)]
           /\ fl[0] = <<>>
           /\ \A i \in 1..Len(seqs) : fl[i] = fl[i - 1] \o seqs[i]
<1> DEFINE n == Len(seqs)
           step == [i \in 1..n |-> [a \in Seq(S) |-> a \o seqs[i]]]
           next(f, i) == IF i = 1 THEN seqs[i] ELSE f[i - 1] \o seqs[i]
           R(f) == f = [i \in 1..n |-> next(f, i)]
           flatten == CHOOSE f : R(f)
<1>1. n \in Nat /\ \A i \in 1..n : seqs[i] \in Seq(S)
  BY LenProperties, ElementOfSeq
<1>2. step \in [1..n -> [Seq(S) -> Seq(S)]]
  <2>1. \A i \in 1..n, a \in Seq(S) : a \o seqs[i] \in Seq(S)
    BY <1>1, ConcatProperties
  <2> QED
    BY <2>1, Zenon
<1>3. \A i \in 1..n, a \in Seq(S) : step[i][a] = a \o seqs[i]
  BY Zenon
<1>4. PICK f \in [0..n -> Seq(S)] : f[0] = <<>> /\ \A i \in 1..n : f[i] = step[i][f[i - 1]]
  <2>1. <<>> \in Seq(S)
    BY EmptySeq
  <2> HIDE DEF step, n
  <2>2. Iterates(Seq(S), <<>>, n, step)
    BY <1>1, <1>2, <2>1, Recursion
  <2> QED
    BY <2>2 DEF Iterates
<1>5. \A i \in 1..n : f[i] = f[i - 1] \o seqs[i]
  <2> HIDE DEF step, n
  <2> SUFFICES ASSUME NEW i \in 1..n PROVE f[i] = f[i - 1] \o seqs[i]
    OBVIOUS
  <2>1. i - 1 \in 0..n
    BY <1>1
  <2>2. f[i - 1] \in Seq(S)
    BY <2>1
  <2> QED
    BY <1>3, <1>4, <2>2
<1> HIDE DEF step
<1>6. n # 0 => FlattenSeq(seqs) = f[n]
  <2> SUFFICES ASSUME n # 0 PROVE FlattenSeq(seqs) = f[n]
    OBVIOUS
  <2> DEFINE g == [i \in 1..n |-> f[i]]
  <2>1. f[1] = seqs[1]
    <3>1. 1 \in 1..n /\ 1 - 1 = 0
      BY <1>1
    <3>2. f[1] = <<>> \o seqs[1] /\ seqs[1] \in Seq(S)
      BY <1>1, <1>4, <1>5, <3>1
    <3> QED
      BY <3>2, ConcatEmptySeq
  <2>2. R(g)
    <3>1. \A i \in 1..n : g[i] = IF i = 1 THEN seqs[i] ELSE g[i - 1] \o seqs[i]
      <4> SUFFICES ASSUME NEW i \in 1..n, i # 1 PROVE f[i] = g[i - 1] \o seqs[i]
        BY <2>1
      <4>1. i - 1 \in 1..n
        BY <1>1
      <4> QED
        BY <1>5, <4>1
    <3> HIDE DEF n
    <3> QED
      BY <3>1
  <2>3. R(flatten)
    BY <2>2, Zenon
  <2>4. FlattenSeq(seqs) = flatten[n]
    BY Zenon DEF FlattenSeq
  <2> HIDE DEF flatten, n
  <2> DEFINE T == {i \in Nat : i \in 0..n => i = 0 \/ flatten[i] = f[i]}
  <2>5. 0 \in T
    OBVIOUS
  <2>6. ASSUME NEW i \in Nat, i \in T PROVE i + 1 \in T
    <3> SUFFICES ASSUME i + 1 \in 0..n PROVE flatten[i + 1] = f[i + 1]
      OBVIOUS
    <3>1. i + 1 \in 1..n /\ (i + 1) - 1 = i /\ i \in 0..n
      BY <1>1
    <3>2. CASE i = 0
      BY <2>1, <2>3, <3>1, <3>2
    <3>3. CASE i # 0
      <4>1. flatten[i] = f[i]
        BY <2>6, <3>1, <3>3
      <4>2. f[i + 1] = f[i] \o seqs[i + 1]
        BY <1>5, <3>1
      <4>3. \A j \in 1..n : flatten[j] = next(flatten, j)
        <5> HIDE DEF next
        <5> QED
          BY <2>3
      <4>4. flatten[i + 1] = flatten[i] \o seqs[i + 1]
        <5>1. flatten[i + 1] = next(flatten, i + 1)
          BY <4>3, <3>1, Zenon
        <5>2. i + 1 # 1
          BY <3>3
        <5> QED
          BY <5>1, <5>2, <3>1, Zenon
      <4> QED
        BY <4>1, <4>2, <4>4
    <3> QED
      BY <3>2, <3>3
  <2> HIDE DEF T
  <2>7. n \in T
    BY <1>1, <2>5, <2>6, Induction
  <2>8. flatten[n] = f[n]
    BY <1>1, <2>7 DEF T
  <2> QED
    BY <2>4, <2>8
<1>7. n = 0 => FlattenSeq(seqs) = f[n]
  <2> SUFFICES ASSUME n = 0 PROVE FlattenSeq(seqs) = f[n]
    OBVIOUS
  <2>1. seqs = <<>>
    BY EmptySeq
  <2>2. FlattenSeq(seqs) = seqs
    BY Zenon DEF FlattenSeq
  <2> QED
    BY <1>4, <2>1, <2>2
<1> QED
  BY <1>4, <1>5, <1>6, <1>7

\* What is joined is a sequence of the same elements.
LEMMA FlattenType ==
  ASSUME NEW S, NEW seqs \in Seq(Seq(S))
  PROVE  FlattenSeq(seqs) \in Seq(S)
<1>1. Len(seqs) \in Nat
  BY LenProperties
<1>2. PICK fl \in [0..Len(seqs) -> Seq(S)] : FlattenSeq(seqs) = fl[Len(seqs)]
  BY FlattenIs
<1>3. Len(seqs) \in 0..Len(seqs)
  BY <1>1
<1> QED
  BY <1>2, <1>3

\* Nothing joined is nothing.
LEMMA FlattenEmpty == FlattenSeq(<<>>) = <<>>
<1>1. Len(<<>>) = 0
  OBVIOUS
<1> QED
  BY <1>1, Zenon DEF FlattenSeq

\* One more sequence is joined at the end.
LEMMA FlattenAppend ==
  ASSUME NEW S, NEW s \in Seq(Seq(S)), NEW x \in Seq(S)
  PROVE  FlattenSeq(Append(s, x)) = FlattenSeq(s) \o x
<1> DEFINE n == Len(s)
           t == Append(s, x)
<1>1. n \in Nat /\ t \in Seq(Seq(S)) /\ Len(t) = n + 1 /\ t[n + 1] = x
      /\ \A i \in 1..n : t[i] = s[i]
  BY LenProperties, AppendProperties
<1> HIDE DEF t
<1>2. PICK a \in [0..n -> Seq(S)] : FlattenSeq(s) = a[n] /\ a[0] = <<>>
                                    /\ \A i \in 1..n : a[i] = a[i - 1] \o s[i]
  BY FlattenIs
<1>3. PICK b \in [0..Len(t) -> Seq(S)] : FlattenSeq(t) = b[Len(t)] /\ b[0] = <<>>
                                    /\ \A i \in 1..Len(t) : b[i] = b[i - 1] \o t[i]
  BY <1>1, FlattenIs
<1> HIDE DEF n
<1> DEFINE T == {i \in Nat : i \in 0..n => a[i] = b[i]}
<1>4. 0 \in T
  BY <1>2, <1>3
<1>5. ASSUME NEW i \in Nat, i \in T PROVE i + 1 \in T
  <2> SUFFICES ASSUME i + 1 \in 0..n PROVE a[i + 1] = b[i + 1]
    OBVIOUS
  <2>1. i + 1 \in 1..n /\ i + 1 \in 1..(n + 1) /\ (i + 1) - 1 = i /\ i \in 0..n
    BY <1>1
  <2>2. a[i + 1] = a[i] \o s[i + 1] /\ b[i + 1] = b[i] \o t[i + 1]
    BY <1>1, <1>2, <1>3, <2>1
  <2> QED
    BY <1>1, <1>5, <2>1, <2>2
<1> HIDE DEF T
<1>6. n \in T
  BY <1>1, <1>4, <1>5, Induction
<1>7. a[n] = b[n]
  BY <1>1, <1>6 DEF T
<1>8. n + 1 \in 1..(n + 1) /\ (n + 1) - 1 = n
  BY <1>1
<1>9. b[n + 1] = b[n] \o t[n + 1]
  BY <1>1, <1>3, <1>8
<1> QED
  BY <1>1, <1>2, <1>3, <1>7, <1>9 DEF n, t

\* One sequence joined is itself.
LEMMA FlattenOne ==
  ASSUME NEW S, NEW x \in Seq(S)
  PROVE  FlattenSeq(<<x>>) = x
<1>1. <<>> \in Seq(Seq(S)) /\ <<x>> = Append(<<>>, x)
  OBVIOUS
<1>2. FlattenSeq(<<x>>) = <<>> \o x
  BY <1>1, FlattenAppend, FlattenEmpty
<1> QED
  BY <1>2, ConcatEmptySeq

\* Two parts can be joined each for itself.
LEMMA FlattenConcat ==
  ASSUME NEW S, NEW s \in Seq(Seq(S)), NEW t \in Seq(Seq(S))
  PROVE  FlattenSeq(s \o t) = FlattenSeq(s) \o FlattenSeq(t)
<1> DEFINE T == {u \in Seq(Seq(S)) : FlattenSeq(s \o u) = FlattenSeq(s) \o FlattenSeq(u)}
<1>1. <<>> \in T
  <2>1. <<>> \in Seq(Seq(S)) /\ s \o <<>> = s
    BY EmptySeq, ConcatEmptySeq
  <2>2. FlattenSeq(s) \in Seq(S)
    BY FlattenType
  <2>3. FlattenSeq(s) \o <<>> = FlattenSeq(s)
    BY <2>2, ConcatEmptySeq
  <2> QED
    BY <2>1, <2>3, FlattenEmpty
<1>2. ASSUME NEW u \in Seq(Seq(S)), NEW e \in Seq(S), u \in T PROVE Append(u, e) \in T
  <2>1. Append(u, e) \in Seq(Seq(S)) /\ s \o u \in Seq(Seq(S))
    BY AppendProperties, ConcatProperties
  <2>2. s \o Append(u, e) = Append(s \o u, e)
    <3>1. Append(u, e) = u \o <<e>> /\ Append(s \o u, e) = (s \o u) \o <<e>>
      BY <2>1, AppendIsConcat
    <3>2. <<e>> \in Seq(Seq(S))
      OBVIOUS
    <3> QED
      BY <3>1, <3>2, ConcatAssociative
  <2>3. FlattenSeq(s \o Append(u, e)) = FlattenSeq(s \o u) \o e
    BY <2>1, <2>2, FlattenAppend
  <2>4. FlattenSeq(Append(u, e)) = FlattenSeq(u) \o e
    BY FlattenAppend
  <2>5. (FlattenSeq(s) \o FlattenSeq(u)) \o e = FlattenSeq(s) \o (FlattenSeq(u) \o e)
    <3>1. FlattenSeq(s) \in Seq(S) /\ FlattenSeq(u) \in Seq(S)
      BY FlattenType
    <3> QED
      BY <3>1, ConcatAssociative
  <2> QED
    BY <1>2, <2>1, <2>3, <2>4, <2>5
<1> HIDE DEF T
<1>3. t \in T
  BY <1>1, <1>2, SeqInduction
<1> QED
  BY <1>3 DEF T
\* Appending is joining one element.
LEMMA AppendJoins ==
  ASSUME NEW S, NEW s \in Seq(S), NEW e \in S
  PROVE  Append(s, e) = s \o <<e>>
<1> DEFINE n == Len(s)
           a == Append(s, e)
           t == <<e>>
           b == s \o t
<1>1. t \in Seq(S) /\ Len(t) = 1 /\ t[1] = e /\ n \in Nat
  BY LenProperties
<1>2. a \in Seq(S) /\ Len(a) = n + 1 /\ a[n + 1] = e /\ \A i \in 1..n : a[i] = s[i]
  BY AppendProperties
<1> HIDE DEF t
<1>3. /\ b \in Seq(S) /\ Len(b) = n + Len(t)
      /\ \A i \in 1..(n + Len(t)) : b[i] = IF i <= n THEN s[i] ELSE t[i - n]
  BY <1>1, ConcatProperties
<1> HIDE DEF a, b, n
<1>4. /\ Len(b) = n + 1
      /\ \A i \in 1..(n + 1) : b[i] = IF i <= n THEN s[i] ELSE t[i - n]
  BY <1>1, <1>3
<1>5. \A i \in 1..(n + 1) : a[i] = b[i]
  <2>1. ASSUME NEW i \in 1..n PROVE a[i] = b[i]
    BY <1>1, <1>2, <1>4
  <2>2. a[n + 1] = b[n + 1]
    <3>1. ~(n + 1 <= n) /\ (n + 1) - n = 1 /\ n + 1 \in 1..(n + 1)
      BY <1>1
    <3>2. b[n + 1] = t[1]
      BY <1>4, <3>1
    <3> QED
      BY <1>1, <1>2, <3>2
  <2> QED
    BY <1>1, <2>1, <2>2
<1>6. a = b
  BY <1>2, <1>3, <1>4, <1>5, SeqEqual
<1> QED
  BY <1>6 DEF a, b, t

\* The elements of a part of a sequence.
LEMMA SubSeqIs ==
  ASSUME NEW S, NEW s \in Seq(S), NEW m \in Nat \ {0}, NEW n \in Int, n <= Len(s)
  PROVE  /\ SubSeq(s, m, n) \in Seq(S)
         /\ Len(SubSeq(s, m, n)) = IF m <= n THEN n - m + 1 ELSE 0
         /\ \A i \in 1..(n - m + 1) : SubSeq(s, m, n)[i] = s[m + i - 1]
<1>1. Len(s) \in Nat
  BY LenProperties
<1>2. \A i \in m..n : i \in 1..Len(s)
  BY <1>1
<1>3. \A i \in m..n : s[i] \in S
  BY <1>2, ElementOfSeq
<1>4. m \in Int
  OBVIOUS
<1> QED
  BY <1>3, <1>4, SubSeqProperties

\* A sequence cut in two.
LEMMA Cut ==
  ASSUME NEW S, NEW s \in Seq(S), NEW n \in 0..Len(s)
  PROVE  /\ SubSeq(s, 1, n) \in Seq(S) /\ Len(SubSeq(s, 1, n)) = n
         /\ SubSeq(s, n + 1, Len(s)) \in Seq(S)
         /\ Len(SubSeq(s, n + 1, Len(s))) = Len(s) - n
         /\ s = SubSeq(s, 1, n) \o SubSeq(s, n + 1, Len(s))
<1>1. Len(s) \in Nat
  BY LenProperties
<1> DEFINE a == SubSeq(s, 1, n)
           b == SubSeq(s, n + 1, Len(s))
<1>2. a \in Seq(S) /\ Len(a) = n /\ \A i \in 1..n : a[i] = s[i]
  <2>1. 1 \in Nat \ {0} /\ n \in Int /\ n <= Len(s)
    BY <1>1
  <2>2. /\ a \in Seq(S) /\ Len(a) = IF 1 <= n THEN n - 1 + 1 ELSE 0
        /\ \A i \in 1..(n - 1 + 1) : a[i] = s[1 + i - 1]
    BY <2>1, SubSeqIs
  <2> HIDE DEF a
  <2>3. n - 1 + 1 = n /\ \A i \in 1..n : 1 + i - 1 = i
    BY <1>1
  <2> QED
    BY <1>1, <2>2, <2>3
<1>3. b \in Seq(S) /\ Len(b) = Len(s) - n /\ \A i \in 1..(Len(s) - n) : b[i] = s[n + i]
  <2>1. n + 1 \in Nat \ {0} /\ Len(s) \in Int /\ Len(s) <= Len(s)
    BY <1>1
  <2>2. /\ b \in Seq(S) /\ Len(b) = IF n + 1 <= Len(s) THEN Len(s) - (n + 1) + 1 ELSE 0
        /\ \A i \in 1..(Len(s) - (n + 1) + 1) : b[i] = s[(n + 1) + i - 1]
    BY <2>1, SubSeqIs
  <2> HIDE DEF b
  <2>3. Len(b) = Len(s) - n
    BY <1>1, <2>2
  <2>4. ASSUME NEW i \in 1..(Len(s) - n) PROVE b[i] = s[n + i]
    <3>1. i \in 1..(Len(s) - (n + 1) + 1) /\ (n + 1) + i - 1 = n + i
      BY <1>1
    <3> QED
      BY <2>2, <3>1
  <2> QED
    BY <2>2, <2>3, <2>4
<1> HIDE DEF a, b
<1>4. /\ a \o b \in Seq(S) /\ Len(a \o b) = Len(s)
      /\ \A i \in 1..Len(s) : (a \o b)[i] = IF i <= n THEN a[i] ELSE b[i - n]
  <2>1. /\ a \o b \in Seq(S) /\ Len(a \o b) = Len(a) + Len(b)
        /\ \A i \in 1..(Len(a) + Len(b)) : (a \o b)[i] = IF i <= Len(a) THEN a[i] ELSE b[i - Len(a)]
    BY <1>2, <1>3, ConcatProperties
  <2>2. Len(a) + Len(b) = Len(s)
    BY <1>1, <1>2, <1>3
  <2> QED
    BY <2>1, <2>2, <1>2
<1>5. \A i \in 1..Len(s) : s[i] = (a \o b)[i]
  <2> SUFFICES ASSUME NEW i \in 1..Len(s) PROVE s[i] = (a \o b)[i]
    OBVIOUS
  <2>1. CASE i <= n
    BY <1>2, <1>4, <2>1
  <2>2. CASE ~(i <= n)
    <3>1. i - n \in 1..(Len(s) - n) /\ n + (i - n) = i
      BY <1>1, <2>2
    <3> QED
      BY <1>3, <1>4, <2>2, <3>1
  <2> QED
    BY <2>1, <2>2
<1>6. s = a \o b
  BY <1>4, <1>5, SeqEqual
<1> QED
  BY <1>2, <1>3, <1>6 DEF a, b

\* The halves of a concatenation.
LEMMA Halves ==
  ASSUME NEW S, NEW s \in Seq(S), NEW t \in Seq(S)
  PROVE  /\ SubSeq(s \o t, 1, Len(s)) = s
         /\ SubSeq(s \o t, Len(s) + 1, Len(s \o t)) = t
<1> DEFINE u == s \o t
           n == Len(s)
           a == SubSeq(u, 1, n)
           b == SubSeq(u, n + 1, Len(u))
<1>1. Len(s) \in Nat /\ Len(t) \in Nat
  BY LenProperties
<1>2. /\ u \in Seq(S) /\ Len(u) = n + Len(t)
      /\ \A i \in 1..(n + Len(t)) : u[i] = IF i <= n THEN s[i] ELSE t[i - n]
  BY ConcatProperties
<1> HIDE DEF u
<1>3. n \in 0..Len(u)
  BY <1>1, <1>2
<1>4. a \in Seq(S) /\ Len(a) = n /\ \A i \in 1..n : a[i] = u[i]
  <2>1. 1 \in Nat \ {0} /\ n \in Int /\ n <= Len(u)
    BY <1>1, <1>3
  <2>2. \A i \in 1..(n - 1 + 1) : a[i] = u[1 + i - 1]
    BY <1>2, <2>1, SubSeqIs
  <2>3. a \in Seq(S) /\ Len(a) = n
    BY <1>2, <1>3, Cut
  <2> HIDE DEF a
  <2>4. n - 1 + 1 = n /\ \A i \in 1..n : 1 + i - 1 = i
    BY <1>1
  <2> QED
    BY <2>2, <2>3, <2>4
<1>5. b \in Seq(S) /\ Len(b) = Len(t) /\ \A i \in 1..Len(t) : b[i] = u[n + i]
  <2>1. n + 1 \in Nat \ {0} /\ Len(u) \in Int /\ Len(u) <= Len(u)
    BY <1>1, <1>2
  <2>2. \A i \in 1..(Len(u) - (n + 1) + 1) : b[i] = u[(n + 1) + i - 1]
    BY <1>2, <2>1, SubSeqIs
  <2>3. b \in Seq(S) /\ Len(b) = Len(u) - n
    BY <1>2, <1>3, Cut
  <2> HIDE DEF b
  <2>4. Len(u) - (n + 1) + 1 = Len(t) /\ \A i \in 1..Len(t) : (n + 1) + i - 1 = n + i
    BY <1>1, <1>2
  <2>5. Len(b) = Len(t)
    BY <1>1, <1>2, <2>3
  <2> QED
    BY <2>2, <2>3, <2>4, <2>5
<1> HIDE DEF a, b
<1>6. \A i \in 1..n : a[i] = s[i]
  <2> SUFFICES ASSUME NEW i \in 1..n PROVE a[i] = s[i]
    OBVIOUS
  <2>1. i \in 1..(n + Len(t)) /\ i <= n
    BY <1>1
  <2> QED
    BY <1>2, <1>4, <2>1
<1>7. \A i \in 1..Len(t) : b[i] = t[i]
  <2> SUFFICES ASSUME NEW i \in 1..Len(t) PROVE b[i] = t[i]
    OBVIOUS
  <2>1. n + i \in 1..(n + Len(t)) /\ ~(n + i <= n) /\ (n + i) - n = i
    BY <1>1
  <2> QED
    BY <1>2, <1>5, <2>1
<1>8. a = s /\ b = t
  BY <1>4, <1>5, <1>6, <1>7, SeqEqual
<1> QED
  BY <1>8 DEF a, b, u

\* A byte has eight bits.
LEMMA ByteIs ==
  /\ Byte \subseteq Seq(Bit)
  /\ \A b \in Byte : Len(b) = 8 /\ \A i \in 1..8 : b[i] \in Bit
  /\ Seq(Byte) \subseteq Seq(Seq(Bit))
<1>1. \A b \in Byte : Len(b) = 8 /\ b \in Seq(Bit)
  BY DEF Byte
<1>2. \A b \in Byte, i \in 1..8 : b[i] \in Bit
  <2> SUFFICES ASSUME NEW b \in Byte, NEW i \in 1..8 PROVE b[i] \in Bit
    OBVIOUS
  <2> QED
    BY <1>1, ElementOfSeq
<1>3. \A s \in Seq(Byte) : s \in Seq(Seq(Bit))
  BY <1>1, SeqMonotonic
<1> QED
  BY <1>1, <1>2, <1>3

\* The bits of a sequence of bytes.
LEMMA BytesFlat ==
  ASSUME NEW bs \in Seq(Byte)
  PROVE  /\ FlattenSeq(bs) \in Seq(Bit)
         /\ Len(FlattenSeq(bs)) = 8 * Len(bs)
         /\ \A j \in 1..Len(bs), i \in 1..8 : FlattenSeq(bs)[8 * (j - 1) + i] = bs[j][i]
<1> DEFINE T == {s \in Seq(Byte) :
                   /\ FlattenSeq(s) \in Seq(Bit)
                   /\ Len(FlattenSeq(s)) = 8 * Len(s)
                   /\ \A j \in 1..Len(s), i \in 1..8 : FlattenSeq(s)[8 * (j - 1) + i] = s[j][i]}
<1>1. <<>> \in T
  <2>1. <<>> \in Seq(Byte) /\ <<>> \in Seq(Bit) /\ Len(<<>>) = 0 /\ 8 * 0 = 0
    BY EmptySeq
  <2>2. \A j \in 1..0 : FALSE
    OBVIOUS
  <2> DEFINE f == FlattenSeq(<<>>)
  <2>3. f = <<>>
    BY FlattenEmpty
  <2> HIDE DEF f
  <2>4. /\ f \in Seq(Bit) /\ Len(f) = 8 * Len(<<>>)
        /\ \A j \in 1..Len(<<>>), i \in 1..8 : f[8 * (j - 1) + i] = <<>>[j][i]
    BY <2>1, <2>2, <2>3
  <2> QED
    BY <2>1, <2>4 DEF f
<1>2. ASSUME NEW s \in Seq(Byte), NEW b \in Byte, s \in T PROVE Append(s, b) \in T
  <2> DEFINE n == Len(s)
             t == Append(s, b)
             f == FlattenSeq(s)
             g == FlattenSeq(t)
  <2>1. n \in Nat /\ t \in Seq(Byte) /\ Len(t) = n + 1 /\ t[n + 1] = b
        /\ \A j \in 1..n : t[j] = s[j]
    BY LenProperties, AppendProperties
  <2>2. g = f \o b
    BY ByteIs, FlattenAppend
  <2>3. f \in Seq(Bit) /\ Len(f) = 8 * n
        /\ \A j \in 1..n, i \in 1..8 : f[8 * (j - 1) + i] = s[j][i]
    BY <1>2
  <2>4. b \in Seq(Bit) /\ Len(b) = 8
    BY ByteIs
  <2> HIDE DEF f, g, t, n
  <2>4a. /\ f \o b \in Seq(Bit) /\ Len(f \o b) = Len(f) + Len(b)
         /\ \A i \in 1..(Len(f) + Len(b)) :
              (f \o b)[i] = IF i <= Len(f) THEN f[i] ELSE b[i - Len(f)]
    BY <2>3, <2>4, ConcatProperties
  <2>5. g \in Seq(Bit) /\ Len(g) = 8 * n + 8
        /\ \A i \in 1..(8 * n + 8) : g[i] = IF i <= 8 * n THEN f[i] ELSE b[i - 8 * n]
    BY <2>2, <2>3, <2>4, <2>4a
  <2>6. ASSUME NEW j \in 1..(n + 1), NEW i \in 1..8 PROVE g[8 * (j - 1) + i] = t[j][i]
    <3>1. CASE j \in 1..n
      <4>1. 8 * (j - 1) + i \in 1..(8 * n + 8) /\ 8 * (j - 1) + i <= 8 * n
        BY <2>1, <3>1
      <4> QED
        BY <2>1, <2>3, <2>5, <3>1, <4>1
    <3>2. CASE j = n + 1
      <4>1. 8 * (j - 1) + i \in 1..(8 * n + 8) /\ ~(8 * (j - 1) + i <= 8 * n)
            /\ 8 * (j - 1) + i - 8 * n = i
        BY <2>1, <3>2
      <4> DEFINE p == 8 * (j - 1) + i
                 m == 8 * n
      <4>2. p \in 1..(m + 8) /\ ~(p <= m) /\ p - m = i
        BY <2>1, <3>2, <4>1
      <4>3. \A q \in 1..(m + 8) : g[q] = IF q <= m THEN f[q] ELSE b[q - m]
        BY <2>5
      <4> HIDE DEF p, m
      <4>4. g[p] = b[p - m]
        BY <4>2, <4>3
      <4>5. g[p] = b[i]
        BY <4>2, <4>4
      <4> QED
        BY <2>1, <3>2, <4>5 DEF p
    <3> QED
      BY <2>1, <3>1, <3>2
  <2>7. 8 * (n + 1) = 8 * n + 8
    BY <2>1
  <2> QED
    BY <2>1, <2>5, <2>6, <2>7 DEF g, t
<1> HIDE DEF T
<1>3. bs \in T
  BY <1>1, <1>2, SeqInduction
<1> QED
  BY <1>3 DEF T

\* The place of a bit.
LEMMA Place ==
  ASSUME NEW m \in Nat, NEW p \in 1..(8 * m)
  PROVE  \E j \in 1..m, i \in 1..8 : p = 8 * (j - 1) + i
<1> DEFINE j == (p - 1) \div 8 + 1
           i == ((p - 1) % 8) + 1
<1>1. j \in 1..m /\ i \in 1..8 /\ p = 8 * (j - 1) + i
  OBVIOUS
<1> QED
  BY <1>1

\* The full bytes of a sequence of bits.
LEMMA BytesOfIs ==
  ASSUME NEW bits \in Seq(Bit)
  PROVE  /\ BytesOf(bits) \in Seq(Byte)
         /\ Len(BytesOf(bits)) = Len(bits) \div 8
         /\ \A j \in 1..(Len(bits) \div 8), i \in 1..8 : BytesOf(bits)[j][i] = bits[8 * (j - 1) + i]
<1> DEFINE m == Len(bits) \div 8
<1>1. Len(bits) \in Nat /\ m \in Nat /\ 8 * m <= Len(bits)
  <2>1. Len(bits) \in Nat
    BY LenProperties
  <2> QED
    BY <2>1
<1>2. ASSUME NEW j \in 1..m
      PROVE  /\ SubSeq(bits, 8 * j - 7, 8 * j) \in Byte
             /\ \A i \in 1..8 : SubSeq(bits, 8 * j - 7, 8 * j)[i] = bits[8 * (j - 1) + i]
  <2> DEFINE b == SubSeq(bits, 8 * j - 7, 8 * j)
  <2>1. 8 * j - 7 \in Nat \ {0} /\ 8 * j \in Int /\ 8 * j <= Len(bits)
        /\ 8 * j - 7 <= 8 * j /\ 8 * j - (8 * j - 7) + 1 = 8
    BY <1>1
  <2>2. /\ b \in Seq(Bit) /\ Len(b) = IF 8 * j - 7 <= 8 * j THEN 8 * j - (8 * j - 7) + 1 ELSE 0
        /\ \A i \in 1..(8 * j - (8 * j - 7) + 1) : b[i] = bits[(8 * j - 7) + i - 1]
    BY <2>1, SubSeqIs
  <2> HIDE DEF b
  <2>3. \A i \in 1..8 : (8 * j - 7) + i - 1 = 8 * (j - 1) + i
    OBVIOUS
  <2>4. b \in Byte /\ \A i \in 1..8 : b[i] = bits[8 * (j - 1) + i]
    BY <2>1, <2>2, <2>3 DEF Byte
  <2> QED
    BY <2>4 DEF b
<1>3. BytesOf(bits) = [j \in 1..m |-> SubSeq(bits, 8 * j - 7, 8 * j)]
  BY DEF BytesOf
<1> HIDE DEF m
<1>4. BytesOf(bits) \in [1..m -> Byte]
  BY <1>2, <1>3, Zenon
<1>5. BytesOf(bits) \in Seq(Byte) /\ Len(BytesOf(bits)) = m
  BY <1>1, <1>4
<1>6. \A j \in 1..m : BytesOf(bits)[j] = SubSeq(bits, 8 * j - 7, 8 * j)
  BY <1>3, Zenon
<1> QED
  BY <1>2, <1>5, <1>6 DEF m

\* The full bytes and the bits behind them are the bits.
LEMMA BytesAndRest ==
  ASSUME NEW bits \in Seq(Bit)
  PROVE  LET full == BytesOf(bits)
             rest == SubSeq(bits, 8 * Len(full) + 1, Len(bits))
         IN  /\ rest \in Seq(Bit) /\ Len(rest) = Len(bits) % 8
             /\ FlattenSeq(full) \o rest = bits
<1> DEFINE full == BytesOf(bits)
           m    == Len(bits) \div 8
           rest == SubSeq(bits, 8 * m + 1, Len(bits))
           head == SubSeq(bits, 1, 8 * m)
           flat == FlattenSeq(full)
<1>1. Len(bits) \in Nat /\ m \in Nat /\ 8 * m \in 0..Len(bits) /\ Len(bits) - 8 * m = Len(bits) % 8
  <2>1. Len(bits) \in Nat
    BY LenProperties
  <2> QED
    BY <2>1
<1>2. full \in Seq(Byte) /\ Len(full) = m
      /\ \A j \in 1..m, i \in 1..8 : full[j][i] = bits[8 * (j - 1) + i]
  BY BytesOfIs
<1>3. /\ head \in Seq(Bit) /\ Len(head) = 8 * m
      /\ rest \in Seq(Bit) /\ Len(rest) = Len(bits) - 8 * m
      /\ bits = head \o rest
  BY <1>1, Cut
<1>4. /\ flat \in Seq(Bit) /\ Len(flat) = 8 * m
      /\ \A j \in 1..m, i \in 1..8 : flat[8 * (j - 1) + i] = full[j][i]
  BY <1>2, BytesFlat
<1> HIDE DEF m, full, flat
<1>5. \A p \in 1..(8 * m) : head[p] = bits[p]
  <2>1. 1 \in Nat \ {0} /\ 8 * m \in Int /\ 8 * m <= Len(bits) /\ 8 * m - 1 + 1 = 8 * m
        /\ \A p \in 1..(8 * m) : 1 + p - 1 = p
    BY <1>1
  <2>2. \A i \in 1..(8 * m - 1 + 1) : head[i] = bits[1 + i - 1]
    BY <2>1, SubSeqIs
  <2> HIDE DEF head
  <2> QED
    BY <2>1, <2>2
<1> HIDE DEF head, rest
<1>6. ASSUME NEW p \in 1..(8 * m) PROVE flat[p] = head[p]
  <2>1. PICK j \in 1..m, i \in 1..8 : p = 8 * (j - 1) + i
    BY <1>1, Place
  <2> QED
    BY <1>2, <1>4, <1>5, <2>1
<1>7. flat = head
  BY <1>3, <1>4, <1>6, SeqEqual
<1> QED
  BY <1>1, <1>2, <1>3, <1>7 DEF rest, flat, full

\* Full bytes in front of bits are full bytes.
LEMMA BytesOfConcat ==
  ASSUME NEW bs \in Seq(Byte), NEW c \in Seq(Bit)
  PROVE  BytesOf(FlattenSeq(bs) \o c) = bs \o BytesOf(c)
<1> DEFINE n == Len(bs)
           l == Len(c)
           f == FlattenSeq(bs)
           u == f \o c
           a == BytesOf(u)
           d == BytesOf(c)
           b == bs \o d
<1>1. n \in Nat /\ l \in Nat
  BY LenProperties
<1>2. f \in Seq(Bit) /\ Len(f) = 8 * n
      /\ \A j \in 1..n, i \in 1..8 : f[8 * (j - 1) + i] = bs[j][i]
  BY BytesFlat
<1> HIDE DEF f, n, l
<1>3. /\ u \in Seq(Bit) /\ Len(u) = 8 * n + l
      /\ \A p \in 1..(8 * n + l) : u[p] = IF p <= 8 * n THEN f[p] ELSE c[p - 8 * n]
  BY <1>2, ConcatProperties DEF l
<1>4. (8 * n + l) \div 8 = n + l \div 8 /\ l \div 8 \in Nat /\ 8 * (l \div 8) <= l
  BY <1>1
<1> HIDE DEF u
<1>5. /\ a \in Seq(Byte) /\ Len(a) = n + l \div 8
      /\ \A j \in 1..(n + l \div 8), i \in 1..8 : a[j][i] = u[8 * (j - 1) + i]
  <2>1. /\ a \in Seq(Byte) /\ Len(a) = Len(u) \div 8
        /\ \A j \in 1..(Len(u) \div 8), i \in 1..8 : a[j][i] = u[8 * (j - 1) + i]
    BY <1>3, BytesOfIs
  <2> HIDE DEF a
  <2> QED
    BY <1>3, <1>4, <2>1
<1>6. /\ d \in Seq(Byte) /\ Len(d) = l \div 8
      /\ \A j \in 1..(l \div 8), i \in 1..8 : d[j][i] = c[8 * (j - 1) + i]
  BY BytesOfIs DEF l
<1> HIDE DEF a, d
<1>7. /\ b \in Seq(Byte) /\ Len(b) = n + l \div 8
      /\ \A j \in 1..(n + l \div 8) : b[j] = IF j <= n THEN bs[j] ELSE d[j - n]
  BY <1>6, ConcatProperties DEF n
<1> HIDE DEF b
<1>8. ASSUME NEW j \in 1..(n + l \div 8) PROVE a[j] = b[j]
  <2>1. a[j] \in Byte /\ b[j] \in Byte
    BY <1>5, <1>7, ElementOfSeq
  <2>2. ASSUME NEW i \in 1..8 PROVE a[j][i] = b[j][i]
    <3>1. a[j][i] = u[8 * (j - 1) + i]
      BY <1>5
    <3>2a. 8 * (j - 1) + i \in 1..(8 * n + l)
      BY <1>1, <1>4
    <3>2. CASE j <= n
      <4>1. 8 * (j - 1) + i <= 8 * n /\ j \in 1..n
        BY <1>1, <3>2
      <4> QED
        BY <1>2, <1>3, <1>7, <3>1, <3>2, <3>2a, <4>1
    <3>3. CASE ~(j <= n)
      <4>1. ~(8 * (j - 1) + i <= 8 * n) /\ j - n \in 1..(l \div 8)
            /\ 8 * (j - 1) + i - 8 * n = 8 * ((j - n) - 1) + i
        BY <1>1, <1>4, <3>3
      <4> DEFINE p == 8 * (j - 1) + i
      <4>1a. p \in 1..(8 * n + l) /\ ~(p <= 8 * n) /\ p - 8 * n = 8 * ((j - n) - 1) + i
        BY <1>1, <3>2a, <4>1
      <4> HIDE DEF p
      <4>1b. u[p] = c[8 * ((j - n) - 1) + i]
        BY <1>3, <4>1a
      <4>2. u[8 * (j - 1) + i] = c[8 * ((j - n) - 1) + i]
        BY <4>1b DEF p
      <4>3. b[j] = d[j - n]
        BY <1>7, <3>3
      <4>4. d[j - n][i] = c[8 * ((j - n) - 1) + i]
        BY <1>6, <4>1
      <4> QED
        BY <3>1, <4>2, <4>3, <4>4
    <3> QED
      BY <3>2, <3>3
  <2> DEFINE s == a[j]
             t == b[j]
  <2>3. /\ s \in Seq(Bit) /\ t \in Seq(Bit) /\ Len(s) = 8 /\ Len(t) = 8
        /\ \A i \in 1..8 : s[i] = t[i]
    BY <2>1, <2>2, ByteIs
  <2> HIDE DEF s, t
  <2>4. s = t
    BY <2>3, SeqEqual
  <2> QED
    BY <2>4 DEF s, t
<1>9. a = b
  BY <1>5, <1>7, <1>8, SeqEqual
<1> QED
  BY <1>9 DEF a, b, u, f, d

-----------------------------------------------------------------------------
(* Writing *)

\* What is left of full bytes is less than a byte.
LEMMA Remainder8 ==
  ASSUME NEW s, NEW n \in Nat, s = n % 8
  PROVE  s \in 0..7
  OBVIOUS

\* Bytes are joined in any grouping.
LEMMA BytesConcat ==
  ASSUME NEW s \in Seq(Byte), NEW t \in Seq(Byte), NEW u \in Seq(Byte)
  PROVE  (s \o t) \o u = s \o (t \o u)
  BY ConcatAssociative

\* Bits are joined in any grouping.
LEMMA BitsConcat ==
  ASSUME NEW s \in Seq(Bit), NEW t \in Seq(Bit), NEW u \in Seq(Bit)
  PROVE  (s \o t) \o u = s \o (t \o u)
  BY ConcatAssociative

\* Runs of ones and zeros.
LEMMA OnesAndZeros ==
  ASSUME NEW n \in Nat
  PROVE  /\ Ones(n) \in Seq(Bit) /\ Len(Ones(n)) = n /\ \A i \in 1..n : Ones(n)[i] = 1
         /\ Zeros(n) \in Seq(Bit) /\ Len(Zeros(n)) = n /\ \A i \in 1..n : Zeros(n)[i] = 0
<1>1. Ones(n) \in [1..n -> Bit] /\ \A i \in 1..n : Ones(n)[i] = 1
  BY DEF Ones, Bit
<1>2. Zeros(n) \in [1..n -> Bit] /\ \A i \in 1..n : Zeros(n)[i] = 0
  BY DEF Zeros, Bit
<1>3. \A f \in [1..n -> Bit] : f \in Seq(Bit) /\ Len(f) = n
  OBVIOUS
<1> QED
  BY <1>1, <1>2, <1>3

\* The bit that ends a unary code.
LEMMA ZeroBit == << 0 >> \in Seq(Bit) /\ Len(<< 0 >>) = 1 /\ << 0 >>[1] = 0
  BY DEF Bit

\* Two runs of ones are one.
LEMMA OnesSum ==
  ASSUME NEW a \in Nat, NEW b \in Nat
  PROVE  Ones(a) \o Ones(b) = Ones(a + b)
<1> DEFINE x == Ones(a)
           y == Ones(b)
           z == Ones(a + b)
<1>1. x \in Seq(Bit) /\ Len(x) = a /\ \A i \in 1..a : x[i] = 1
  BY OnesAndZeros
<1>2. y \in Seq(Bit) /\ Len(y) = b /\ \A i \in 1..b : y[i] = 1
  BY OnesAndZeros
<1>3. z \in Seq(Bit) /\ Len(z) = a + b /\ \A i \in 1..(a + b) : z[i] = 1
  BY OnesAndZeros
<1> HIDE DEF x, y, z
<1>4. /\ x \o y \in Seq(Bit) /\ Len(x \o y) = a + b
      /\ \A i \in 1..(a + b) : (x \o y)[i] = IF i <= a THEN x[i] ELSE y[i - a]
  BY <1>1, <1>2, ConcatProperties
<1>5. ASSUME NEW i \in 1..(a + b) PROVE (x \o y)[i] = z[i]
  <2>1. i <= a => i \in 1..a
    OBVIOUS
  <2>2. ~(i <= a) => i - a \in 1..b
    OBVIOUS
  <2> QED
    BY <1>1, <1>2, <1>3, <1>4, <2>1, <2>2
<1>6. x \o y = z
  BY <1>3, <1>4, <1>5, SeqEqual
<1> QED
  BY <1>6 DEF x, y, z

\* A writer with another cache.
LEMMA WriterCache ==
  ASSUME NEW S, NEW T, NEW w \in [cache : S, dest : T, crc : T], NEW e
  PROVE  [w EXCEPT !.cache = e] = [cache |-> e, dest |-> w.dest, crc |-> w.crc]
  OBVIOUS

\* The fields of a writer.
LEMMA FedIs ==
  ASSUME NEW pre, NEW w \in Fed(pre)
  PROVE  /\ w.cache \in Seq(Bit) /\ w.dest \in Seq(Byte) /\ w.crc \in Seq(Byte)
         /\ w.crc = pre \o w.dest
         /\ w = [cache |-> w.cache, dest |-> w.dest, crc |-> w.crc]
         /\ Written(w) \in Seq(Bit)
         /\ w \in Writers
<1>1. /\ w.cache \in Seq(Bit) /\ w.dest \in Seq(Byte) /\ w.crc \in Seq(Byte)
      /\ w.crc = pre \o w.dest
      /\ w = [cache |-> w.cache, dest |-> w.dest, crc |-> w.crc]
      /\ w \in Writers
  BY DEF Fed, Writers
<1>2. FlattenSeq(w.dest) \in Seq(Bit)
  BY <1>1, BytesFlat
<1>3. Written(w) \in Seq(Bit)
  BY <1>1, <1>2, ConcatProperties DEF Written
<1> QED
  BY <1>1, <1>3

\* Bits added to the cache are written behind all others.
LEMMA Caching ==
  ASSUME NEW pre, NEW w \in Fed(pre), NEW bits \in Seq(Bit)
  PROVE  LET v == [w EXCEPT !.cache = @ \o bits]
         IN  /\ v \in Fed(pre)
             /\ Written(v) = Written(w) \o bits
             /\ v.cache = w.cache \o bits /\ v.dest = w.dest
             /\ Len(v.cache) = Len(w.cache) + Len(bits)
<1> DEFINE v == [w EXCEPT !.cache = @ \o bits]
<1>1. /\ w.cache \in Seq(Bit) /\ w.dest \in Seq(Byte) /\ w.crc \in Seq(Byte)
      /\ w.crc = pre \o w.dest
      /\ w = [cache |-> w.cache, dest |-> w.dest, crc |-> w.crc]
  BY FedIs
<1>2. v = [cache |-> w.cache \o bits, dest |-> w.dest, crc |-> w.crc]
  <2>1. w \in [cache : Seq(Bit), dest : Seq(Byte), crc : Seq(Byte)]
    BY FedIs DEF Writers
  <2> QED
    BY <2>1, WriterCache
<1>3. w.cache \o bits \in Seq(Bit) /\ Len(w.cache \o bits) = Len(w.cache) + Len(bits)
  BY <1>1, ConcatProperties
<1> HIDE DEF v
<1>4. v.cache = w.cache \o bits /\ v.dest = w.dest /\ v.crc = w.crc
  BY <1>2
<1>5. v \in Fed(pre)
  BY <1>1, <1>2, <1>3, <1>4 DEF Fed, Writers
<1>6. FlattenSeq(w.dest) \in Seq(Bit)
  BY <1>1, BytesFlat
<1>7. FlattenSeq(w.dest) \o (w.cache \o bits) = (FlattenSeq(w.dest) \o w.cache) \o bits
  BY <1>1, <1>6, ConcatAssociative
<1>8. Written(v) = Written(w) \o bits
  BY <1>4, <1>7 DEF Written
<1>9. v \in Fed(pre) /\ Written(v) = Written(w) \o bits /\ v.cache = w.cache \o bits
      /\ v.dest = w.dest /\ Len(v.cache) = Len(w.cache) + Len(bits)
  BY <1>3, <1>4, <1>5, <1>8
<1> QED
  BY <1>9 DEF v

\* Writing the full bytes of the cache writes no other bits.
LEMMA WriteCache ==
  ASSUME NEW pre \in Seq(Byte), NEW w \in Fed(pre)
  PROVE  LET v == write_cache(w)
         IN  /\ v \in Fed(pre)
             /\ Written(v) = Written(w)
             /\ Len(v.cache) = Len(w.cache) % 8
             /\ v.dest = w.dest \o BytesOf(w.cache)
<1> DEFINE v    == write_cache(w)
           full == BytesOf(w.cache)
           rest == SubSeq(w.cache, 8 * Len(full) + 1, Len(w.cache))
<1>1. /\ w.cache \in Seq(Bit) /\ w.dest \in Seq(Byte) /\ w.crc \in Seq(Byte)
      /\ w.crc = pre \o w.dest
  BY FedIs
<1>2. full \in Seq(Byte) /\ rest \in Seq(Bit) /\ Len(rest) = Len(w.cache) % 8
      /\ FlattenSeq(full) \o rest = w.cache
  BY <1>1, BytesOfIs, BytesAndRest
<1>3. v = [cache |-> rest, dest |-> w.dest \o full, crc |-> w.crc \o full]
  BY DEF write_cache
<1> HIDE DEF v, full, rest
<1>4. v.cache = rest /\ v.dest = w.dest \o full /\ v.crc = w.crc \o full
  BY <1>3
<1>5. w.dest \o full \in Seq(Byte) /\ w.crc \o full \in Seq(Byte)
  BY <1>1, <1>2, ConcatProperties
<1>6. w.crc \o full = pre \o (w.dest \o full)
  <2>1. w.dest \in Seq(Byte) /\ full \in Seq(Byte)
    BY <1>1, <1>2
  <2>2. (pre \o w.dest) \o full = pre \o (w.dest \o full)
    BY <2>1, BytesConcat
  <2> QED
    BY <1>1, <2>2
<1>7. v \in Fed(pre)
  BY <1>2, <1>3, <1>4, <1>5, <1>6 DEF Fed, Writers
<1>8. FlattenSeq(w.dest \o full) = FlattenSeq(w.dest) \o FlattenSeq(full)
  <2>1. w.dest \in Seq(Seq(Bit)) /\ full \in Seq(Seq(Bit))
    BY <1>1, <1>2, ByteIs
  <2> QED
    BY <2>1, FlattenConcat
<1>9. FlattenSeq(w.dest) \in Seq(Bit) /\ FlattenSeq(full) \in Seq(Bit)
  BY <1>1, <1>2, BytesFlat
<1>10. (FlattenSeq(w.dest) \o FlattenSeq(full)) \o rest
         = FlattenSeq(w.dest) \o (FlattenSeq(full) \o rest)
  <2>1. rest \in Seq(Bit)
    BY <1>2
  <2> QED
    BY <1>9, <2>1, ConcatAssociative
<1>11. Written(v) = Written(w)
  BY <1>2, <1>4, <1>8, <1>10 DEF Written
<1>12. v \in Fed(pre) /\ Written(v) = Written(w) /\ Len(v.cache) = Len(w.cache) % 8
       /\ v.dest = w.dest \o full
  BY <1>2, <1>4, <1>7, <1>11
<1> QED
  BY <1>12 DEF v, full

\* However long the run of ones is, it is written, and few bits stay cached.
LEMMA WriteUnary ==
  ASSUME NEW pre \in Seq(Byte), NEW w \in Fed(pre), NEW unary \in Nat
  PROVE  LET v == rice24_write_unary(w, unary)
         IN  /\ v \in Fed(pre)
             /\ Written(v) = (Written(w) \o Ones(unary)) \o << 0 >>
             /\ Len(v.cache) <= 39
<1> DEFINE a == Ones(32 * (unary \div 32))
           b == Ones(unary % 32) \o << 0 >>
           x == [w EXCEPT !.cache = @ \o a]
           y == write_cache(x)
           z == [y EXCEPT !.cache = @ \o b]
<1>1. 32 * (unary \div 32) \in Nat /\ unary % 32 \in 0..31
      /\ 32 * (unary \div 32) + (unary % 32) = unary
  <2>1. 32 * (unary \div 32) \in Nat /\ unary % 32 \in 0..31 /\ 32 \in Nat \ {0} /\ unary \in Int
    OBVIOUS
  <2>2. unary = 32 * (unary \div 32) + (unary % 32)
    BY <2>1, IntDivMod
  <2> QED
    BY <2>1, <2>2, Zenon
<1>2. a \in Seq(Bit) /\ Ones(unary % 32) \in Seq(Bit) /\ Len(Ones(unary % 32)) = unary % 32
  BY <1>1, OnesAndZeros
<1>3. b \in Seq(Bit) /\ Len(b) = (unary % 32) + 1
  BY <1>2, ZeroBit, ConcatProperties
<1>4. a \o Ones(unary % 32) = Ones(unary)
  <2> DEFINE m == 32 * (unary \div 32)
             n == unary % 32
  <2>1. m \in Nat /\ n \in Nat /\ m + n = unary
    BY <1>1
  <2> HIDE DEF m, n
  <2>2. Ones(m) \o Ones(n) = Ones(unary)
    BY <2>1, OnesSum
  <2> QED
    BY <2>2 DEF m, n
<1>5. rice24_write_unary(w, unary) = z
  <2>1. rice24_write_unary(w, unary) = [y EXCEPT !.cache = (@ \o Ones(unary % 32)) \o << 0 >>]
    BY DEF rice24_write_unary
  <2>2. x \in Fed(pre)
    BY <1>2, Caching
  <2> HIDE DEF x
  <2>3. y \in Fed(pre)
    BY <2>2, WriteCache
  <2> HIDE DEF y
  <2>4. y.cache \in Seq(Bit)
    BY <2>3, FedIs
  <2>5. (y.cache \o Ones(unary % 32)) \o << 0 >> = y.cache \o b
    <3>1. Ones(unary % 32) \in Seq(Bit) /\ << 0 >> \in Seq(Bit)
      BY <1>2, ZeroBit
    <3> DEFINE m == Ones(unary % 32)
               n == << 0 >>
               c == y.cache
    <3>2. m \in Seq(Bit) /\ n \in Seq(Bit) /\ c \in Seq(Bit)
      BY <2>4, <3>1
    <3> HIDE DEF m, n, c
    <3>3. (c \o m) \o n = c \o (m \o n)
      BY <3>2, BitsConcat
    <3> QED
      BY <3>3 DEF m, n, c
  <2> QED
    BY <2>1, <2>5
<1> HIDE DEF a, b
<1>6. x \in Fed(pre) /\ Written(x) = Written(w) \o a
  BY <1>2, Caching
<1> HIDE DEF x
<1>7. y \in Fed(pre) /\ Written(y) = Written(x) /\ Len(y.cache) = Len(x.cache) % 8
  BY <1>6, WriteCache
<1>8. Len(y.cache) \in 0..7
  <2> HIDE DEF y
  <2>1. Len(x.cache) \in Nat
    BY <1>6, FedIs, LenProperties
  <2>2. Len(y.cache) = Len(x.cache) % 8
    BY <1>7
  <2> QED
    BY <2>1, <2>2, Remainder8
<1> HIDE DEF y
<1>9. z \in Fed(pre) /\ Written(z) = Written(y) \o b /\ Len(z.cache) = Len(y.cache) + Len(b)
  BY <1>3, <1>7, Caching
<1> HIDE DEF z
<1>10. Len(z.cache) <= 39
  <2>1. Len(z.cache) = Len(y.cache) + Len(b)
    BY <1>9
  <2>2. Len(b) \in 1..32
    <3> DEFINE n == unary % 32
    <3>1. n \in 0..31 /\ Len(b) = n + 1
      BY <1>1, <1>3
    <3> HIDE DEF n
    <3> QED
      BY <3>1
  <2> DEFINE l == Len(z.cache)
             m == Len(y.cache)
             n == Len(b)
  <2>3. l = m + n /\ m \in 0..7 /\ n \in 1..32
    BY <1>8, <2>1, <2>2
  <2> HIDE DEF l, m, n
  <2>4. l <= 39
    BY <2>3
  <2> QED
    BY <2>4 DEF l
<1>11. Written(z) = (Written(w) \o Ones(unary)) \o << 0 >>
  <2>1. Written(w) \in Seq(Bit)
    BY FedIs
  <2>2. (Written(w) \o a) \o b = ((Written(w) \o a) \o Ones(unary % 32)) \o << 0 >>
    <3>1. Written(w) \o a \in Seq(Bit)
      BY <1>2, <2>1, ConcatProperties
    <3> QED
      BY <1>2, <3>1, ZeroBit, ConcatAssociative DEF b
  <2>3. (Written(w) \o a) \o Ones(unary % 32) = Written(w) \o Ones(unary)
    <3>1. a \in Seq(Bit) /\ Ones(unary % 32) \in Seq(Bit)
      BY <1>2
    <3>2. (Written(w) \o a) \o Ones(unary % 32) = Written(w) \o (a \o Ones(unary % 32))
      BY <2>1, <3>1, ConcatAssociative
    <3> QED
      BY <1>4, <3>2
  <2> QED
    BY <1>6, <1>7, <1>9, <2>2, <2>3
<1> QED
  BY <1>5, <1>9, <1>10, <1>11

\* A unary code of no ones is one bit.
LEMMA WriteUnaryZero ==
  ASSUME NEW pre \in Seq(Byte), NEW w \in Fed(pre)
  PROVE  LET v == rice24_write_unary_zero(w)
         IN  /\ v \in Fed(pre)
             /\ Written(v) = Written(w) \o << 0 >>
             /\ Len(v.cache) <= 39
<1> DEFINE y == write_cache(w)
           z == [y EXCEPT !.cache = @ \o << 0 >>]
<1>1. y \in Fed(pre) /\ Written(y) = Written(w) /\ Len(y.cache) = Len(w.cache) % 8
  BY WriteCache
<1>2. Len(y.cache) \in 0..7
  <2> HIDE DEF y
  <2>1. Len(w.cache) \in Nat
    BY FedIs, LenProperties
  <2>2. Len(y.cache) = Len(w.cache) % 8
    BY <1>1
  <2> QED
    BY <2>1, <2>2, Remainder8
<1> HIDE DEF y
<1>3. z \in Fed(pre) /\ Written(z) = Written(y) \o << 0 >> /\ Len(z.cache) = Len(y.cache) + Len(<< 0 >>)
  BY <1>1, ZeroBit, Caching
<1>4. rice24_write_unary_zero(w) = z
  BY DEF rice24_write_unary_zero, y
<1> HIDE DEF z
<1>5. Len(z.cache) <= 39
  <2> DEFINE l == Len(z.cache)
             m == Len(y.cache)
  <2>1. l = m + 1 /\ m \in 0..7
    BY <1>2, <1>3, ZeroBit
  <2> HIDE DEF l, m
  <2>2. l <= 39
    BY <2>1
  <2> QED
    BY <2>2 DEF l
<1> QED
  BY <1>1, <1>3, <1>4, <1>5

\* The code of a value: the bits behind the unary code are as many as it says.
LEMMA CodeType ==
  ASSUME NEW rice \in RiceState, NEW value \in UInt32
  PROVE  LET c == RiceCode(rice, value)
         IN  /\ c \in Code
             /\ c.binary < 2^c.bin_k
             /\ c.bin_k = rice.k[IF c.unary # 0 THEN 1 ELSE 0]
             /\ c.unary # 0 <=> value >= 2^rice.k[0]
             /\ IF c.unary # 0 THEN (c.unary - 1) * 2^rice.k[1] + c.binary = value - 2^rice.k[0]
                ELSE c.binary = value
<1> DEFINE k0 == rice.k[0]
           k1 == rice.k[1]
           p0 == 2^k0
           p1 == 2^k1
           rest == value - p0
           c == RiceCode(rice, value)
<1>1. k0 \in 0..KMax /\ k1 \in 0..KMax
  BY DEF RiceState
<1>2. k0 \in Nat /\ k1 \in Nat
  BY <1>1, WordAssumption
<1>3. p0 \in Nat \ {0} /\ p1 \in Nat \ {0}
  BY <1>2, PowerNat
<1>4. value \in Nat
  BY IntWords
<1>5. c = IF value >= p0 THEN [unary |-> rest \div p1 + 1, binary |-> rest % p1, bin_k |-> k1]
          ELSE [unary |-> 0, binary |-> value, bin_k |-> k0]
  BY DEF RiceCode
<1> HIDE DEF k0, k1, c
<1>6. CASE value >= p0
  <2> HIDE DEF p0, p1
  <2>1. rest \in Nat
    BY <1>3, <1>4, <1>6
  <2> HIDE DEF rest
  <2>2. PICK q \in Nat, r \in 0..(p1 - 1) :
          rest \div p1 = q /\ rest % p1 = r /\ rest = p1 * q + r
    <3>1. rest \in Int /\ p1 \in Nat \ {0}
      BY <1>3, <2>1
    <3>2. /\ rest \div p1 \in Int /\ rest % p1 \in 0..(p1 - 1)
          /\ rest = p1 * (rest \div p1) + (rest % p1)
      BY <3>1, IntDivMod
    <3>3. rest \div p1 \in Nat
      BY <1>3, <2>1, SMT
    <3> QED
      BY <3>2, <3>3, Zenon
  <2>4. c = [unary |-> q + 1, binary |-> r, bin_k |-> k1]
    BY <1>5, <1>6, <2>2
  <2>5. q \in Nat /\ r \in 0..(p1 - 1)
    OBVIOUS
  <2>5a. rest = p1 * q + r
    BY <2>2
  <2>6. (q + 1) - 1 = q /\ q * p1 = p1 * q /\ q + 1 # 0 /\ r \in Nat /\ r < p1 /\ q + 1 \in Nat
    BY <1>3, <2>5
  <2>7. c \in Code
    BY <1>1, <2>4, <2>6 DEF Code
  <2>8. c.unary = q + 1 /\ c.binary = r /\ c.bin_k = k1
    BY <2>4
  <2>9. (c.unary - 1) * p1 + c.binary = rest
    BY <2>5, <2>5a, <2>6, <2>8
  <2> QED
    BY <1>6, <2>6, <2>7, <2>8, <2>9 DEF rest, p0, p1, k0, k1, c
<1>7. CASE ~(value >= p0)
  <2> HIDE DEF p1
  <2>1. c = [unary |-> 0, binary |-> value, bin_k |-> k0]
    BY <1>5, <1>7
  <2>2. c.unary = 0 /\ c.binary = value /\ c.bin_k = k0 /\ c \in Code
    BY <1>1, <1>4, <2>1 DEF Code
  <2>3. value < p0
    BY <1>3, <1>4, <1>7
  <2> QED
    BY <1>7, <2>2, <2>3 DEF p0, k0, c
<1> QED
  BY <1>6, <1>7

\* The state of the coder after a value.
RiceNext(rice, value) ==
  IF RiceCode(rice, value).unary > 0
    THEN rice24_update(rice24_update(rice, 0, value), 1, value - 2^rice.k[0])
    ELSE rice24_update(rice, 0, value)

\* The state stays legal.
LEMMA RiceNextType ==
  ASSUME NEW rice \in RiceState, NEW value \in UInt32
  PROVE  RiceNext(rice, value) \in RiceState
<1>1. value \in Int
  BY IntWords
<1>2. value - 2^rice.k[0] \in Int
  <2>1. rice.k[0] \in Nat
    BY WordAssumption DEF RiceState
  <2>2. 2^rice.k[0] \in Int
    BY <2>1, PowerNat
  <2> QED
    BY <1>1, <2>2
<1>3. rice24_update(rice, 0, value) \in RiceState
  BY <1>1, UpdateType
<1>4. rice24_update(rice24_update(rice, 0, value), 1, value - 2^rice.k[0]) \in RiceState
  BY <1>2, <1>3, UpdateType
<1> QED
  BY <1>3, <1>4 DEF RiceNext

\* How many bits a code has.
LEMMA CodeBitsType ==
  ASSUME NEW c \in Code
  PROVE  CodeBits(c) \in Seq(Bit) /\ Len(CodeBits(c)) = c.unary + 1 + c.bin_k
         /\ c.unary \in Nat /\ c.bin_k \in Nat /\ c.bin_k \in 0..KMax
         /\ CodeBits(c) = Ones(c.unary) \o (<< 0 >> \o BitsOf(c.binary, c.bin_k))
<1>1. c.unary \in Nat /\ c.binary \in Nat /\ c.bin_k \in Nat /\ c.bin_k \in 0..KMax
  BY WordAssumption DEF Code
<1> DEFINE o == Ones(c.unary)
           b == BitsOf(c.binary, c.bin_k)
<1>2. o \in Seq(Bit) /\ Len(o) = c.unary
  BY <1>1, OnesAndZeros
<1>3. b \in Seq(Bit) /\ Len(b) = c.bin_k
  BY <1>1, BitsType
<1>4. CodeBits(c) = (o \o << 0 >>) \o b
  BY DEF CodeBits
<1> HIDE DEF o, b
<1>5. o \o << 0 >> \in Seq(Bit) /\ Len(o \o << 0 >>) = c.unary + 1
  BY <1>2, ZeroBit, ConcatProperties
<1>6. (o \o << 0 >>) \o b \in Seq(Bit) /\ Len((o \o << 0 >>) \o b) = c.unary + 1 + c.bin_k
  <2> DEFINE p == o \o << 0 >>
  <2> HIDE DEF p
  <2>1. p \in Seq(Bit) /\ Len(p) = c.unary + 1
    BY <1>5 DEF p
  <2>2. p \o b \in Seq(Bit) /\ Len(p \o b) = Len(p) + Len(b)
    BY <1>3, <2>1, ConcatProperties
  <2> QED
    BY <1>3, <2>1, <2>2 DEF p
<1>7. (o \o << 0 >>) \o b = o \o (<< 0 >> \o b)
  BY <1>2, <1>3, ZeroBit, ConcatAssociative
<1> QED
  BY <1>1, <1>4, <1>6, <1>7 DEF o, b

\* Encoding a value writes its code behind what was written before.
LEMMA RiceEncodes ==
  ASSUME NEW pre \in Seq(Byte), NEW w \in Fed(pre), NEW rice \in RiceState, NEW value \in UInt32
  PROVE  LET e == rice24_encode(w, rice, value)
         IN  /\ e.rice = RiceNext(rice, value)
             /\ e.w \in Fed(pre)
             /\ Written(e.w) = Written(w) \o CodeBits(RiceCode(rice, value))
             /\ Len(e.w.cache) <= 39 + KMax
<1> DEFINE c == RiceCode(rice, value)
           b == BitsOf(c.binary, c.bin_k)
           u == rice24_write_unary(w, c.unary)
           z == rice24_write_unary_zero(w)
<1>1. c \in Code /\ c.unary \in Nat /\ c.binary \in Nat /\ c.bin_k \in Nat /\ c.bin_k \in 0..KMax
  <2>1. c \in Code
    BY CodeType
  <2> HIDE DEF c
  <2> QED
    BY <2>1, WordAssumption DEF Code
<1>2. KMax \in Nat
  BY WordAssumption
<1>3. rice24_encode(w, rice, value)
        = IF c.unary > 0
            THEN [w |-> rice24_cache_binary(u, c.binary, c.bin_k),
                  rice |-> rice24_update(rice24_update(rice, 0, value), 1, value - 2^rice.k[0])]
            ELSE [w |-> rice24_cache_binary(z, c.binary, c.bin_k),
                  rice |-> rice24_update(rice, 0, value)]
  BY DEF rice24_encode
<1>4. RiceNext(rice, value)
        = IF c.unary > 0 THEN rice24_update(rice24_update(rice, 0, value), 1, value - 2^rice.k[0])
          ELSE rice24_update(rice, 0, value)
  BY DEF RiceNext
<1> HIDE DEF c
<1>5. b \in Seq(Bit) /\ Len(b) = c.bin_k
  BY <1>1, BitsType
<1>6. ASSUME NEW v \in Fed(pre), Len(v.cache) <= 39,
             Written(v) = (Written(w) \o Ones(c.unary)) \o << 0 >>
      PROVE  LET x == rice24_cache_binary(v, c.binary, c.bin_k)
             IN  /\ x \in Fed(pre) /\ Written(x) = Written(w) \o CodeBits(c)
                 /\ Len(x.cache) <= 39 + KMax
  <2> DEFINE x == [v EXCEPT !.cache = @ \o b]
  <2>1. x \in Fed(pre) /\ Written(x) = Written(v) \o b /\ Len(x.cache) = Len(v.cache) + Len(b)
    BY <1>5, Caching
  <2>2. x = rice24_cache_binary(v, c.binary, c.bin_k)
    BY DEF rice24_cache_binary
  <2> HIDE DEF x
  <2>3. Len(v.cache) \in Nat
    BY FedIs, LenProperties
  <2>4. Len(x.cache) <= 39 + KMax
    BY <1>1, <1>2, <1>5, <1>6, <2>1, <2>3
  <2>5. ((Written(w) \o Ones(c.unary)) \o << 0 >>) \o b = Written(w) \o CodeBits(c)
    <3>1. Written(w) \in Seq(Bit) /\ Ones(c.unary) \in Seq(Bit)
      BY <1>1, FedIs, OnesAndZeros
    <3>2. ((Written(w) \o Ones(c.unary)) \o << 0 >>) \o b = Written(w) \o (Ones(c.unary) \o (<< 0 >> \o b))
      <4> DEFINE e1 == Written(w)
                 e2 == Ones(c.unary)
                 e3 == << 0 >>
                 e4 == b
      <4>1. e1 \in Seq(Bit) /\ e2 \in Seq(Bit) /\ e3 \in Seq(Bit) /\ e4 \in Seq(Bit)
        BY <1>5, <3>1, ZeroBit
      <4> HIDE DEF e1, e2, e3, e4
      <4>2. e1 \o e2 \in Seq(Bit) /\ e3 \o e4 \in Seq(Bit)
        BY <4>1, ConcatProperties
      <4>3. ((e1 \o e2) \o e3) \o e4 = (e1 \o e2) \o (e3 \o e4)
        BY <4>1, <4>2, BitsConcat
      <4>4. (e1 \o e2) \o (e3 \o e4) = e1 \o (e2 \o (e3 \o e4))
        BY <4>1, <4>2, BitsConcat
      <4> QED
        BY <4>3, <4>4 DEF e1, e2, e3, e4
    <3>5. CodeBits(c) = Ones(c.unary) \o (<< 0 >> \o b)
      BY <1>1, CodeBitsType
    <3> QED
      BY <3>2, <3>5
  <2> QED
    BY <1>6, <2>1, <2>2, <2>4, <2>5
<1>7. CASE c.unary > 0
  <2>1. u \in Fed(pre) /\ Len(u.cache) <= 39 /\ Written(u) = (Written(w) \o Ones(c.unary)) \o << 0 >>
    BY <1>1, WriteUnary
  <2> HIDE DEF u
  <2>2. LET x == rice24_cache_binary(u, c.binary, c.bin_k)
        IN  /\ x \in Fed(pre) /\ Written(x) = Written(w) \o CodeBits(c)
            /\ Len(x.cache) <= 39 + KMax
    BY <1>6, <2>1
  <2> QED
    BY <1>3, <1>4, <1>7, <2>2 DEF c
<1>8. CASE ~(c.unary > 0)
  <2>1. z \in Fed(pre) /\ Len(z.cache) <= 39 /\ Written(z) = Written(w) \o << 0 >>
    BY WriteUnaryZero
  <2>2. Written(w) \o Ones(c.unary) = Written(w)
    <3>1. c.unary = 0
      BY <1>1, <1>8
    <3>2. Ones(0) = <<>>
      BY DEF Ones
    <3>3. Written(w) \in Seq(Bit)
      BY FedIs
    <3> QED
      BY <3>1, <3>2, <3>3, ConcatEmptySeq
  <2> HIDE DEF z
  <2>3. LET x == rice24_cache_binary(z, c.binary, c.bin_k)
        IN  /\ x \in Fed(pre) /\ Written(x) = Written(w) \o CodeBits(c)
            /\ Len(x.cache) <= 39 + KMax
    BY <1>6, <2>1, <2>2
  <2> QED
    BY <1>3, <1>4, <1>8, <2>3 DEF c
<1> QED
  BY <1>7, <1>8

-----------------------------------------------------------------------------
(* Reading *)

\* The elements of a concatenation.
LEMMA ConcatIs ==
  ASSUME NEW S, NEW s \in Seq(S), NEW t \in Seq(S), NEW m, NEW n, Len(s) = m, Len(t) = n
  PROVE  /\ s \o t \in Seq(S) /\ Len(s \o t) = m + n
         /\ \A i \in 1..(m + n) : (s \o t)[i] = IF i <= m THEN s[i] ELSE t[i - m]
  BY ConcatProperties

\* The least number of a set.
LEMMA MinIs ==
  ASSUME NEW T, T \subseteq Nat, T # {}
  PROVE  Min(T) \in T /\ \A k \in T : Min(T) <= k
<1>1. \E m \in T : \A k \in T : m <= k
  BY LeastNumber
<1> QED
  BY <1>1 DEF Min

\* It is the only one.
LEMMA MinUnique ==
  ASSUME NEW T, T \subseteq Nat, NEW m \in T, \A k \in T : m <= k
  PROVE  Min(T) = m
<1>1. Min(T) \in T /\ \A k \in T : Min(T) <= k
  BY MinIs
<1>2. m \in Nat /\ Min(T) \in Nat /\ m <= Min(T) /\ Min(T) <= m
  BY <1>1
<1> QED
  BY <1>2

\* The ones before the first zero.
LEMMA TBCNTIs ==
  ASSUME NEW bits \in Seq(Bit)
  PROVE  /\ TBCNT(bits) \in 0..Len(bits)
         /\ \A i \in 1..TBCNT(bits) : bits[i] = 1
         /\ TBCNT(bits) < Len(bits) => bits[TBCNT(bits) + 1] = 0
<1>1. Len(bits) \in Nat /\ DOMAIN bits = 1..Len(bits)
  BY LenProperties
<1>2. \A i \in DOMAIN bits : bits[i] = 0 \/ bits[i] = 1
  BY <1>1, ElementOfSeq DEF Bit
<1>3. CASE \A i \in DOMAIN bits : bits[i] = 1
  BY <1>1, <1>3 DEF TBCNT
<1>4. CASE ~\A i \in DOMAIN bits : bits[i] = 1
  <2> DEFINE T == {i \in DOMAIN bits : bits[i] = 0}
  <2>1. T # {} /\ T \subseteq Nat
    BY <1>1, <1>2, <1>4
  <2> DEFINE m == Min(T)
  <2>2. m \in T /\ \A k \in T : m <= k
    BY <2>1, MinIs
  <2>3. TBCNT(bits) = m - 1
    BY <1>4 DEF TBCNT
  <2> HIDE DEF m
  <2>4. m \in 1..Len(bits) /\ bits[m] = 0
    BY <1>1, <2>2
  <2>5. ASSUME NEW i \in 1..(m - 1) PROVE bits[i] = 1
    <3>1. i \in DOMAIN bits /\ ~(m <= i)
      BY <1>1, <2>4
    <3> QED
      BY <1>2, <2>2, <3>1
  <2>6. m - 1 \in 0..Len(bits) /\ (m - 1) + 1 = m
    BY <1>1, <2>4
  <2> QED
    BY <2>3, <2>4, <2>5, <2>6
<1> QED
  BY <1>3, <1>4

\* The count of trailing ones, found by looking at the bits.
LEMMA TBCNTUnique ==
  ASSUME NEW bits \in Seq(Bit), NEW u \in 0..Len(bits), \A i \in 1..u : bits[i] = 1,
         u < Len(bits) => bits[u + 1] = 0
  PROVE  TBCNT(bits) = u
<1> DEFINE t == TBCNT(bits)
           l == Len(bits)
<1>1. /\ t \in 0..l /\ \A i \in 1..t : bits[i] = 1
      /\ t < l => bits[t + 1] = 0
  BY TBCNTIs
<1>2. l \in Nat /\ u \in 0..l /\ (u < l => bits[u + 1] = 0)
  BY LenProperties
<1> HIDE DEF t, l
<1>3. CASE t < u
  <2>1. t + 1 \in 1..u /\ t < l
    BY <1>1, <1>2, <1>3
  <2> QED
    BY <1>1, <2>1
<1>4. CASE u < t
  <2>1. u + 1 \in 1..t /\ u < l
    BY <1>1, <1>2, <1>4
  <2> QED
    BY <1>1, <1>2, <2>1
<1>5. t = u
  BY <1>1, <1>2, <1>3, <1>4
<1> QED
  BY <1>5 DEF t

\* The same cut gives the same halves.
LEMMA SameHalves ==
  ASSUME NEW S, NEW a \in Seq(S), NEW b \in Seq(S), NEW c \in Seq(S), NEW d \in Seq(S),
         a \o b = c \o d, Len(a) = Len(c)
  PROVE  a = c /\ b = d
<1>1. SubSeq(a \o b, 1, Len(a)) = a /\ SubSeq(a \o b, Len(a) + 1, Len(a \o b)) = b
  BY Halves
<1>2. SubSeq(c \o d, 1, Len(c)) = c /\ SubSeq(c \o d, Len(c) + 1, Len(c \o d)) = d
  BY Halves
<1> QED
  BY <1>1, <1>2

Readers == {r \in [cache : Seq(Bit), src : Seq(Byte), crc : Seq(Byte), nbytes : Nat] :
              r.crc = BytesUpTo(r.src, r.nbytes)}

\* The bits a reader has before it.
Pending(r) == r.cache \o FlattenSeq(SubSeq(r.src, r.nbytes + 1, Len(r.src)))

\* The bits in the cache and those of the next n bytes.
Gathered(r, n) == r.cache \o FlattenSeq(NextBytes(r, n))

\* Bytes read behind the end are bytes too.
LEMMA ByteAtType ==
  ASSUME NEW src \in Seq(Byte), NEW i \in Nat \ {0}
  PROVE  ByteAt(src, i) \in Byte
<1>1. Ones(8) \in Byte
  BY OnesAndZeros DEF Byte
<1>2. i <= Len(src) => src[i] \in Byte
  <2>1. i <= Len(src) => i \in 1..Len(src)
    BY LenProperties
  <2> QED
    BY <2>1, ElementOfSeq
<1> QED
  BY <1>1, <1>2 DEF ByteAt

\* The fields of a reader.
LEMMA ReaderIs ==
  ASSUME NEW r \in Readers
  PROVE  /\ r.cache \in Seq(Bit) /\ r.src \in Seq(Byte) /\ r.crc \in Seq(Byte) /\ r.nbytes \in Nat
         /\ r.crc = BytesUpTo(r.src, r.nbytes)
         /\ Len(r.cache) \in Nat
<1>1. r \in [cache : Seq(Bit), src : Seq(Byte), crc : Seq(Byte), nbytes : Nat]
      /\ r.crc = BytesUpTo(r.src, r.nbytes)
  BY DEF Readers
<1>2. r.cache \in Seq(Bit)
  BY <1>1
<1>3. Len(r.cache) \in Nat
  BY <1>2, LenProperties
<1> QED
  BY <1>1, <1>3

\* The bytes a reader takes next.
LEMMA NextBytesType ==
  ASSUME NEW r \in Readers, NEW n \in Nat
  PROVE  NextBytes(r, n) \in Seq(Byte) /\ Len(NextBytes(r, n)) = n
         /\ \A j \in 1..n : NextBytes(r, n)[j] = ByteAt(r.src, r.nbytes + j)
<1>1. r.src \in Seq(Byte) /\ r.nbytes \in Nat
  BY ReaderIs
<1>2. ASSUME NEW j \in 1..n PROVE ByteAt(r.src, r.nbytes + j) \in Byte
  <2>1. r.nbytes + j \in Nat \ {0}
    BY <1>1
  <2> QED
    BY <1>1, <2>1, ByteAtType
<1>3. NextBytes(r, n) \in [1..n -> Byte]
      /\ \A j \in 1..n : NextBytes(r, n)[j] = ByteAt(r.src, r.nbytes + j)
  BY <1>2 DEF NextBytes
<1>4. \A f \in [1..n -> Byte] : f \in Seq(Byte) /\ Len(f) = n
  OBVIOUS
<1> QED
  BY <1>3, <1>4

\* The bytes read so far.
LEMMA WriteAll ==
  ASSUME NEW src \in Seq(Byte), NEW k \in Nat
  PROVE  BytesUpTo(src, k) \in Seq(Byte) /\ Len(BytesUpTo(src, k)) = k
<1>1. ASSUME NEW i \in 1..k PROVE ByteAt(src, i) \in Byte
  <2>1. i \in Nat \ {0}
    OBVIOUS
  <2> QED
    BY <2>1, ByteAtType
<1>2. BytesUpTo(src, k) \in [1..k -> Byte]
  BY <1>1 DEF BytesUpTo
<1>3. \A f \in [1..k -> Byte] : f \in Seq(Byte) /\ Len(f) = k
  OBVIOUS
<1> QED
  BY <1>2, <1>3

\* The bytes that follow go behind those that were read.
LEMMA NextUpTo ==
  ASSUME NEW r \in Readers, NEW n \in Nat
  PROVE  r.crc \o NextBytes(r, n) = BytesUpTo(r.src, r.nbytes + n)
<1> DEFINE k == r.nbytes
           a == BytesUpTo(r.src, k)
           b == NextBytes(r, n)
           c == BytesUpTo(r.src, k + n)
<1>1. r.src \in Seq(Byte) /\ k \in Nat /\ r.crc = a /\ k + n \in Nat
  BY ReaderIs
<1>2. a \in Seq(Byte) /\ Len(a) = k /\ c \in Seq(Byte) /\ Len(c) = k + n
  BY <1>1, WriteAll
<1>3. b \in Seq(Byte) /\ Len(b) = n /\ \A j \in 1..n : b[j] = ByteAt(r.src, k + j)
  BY NextBytesType
<1>4. (\A i \in 1..k : a[i] = ByteAt(r.src, i)) /\ (\A i \in 1..(k + n) : c[i] = ByteAt(r.src, i))
  BY DEF BytesUpTo
<1> HIDE DEF k, a, b, c
<1>5. /\ a \o b \in Seq(Byte) /\ Len(a \o b) = k + n
      /\ \A i \in 1..(k + n) : (a \o b)[i] = IF i <= k THEN a[i] ELSE b[i - k]
  BY <1>2, <1>3, ConcatProperties
<1>6. ASSUME NEW i \in 1..(k + n) PROVE (a \o b)[i] = c[i]
  <2>1. i <= k => i \in 1..k
    BY <1>1
  <2>2. ~(i <= k) => i - k \in 1..n /\ k + (i - k) = i
    BY <1>1
  <2> QED
    BY <1>3, <1>4, <1>5, <2>1, <2>2
<1>7. a \o b = c
  BY <1>2, <1>5, <1>6, SeqEqual
<1> QED
  BY <1>1, <1>7 DEF a, b, c, k

\* The bits before a reader.
LEMMA PendingType ==
  ASSUME NEW r \in Readers, r.nbytes <= Len(r.src)
  PROVE  Pending(r) \in Seq(Bit)
         /\ Len(Pending(r)) = Len(r.cache) + 8 * (Len(r.src) - r.nbytes)
         /\ SubSeq(r.src, r.nbytes + 1, Len(r.src)) \in Seq(Byte)
<1> DEFINE rest == SubSeq(r.src, r.nbytes + 1, Len(r.src))
<1>1. r.cache \in Seq(Bit) /\ r.src \in Seq(Byte) /\ r.nbytes \in Nat
  BY ReaderIs
<1>2. r.nbytes \in 0..Len(r.src)
  BY <1>1, LenProperties
<1>3. rest \in Seq(Byte) /\ Len(rest) = Len(r.src) - r.nbytes
  BY <1>1, <1>2, Cut
<1> HIDE DEF rest
<1>4. FlattenSeq(rest) \in Seq(Bit) /\ Len(FlattenSeq(rest)) = 8 * Len(rest)
  BY <1>3, BytesFlat
<1>5. r.cache \o FlattenSeq(rest) \in Seq(Bit)
      /\ Len(r.cache \o FlattenSeq(rest)) = Len(r.cache) + Len(FlattenSeq(rest))
  BY <1>1, <1>4, ConcatProperties
<1>6. Pending(r) = r.cache \o FlattenSeq(rest)
  BY DEF Pending, rest
<1> QED
  BY <1>3, <1>4, <1>5, <1>6 DEF rest

\* What is gathered, and what is pending once the n bytes were read.
LEMMA PendingIs ==
  ASSUME NEW r \in Readers, NEW n \in Nat, r.nbytes + n <= Len(r.src)
  PROVE  LET rest == FlattenSeq(SubSeq(r.src, r.nbytes + n + 1, Len(r.src)))
         IN  /\ rest \in Seq(Bit)
             /\ Gathered(r, n) \in Seq(Bit)
             /\ Pending(r) = Gathered(r, n) \o rest
<1> DEFINE k == r.nbytes
           l == Len(r.src)
           b == NextBytes(r, n)
           x == SubSeq(r.src, k + 1, l)
           y == SubSeq(r.src, k + n + 1, l)
<1>1. r.cache \in Seq(Bit) /\ r.src \in Seq(Byte) /\ k \in Nat /\ l \in Nat
  BY ReaderIs, LenProperties
<1>2. k \in 0..l /\ k + n \in 0..l /\ k + n <= l
  BY <1>1
<1>3. /\ x \in Seq(Byte) /\ Len(x) = l - k
      /\ y \in Seq(Byte) /\ Len(y) = l - (k + n)
  BY <1>1, <1>2, Cut
<1>4. /\ \A i \in 1..(l - (k + 1) + 1) : x[i] = r.src[(k + 1) + i - 1]
      /\ \A i \in 1..(l - (k + n + 1) + 1) : y[i] = r.src[(k + n + 1) + i - 1]
  <2>1. k + 1 \in Nat \ {0} /\ k + n + 1 \in Nat \ {0} /\ l \in Int /\ l <= Len(r.src)
    BY <1>1
  <2>2. \A i \in 1..(l - (k + 1) + 1) : x[i] = r.src[(k + 1) + i - 1]
    BY <1>1, <2>1, SubSeqIs
  <2>3. \A i \in 1..(l - (k + n + 1) + 1) : y[i] = r.src[(k + n + 1) + i - 1]
    <3> DEFINE e == k + n + 1
               s == r.src
    <3>1. e \in Nat \ {0} /\ l \in Int /\ l <= Len(s) /\ s \in Seq(Byte)
      BY <1>1, <2>1
    <3> HIDE DEF e, s
    <3>2. \A i \in 1..(l - e + 1) : SubSeq(s, e, l)[i] = s[e + i - 1]
      BY <3>1, SubSeqIs
    <3> QED
      BY <3>2 DEF e, s
  <2> QED
    BY <2>2, <2>3
<1>5. b \in Seq(Byte) /\ Len(b) = n /\ \A j \in 1..n : b[j] = ByteAt(r.src, k + j)
  BY NextBytesType
<1>6. ASSUME NEW j \in 1..n PROVE b[j] = r.src[k + j]
  <2>1. k + j <= Len(r.src)
    BY <1>1, <1>2
  <2> QED
    BY <1>5, <2>1 DEF ByteAt
<1> DEFINE s == r.src
<1>7. s \in Seq(Byte)
  BY <1>1
<1> HIDE DEF b, x, y, k, l, s
<1>8. b \o y \in Seq(Byte) /\ Len(b \o y) = n + (l - (k + n))
      /\ \A i \in 1..(n + (l - (k + n))) : (b \o y)[i] = IF i <= n THEN b[i] ELSE y[i - n]
  BY <1>3, <1>5, ConcatIs
<1>9. ASSUME NEW i \in 1..(l - k) PROVE x[i] = (b \o y)[i]
  <2>1. i \in 1..(l - (k + 1) + 1) /\ (k + 1) + i - 1 = k + i /\ i \in 1..(n + (l - (k + n)))
    BY <1>1, <1>2
  <2>2. x[i] = r.src[k + i]
    BY <1>4, <2>1
  <2>3. CASE i <= n
    <3>1. i \in 1..n
      BY <2>3
    <3> QED
      BY <1>6, <1>8, <2>1, <2>2, <2>3, <3>1
  <2>4. CASE ~(i <= n)
    <3>1. i - n \in 1..(l - (k + n + 1) + 1) /\ (k + n + 1) + (i - n) - 1 = k + i
      BY <1>1, <1>2, <2>4
    <3> QED
      BY <1>4, <1>8, <2>1, <2>2, <2>4, <3>1
  <2> QED
    BY <2>3, <2>4
<1>10. x = b \o y
  <2>1. Len(x) = Len(b \o y) /\ Len(x) = l - k
    BY <1>1, <1>2, <1>3, <1>8
  <2> QED
    BY <1>3, <1>8, <1>9, <2>1, SeqEqual
<1>11. FlattenSeq(b \o y) = FlattenSeq(b) \o FlattenSeq(y)
  <2>1. b \in Seq(Seq(Bit)) /\ y \in Seq(Seq(Bit))
    BY <1>3, <1>5, ByteIs
  <2> QED
    BY <2>1, FlattenConcat
<1>12. FlattenSeq(b) \in Seq(Bit) /\ FlattenSeq(y) \in Seq(Bit)
  BY <1>3, <1>5, BytesFlat
<1>13. r.cache \o (FlattenSeq(b) \o FlattenSeq(y)) = (r.cache \o FlattenSeq(b)) \o FlattenSeq(y)
  BY <1>1, <1>12, BitsConcat
<1>14. r.cache \o FlattenSeq(b) \in Seq(Bit)
  BY <1>1, <1>12, ConcatProperties
<1>15. Pending(r) = r.cache \o FlattenSeq(x) /\ Gathered(r, n) = r.cache \o FlattenSeq(b)
  BY DEF Pending, Gathered, x, b, k, l
<1>16. FlattenSeq(y) \in Seq(Bit) /\ Gathered(r, n) \in Seq(Bit)
       /\ Pending(r) = Gathered(r, n) \o FlattenSeq(y)
  BY <1>10, <1>11, <1>12, <1>13, <1>14, <1>15
<1> QED
  BY <1>16 DEF y, k, l

\* The cache with the next n bytes behind it.
LEMMA GatheredType ==
  ASSUME NEW r \in Readers, NEW n \in Nat
  PROVE  /\ Gathered(r, n) \in Seq(Bit) /\ Len(Gathered(r, n)) = Len(r.cache) + 8 * n
         /\ \A i \in 1..Len(r.cache) : Gathered(r, n)[i] = r.cache[i]
         /\ \A j \in 1..n, i \in 1..8 :
              Gathered(r, n)[Len(r.cache) + 8 * (j - 1) + i] = ByteAt(r.src, r.nbytes + j)[i]
<1> DEFINE c == r.cache
           l == Len(c)
           b == NextBytes(r, n)
           fb == FlattenSeq(b)
<1>1. c \in Seq(Bit) /\ l \in Nat
  BY ReaderIs
<1>2. b \in Seq(Byte) /\ Len(b) = n /\ \A j \in 1..n : b[j] = ByteAt(r.src, r.nbytes + j)
  BY NextBytesType
<1>3. /\ fb \in Seq(Bit) /\ Len(fb) = 8 * n
      /\ \A j \in 1..n, i \in 1..8 : fb[8 * (j - 1) + i] = b[j][i]
  BY <1>2, BytesFlat
<1>4. Gathered(r, n) = c \o fb
  BY DEF Gathered
<1> HIDE DEF fb, b
<1>5. /\ c \o fb \in Seq(Bit) /\ Len(c \o fb) = l + 8 * n
      /\ \A i \in 1..(l + 8 * n) : (c \o fb)[i] = IF i <= l THEN c[i] ELSE fb[i - l]
  <2>1. Len(c) = l /\ Len(fb) = 8 * n
    BY <1>3
  <2> DEFINE e == 8 * n
  <2>2. Len(fb) = e
    BY <2>1
  <2>2a. c \in Seq(Bit) /\ fb \in Seq(Bit)
    BY <1>1, <1>3
  <2> HIDE DEF e, l, c
  <2>3. /\ c \o fb \in Seq(Bit) /\ Len(c \o fb) = l + e
        /\ \A i \in 1..(l + e) : (c \o fb)[i] = IF i <= l THEN c[i] ELSE fb[i - l]
    BY <2>1, <2>2, <2>2a, ConcatIs
  <2> QED
    BY <2>3 DEF e
<1> HIDE DEF c, l
<1>6. ASSUME NEW i \in 1..l PROVE (c \o fb)[i] = c[i]
  <2>1. i \in 1..(l + 8 * n) /\ i <= l
    BY <1>1
  <2> QED
    BY <1>5, <2>1
<1>7. ASSUME NEW j \in 1..n, NEW i \in 1..8
      PROVE  (c \o fb)[l + 8 * (j - 1) + i] = ByteAt(r.src, r.nbytes + j)[i]
  <2> DEFINE p == l + 8 * (j - 1) + i
  <2>1. p \in 1..(l + 8 * n) /\ ~(p <= l) /\ p - l = 8 * (j - 1) + i
    BY <1>1
  <2> HIDE DEF p
  <2>2. (c \o fb)[p] = fb[8 * (j - 1) + i]
    BY <1>5, <2>1
  <2> QED
    BY <1>2, <1>3, <2>2 DEF p
<1> QED
  BY <1>4, <1>5, <1>6, <1>7 DEF c, l

\* A reader changed.
LEMMA ReaderExcept ==
  ASSUME NEW r \in [cache : Seq(Bit), src : Seq(Byte), crc : Seq(Byte), nbytes : Nat],
         NEW n, NEW b, NEW c
  PROVE  [r EXCEPT !.nbytes = n, !.crc = b, !.cache = c]
           = [cache |-> c, src |-> r.src, crc |-> b, nbytes |-> n]
<1> DEFINE x == [r EXCEPT !.nbytes = n]
           y == [x EXCEPT !.crc = b]
           z == [y EXCEPT !.cache = c]
<1>1. [r EXCEPT !.nbytes = n, !.crc = b, !.cache = c] = z
  OBVIOUS
<1>2. x = [cache |-> r.cache, src |-> r.src, crc |-> r.crc, nbytes |-> n]
  OBVIOUS
<1> HIDE DEF x
<1>3. y = [cache |-> r.cache, src |-> r.src, crc |-> b, nbytes |-> n]
  BY <1>2
<1> HIDE DEF y
<1>4. z = [cache |-> c, src |-> r.src, crc |-> b, nbytes |-> n]
  BY <1>3
<1> QED
  BY <1>1, <1>4, Zenon DEF x, y

\* A reader that took n bytes.
LEMMA AdvanceIs ==
  ASSUME NEW r \in Readers, NEW n \in Nat, NEW c \in Seq(Bit)
  PROVE  LET q == Advance(r, n, c)
         IN  q \in Readers /\ q.cache = c /\ q.src = r.src /\ q.nbytes = r.nbytes + n
<1> DEFINE q == Advance(r, n, c)
           b == NextBytes(r, n)
<1>1. r \in [cache : Seq(Bit), src : Seq(Byte), crc : Seq(Byte), nbytes : Nat]
  BY DEF Readers
<1>2. q = [cache |-> c, src |-> r.src, crc |-> r.crc \o b, nbytes |-> r.nbytes + n]
  <2>1. q = [r EXCEPT !.nbytes = @ + n, !.crc = @ \o b, !.cache = c]
    BY DEF Advance
  <2> HIDE DEF b, q
  <2>2. [r EXCEPT !.nbytes = @ + n, !.crc = @ \o b, !.cache = c]
          = [cache |-> c, src |-> r.src, crc |-> r.crc \o b, nbytes |-> r.nbytes + n]
    <3> DEFINE e == r.nbytes + n
               x == r.crc \o b
    <3>1. [r EXCEPT !.nbytes = e, !.crc = x, !.cache = c]
            = [cache |-> c, src |-> r.src, crc |-> x, nbytes |-> e]
      <4> HIDE DEF e, x
      <4> QED
        BY <1>1, ReaderExcept
    <3> QED
      BY <3>1
  <2> QED
    BY <2>1, <2>2
<1>3. b \in Seq(Byte) /\ r.crc \o b = BytesUpTo(r.src, r.nbytes + n)
  BY NextBytesType, NextUpTo
<1>4. r.crc \in Seq(Byte) /\ r.src \in Seq(Byte) /\ r.nbytes \in Nat
  BY ReaderIs
<1> HIDE DEF q, b
<1>5. r.crc \o b \in Seq(Byte) /\ r.nbytes + n \in Nat
  <2>1. r.crc \in Seq(Byte) /\ b \in Seq(Byte)
    BY <1>3, <1>4
  <2>2. r.crc \o b \in Seq(Byte)
    BY <2>1, ConcatProperties
  <2> QED
    BY <1>4, <2>2
<1>6. q.cache = c /\ q.src = r.src /\ q.crc = r.crc \o b /\ q.nbytes = r.nbytes + n
  BY <1>2
<1>7. q \in [cache : Seq(Bit), src : Seq(Byte), crc : Seq(Byte), nbytes : Nat]
  BY <1>2, <1>4, <1>5
<1>8. q \in Readers
  BY <1>3, <1>6, <1>7 DEF Readers
<1> QED
  BY <1>6, <1>8 DEF q

\* A reader that took none.
LEMMA RecacheIs ==
  ASSUME NEW r \in Readers, NEW c \in Seq(Bit)
  PROVE  LET q == [r EXCEPT !.cache = c]
         IN  q \in Readers /\ q.cache = c /\ q.src = r.src /\ q.nbytes = r.nbytes + 0
<1> DEFINE q == [r EXCEPT !.cache = c]
<1>1. r \in [cache : Seq(Bit), src : Seq(Byte), crc : Seq(Byte), nbytes : Nat]
      /\ r.crc = BytesUpTo(r.src, r.nbytes)
  BY DEF Readers
<1>2. q = [cache |-> c, src |-> r.src, crc |-> r.crc, nbytes |-> r.nbytes]
  BY <1>1
<1> HIDE DEF q
<1>3. q.cache = c /\ q.src = r.src /\ q.nbytes = r.nbytes /\ q.crc = r.crc
  BY <1>2
<1>4. q \in [cache : Seq(Bit), src : Seq(Byte), crc : Seq(Byte), nbytes : Nat]
  BY <1>1, <1>2
<1>5. q \in Readers
  BY <1>1, <1>3, <1>4 DEF Readers
<1>6. r.nbytes \in Nat
  BY ReaderIs
<1> QED
  BY <1>3, <1>5, <1>6 DEF q

\* What a step of the reader takes is what was pending.
LEMMA MovePending ==
  ASSUME NEW r \in Readers, NEW q \in Readers, NEW n \in Nat, NEW taken \in Seq(Bit),
         q.src = r.src, q.nbytes = r.nbytes + n, r.nbytes + n <= Len(r.src),
         Gathered(r, n) = taken \o q.cache
  PROVE  Pending(r) = taken \o Pending(q)
<1> DEFINE rest == FlattenSeq(SubSeq(r.src, r.nbytes + n + 1, Len(r.src)))
<1>1. rest \in Seq(Bit) /\ Pending(r) = Gathered(r, n) \o rest
  BY PendingIs
<1>2. q.cache \in Seq(Bit)
  BY ReaderIs
<1>3. Pending(q) = q.cache \o rest
  BY DEF Pending
<1> HIDE DEF rest
<1>4. (taken \o q.cache) \o rest = taken \o (q.cache \o rest)
  BY <1>1, <1>2, BitsConcat
<1> QED
  BY <1>1, <1>3, <1>4

-----------------------------------------------------------------------------
\* The run of ones ends in the j-th byte.
UnaryEnds(r, lax, j) ==
  \/ TBCNT(ByteAt(r.src, r.nbytes + j)) < 8
  \/ TBCNT(r.cache) + 8 * (j - 1) + TBCNT(ByteAt(r.src, r.nbytes + j)) > lax

UnaryByte(r, lax) == Min({j \in 1..(lax \div 8 + 1) : UnaryEnds(r, lax, j)})

\* The trailing ones of a byte.
LEMMA ByteOnes ==
  ASSUME NEW r \in Readers, NEW j \in Nat \ {0}
  PROVE  /\ TBCNT(ByteAt(r.src, r.nbytes + j)) \in 0..8
         /\ ByteAt(r.src, r.nbytes + j) \in Byte
<1>1. r.src \in Seq(Byte) /\ r.nbytes + j \in Nat \ {0}
  BY ReaderIs
<1>2. ByteAt(r.src, r.nbytes + j) \in Byte
  BY <1>1, ByteAtType
<1>3. ByteAt(r.src, r.nbytes + j) \in Seq(Bit) /\ Len(ByteAt(r.src, r.nbytes + j)) = 8
  BY <1>2, ByteIs
<1>4. TBCNT(ByteAt(r.src, r.nbytes + j)) \in 0..Len(ByteAt(r.src, r.nbytes + j))
  BY <1>3, TBCNTIs
<1> QED
  BY <1>2, <1>3, <1>4

\* The limit of a unary code is a whole number of bytes.
LEMMA LaxBytes ==
  ASSUME NEW K \in Nat \ {0}, NEW lax, lax = 8 * K - 1
  PROVE  lax \in Nat /\ lax \div 8 + 1 = K
<1>1. lax \in Nat /\ lax = 8 * (K - 1) + 7
  OBVIOUS
<1>2. 8 \in Nat \ {0} /\ lax \in Int /\ K - 1 \in Int /\ 7 \in 0..(8 - 1)
  BY <1>1
<1>3. lax \div 8 = K - 1
  BY <1>1, <1>2, IntDivUnique
<1> QED
  BY <1>1, <1>3

\* There is such a byte, within the limit.
LEMMA UnaryByteIs ==
  ASSUME NEW r \in Readers, NEW K \in Nat \ {0}, NEW lax, lax = 8 * K - 1
  PROVE  LET n == UnaryByte(r, lax)
         IN  /\ n \in 1..K /\ UnaryEnds(r, lax, n)
             /\ \A j \in 1..K : UnaryEnds(r, lax, j) => n <= j
<1> DEFINE T == {j \in 1..K : UnaryEnds(r, lax, j)}
<1>1. lax \in Nat /\ lax \div 8 + 1 = K
  BY LaxBytes
<1>2. K \in T
  <2> DEFINE o == TBCNT(ByteAt(r.src, r.nbytes + K))
             f == TBCNT(r.cache)
  <2>1. o \in 0..8
    BY ByteOnes
  <2>2. r.cache \in Seq(Bit) /\ Len(r.cache) \in Nat
    BY ReaderIs
  <2>3. f \in Nat
    <3>1. f \in 0..Len(r.cache)
      BY <2>2, TBCNTIs
    <3> QED
      BY <2>2, <3>1
  <2>4. UnaryEnds(r, lax, K) <=> o < 8 \/ f + 8 * (K - 1) + o > lax
    BY DEF UnaryEnds
  <2> HIDE DEF o, f
  <2>5. o < 8 \/ f + 8 * (K - 1) + o > lax
    BY <2>1, <2>3
  <2> QED
    BY <2>4, <2>5
<1>3. T \subseteq Nat /\ T # {}
  BY <1>2
<1>4. Min(T) \in T /\ \A k \in T : Min(T) <= k
  BY <1>3, MinIs
<1>5. UnaryByte(r, lax) = Min(T)
  BY <1>1 DEF UnaryByte
<1> QED
  BY <1>4, <1>5

\* Reading a unary code, without its local names.
LEMMA UnaryIs ==
  ASSUME NEW r, NEW lax
  PROVE  LET first == TBCNT(r.cache)
             n     == UnaryByte(r, lax)
             last  == ByteAt(r.src, r.nbytes + n)
             upto  == first + 8 * (n - 1) + TBCNT(last)
             nbits == IF upto > lax THEN 0 ELSE TBCNT(last)
         IN  rice24_read_unary(r, lax)
               = IF first < Len(r.cache)
                   THEN [unary |-> first,
                         r     |-> [r EXCEPT !.cache = SubSeq(r.cache, first + 2, Len(r.cache))]]
                   ELSE [unary |-> upto, r |-> Advance(r, n, SubSeq(last, nbits + 2, 8))]
  BY DEF rice24_read_unary, UnaryByte, UnaryEnds

\* Whatever the bytes are, few of them are read, and few bits are kept.
LEMMA UnaryRead ==
  ASSUME NEW r \in Readers, Len(r.cache) <= 7, NEW K \in Nat \ {0}, NEW lax, lax = 8 * K - 1
  PROVE  LET u == rice24_read_unary(r, lax)
         IN  /\ u.unary \in Nat /\ u.r \in Readers /\ u.r.src = r.src /\ Len(u.r.cache) <= 7
             /\ u.r.nbytes \in r.nbytes..(r.nbytes + K)
<1> DEFINE first == TBCNT(r.cache)
           l     == Len(r.cache)
           n     == UnaryByte(r, lax)
           last  == ByteAt(r.src, r.nbytes + n)
           o     == TBCNT(last)
           upto  == first + 8 * (n - 1) + o
           nbits == IF upto > lax THEN 0 ELSE o
           u     == rice24_read_unary(r, lax)
<1>1. r.cache \in Seq(Bit) /\ l \in Nat /\ r.nbytes \in Nat /\ l <= 7
  BY ReaderIs
<1>2. first \in 0..l
  BY <1>1, TBCNTIs
<1>3. n \in 1..K
  BY UnaryByteIs
<1>4. o < 8 \/ upto > lax
  BY UnaryByteIs DEF UnaryEnds
<1>5. o \in 0..8 /\ last \in Byte
  BY <1>3, ByteOnes
<1>6. last \in Seq(Bit) /\ Len(last) = 8
  BY <1>5, ByteIs
<1>7. u = IF first < l
            THEN [unary |-> first, r |-> [r EXCEPT !.cache = SubSeq(r.cache, first + 2, l)]]
            ELSE [unary |-> upto, r |-> Advance(r, n, SubSeq(last, nbits + 2, 8))]
  BY UnaryIs
<1> HIDE DEF u, last, o, n, first
<1>8. CASE first < l
  <2> DEFINE c == SubSeq(r.cache, first + 2, l)
             q == [r EXCEPT !.cache = c]
             m == first + 1
  <2>1. m \in 0..l /\ m + 1 = first + 2
    BY <1>1, <1>2, <1>8
  <2>2. SubSeq(r.cache, m + 1, Len(r.cache)) \in Seq(Bit)
        /\ Len(SubSeq(r.cache, m + 1, Len(r.cache))) = Len(r.cache) - m
    BY <1>1, <2>1, Cut
  <2>3. c \in Seq(Bit) /\ Len(c) = l - m
    BY <2>1, <2>2
  <2> HIDE DEF c, l
  <2>4. q \in Readers /\ q.cache = c /\ q.src = r.src /\ q.nbytes = r.nbytes + 0
    BY <2>3, RecacheIs
  <2>5. u = [unary |-> first, r |-> q]
    BY <1>7, <1>8 DEF c
  <2> HIDE DEF q
  <2>6. u.unary = first /\ u.r = q
    BY <2>5
  <2>7. Len(q.cache) <= 7
    <3>1. l - m <= 7
      BY <1>1, <2>1
    <3> QED
      BY <2>3, <2>4, <3>1
  <2>8. q.nbytes \in r.nbytes..(r.nbytes + K) /\ first \in Nat
    BY <1>1, <1>2, <2>4
  <2> QED
    BY <2>4, <2>6, <2>7, <2>8 DEF u
<1>9. CASE ~(first < l)
  <2> DEFINE c == SubSeq(last, nbits + 2, 8)
             q == Advance(r, n, c)
  <2>1. upto \in Nat /\ nbits \in 0..7 /\ n \in Nat
    BY <1>1, <1>2, <1>3, <1>4, <1>5
  <2>2. u = [unary |-> upto, r |-> q]
    BY <1>7, <1>9
  <2> HIDE DEF upto, nbits
  <2>3. c \in Seq(Bit) /\ Len(c) <= 7
    <3> DEFINE m == nbits + 1
    <3>1. m \in 1..8 /\ m \in 0..Len(last) /\ m + 1 = nbits + 2
      BY <1>6, <2>1
    <3> HIDE DEF m
    <3>2. SubSeq(last, m + 1, Len(last)) \in Seq(Bit)
          /\ Len(SubSeq(last, m + 1, Len(last))) = Len(last) - m
      BY <1>6, <3>1, Cut
    <3> QED
      BY <1>6, <3>1, <3>2
  <2> HIDE DEF c
  <2>4. q \in Readers /\ q.cache = c /\ q.src = r.src /\ q.nbytes = r.nbytes + n
    BY <2>1, <2>3, AdvanceIs
  <2> HIDE DEF q
  <2>5. u.unary = upto /\ u.r = q
    BY <2>2
  <2>6. q.nbytes \in r.nbytes..(r.nbytes + K)
    BY <1>1, <1>3, <2>4
  <2> QED
    BY <2>1, <2>3, <2>4, <2>5, <2>6 DEF u
<1> QED
  BY <1>8, <1>9

\* Bits picked from bytes are the bytes joined.
LEMMA BytesAreFlat ==
  ASSUME NEW bs \in Seq(Byte), NEW n \in Nat, Len(bs) = n
  PROVE  [i \in 1..(8 * n) |-> bs[(i + 7) \div 8][((i - 1) % 8) + 1]] = FlattenSeq(bs)
<1> DEFINE f == [i \in 1..(8 * n) |-> bs[(i + 7) \div 8][((i - 1) % 8) + 1]]
           g == FlattenSeq(bs)
<1>1. /\ g \in Seq(Bit) /\ Len(g) = 8 * n
      /\ \A j \in 1..n, i \in 1..8 : g[8 * (j - 1) + i] = bs[j][i]
  BY BytesFlat
<1>2. ASSUME NEW p \in 1..(8 * n)
      PROVE  /\ (p + 7) \div 8 \in 1..n /\ ((p - 1) % 8) + 1 \in 1..8
             /\ p = 8 * ((p + 7) \div 8 - 1) + (((p - 1) % 8) + 1)
  <2>1. PICK j \in 1..n, i \in 1..8 : p = 8 * (j - 1) + i
    BY Place
  <2>2. /\ p + 7 = 8 * j + (i - 1) /\ p - 1 = 8 * (j - 1) + (i - 1)
        /\ 8 \in Nat \ {0} /\ p + 7 \in Int /\ p - 1 \in Int /\ j \in Int /\ j - 1 \in Int
        /\ i - 1 \in 0..(8 - 1)
    BY <2>1
  <2>3. (p + 7) \div 8 = j
    BY <2>2, IntDivUnique
  <2>4. (p - 1) % 8 = i - 1
    BY <2>2, IntDivUnique
  <2>5. (i - 1) + 1 = i
    OBVIOUS
  <2> QED
    BY <2>1, <2>3, <2>4, <2>5
<1>3. ASSUME NEW p \in 1..(8 * n) PROVE f[p] = g[p]
  <2> DEFINE j == (p + 7) \div 8
             i == ((p - 1) % 8) + 1
  <2>1. j \in 1..n /\ i \in 1..8 /\ p = 8 * (j - 1) + i
    BY <1>2
  <2>2. f[p] = bs[j][i]
    OBVIOUS
  <2> HIDE DEF f, g, i, j
  <2>3. g[8 * (j - 1) + i] = bs[j][i]
    BY <1>1, <2>1
  <2> QED
    BY <2>1, <2>2, <2>3
<1>4. DOMAIN g = 1..(8 * n) /\ g = [p \in 1..(8 * n) |-> g[p]]
  <2> HIDE DEF g
  <2>1. g \in [1..Len(g) -> Bit]
    BY <1>1, LenProperties
  <2> QED
    BY <1>1, <2>1
<1>5. f = [p \in 1..(8 * n) |-> f[p]]
  OBVIOUS
<1> HIDE DEF f, g
<1>6. f = g
  BY <1>3, <1>4, <1>5
<1> QED
  BY <1>6 DEF f, g

\* The bytes a binary code needs.
Lacking(r, bin_k) == bin_k - Len(r.cache)
BinaryBytes(r, bin_k) == IF Lacking(r, bin_k) > 0 THEN (Lacking(r, bin_k) + 7) \div 8 ELSE 0

\* No more bytes are read for the binary part than it lacks bits.
LEMMA BinaryBytesIs ==
  ASSUME NEW r \in Readers, NEW bin_k \in Nat
  PROVE  LET n == BinaryBytes(r, bin_k)
             d == Lacking(r, bin_k)
         IN  /\ n \in Nat /\ d \in Int /\ d = bin_k - Len(r.cache)
             /\ d <= 0 => n = 0
             /\ d > 0 => d <= 8 * n /\ 8 * n <= d + 7
<1> DEFINE n == BinaryBytes(r, bin_k)
           d == Lacking(r, bin_k)
<1>1. d \in Int /\ d = bin_k - Len(r.cache)
  BY ReaderIs DEF Lacking
<1>2. n = IF d > 0 THEN (d + 7) \div 8 ELSE 0
  BY DEF BinaryBytes
<1> HIDE DEF n, d
<1>3. CASE d > 0
  <2>1. d + 7 \in Int /\ d + 7 \in Nat /\ 8 \in Nat \ {0}
    BY <1>1, <1>3
  <2>2. /\ (d + 7) \div 8 \in Int /\ (d + 7) % 8 \in 0..(8 - 1)
        /\ d + 7 = 8 * ((d + 7) \div 8) + ((d + 7) % 8)
    BY <2>1, IntDivMod
  <2>3. n \in Int /\ \E m \in 0..7 : d + 7 = 8 * n + m
    BY <1>2, <1>3, <2>2
  <2>4. PICK m \in 0..7 : d + 7 = 8 * n + m
    BY <2>3
  <2>4a. d \in Int /\ d > 0 /\ n \in Int /\ d = bin_k - Len(r.cache)
    BY <1>1, <1>3, <2>3
  <2>5. n \in Nat /\ d <= 8 * n /\ 8 * n <= d + 7
    <3>1. d \in Int /\ d > 0 /\ n \in Int
      BY <2>4a
    <3> QED
      BY <2>4, <3>1
  <2>6. n \in Nat /\ d \in Int /\ d = bin_k - Len(r.cache) /\ ~(d <= 0)
        /\ d <= 8 * n /\ 8 * n <= d + 7
    <3>1. d \in Int /\ d > 0
      BY <2>4a
    <3>2. ~(d <= 0)
      BY <3>1
    <3> QED
      BY <2>4a, <2>5, <3>2
  <2> QED
    BY <2>6 DEF n, d
<1>4. CASE ~(d > 0)
  <2>1. n \in Nat /\ d \in Int /\ d = bin_k - Len(r.cache) /\ n = 0 /\ ~(d > 0)
    BY <1>1, <1>2, <1>4
  <2> QED
    BY <2>1 DEF n, d
<1> QED
  BY <1>3, <1>4

\* Reading the binary part.
LEMMA BinaryIs ==
  ASSUME NEW r \in Readers, NEW bin_k \in Nat
  PROVE  LET n    == BinaryBytes(r, bin_k)
             flat == Gathered(r, n)
         IN  rice24_read_binary(r, bin_k)
               = [binary |-> NumberOf(SubSeq(flat, 1, bin_k)),
                  r      |-> Advance(r, n, SubSeq(flat, bin_k + 1, Len(flat)))]
<1> DEFINE n == BinaryBytes(r, bin_k)
           b == NextBytes(r, n)
           flat == r.cache \o [i \in 1..(8 * n) |-> b[(i + 7) \div 8][((i - 1) % 8) + 1]]
<1>1. n \in Nat
  BY BinaryBytesIs
<1>2. b \in Seq(Byte) /\ Len(b) = n
  BY <1>1, NextBytesType
<1>3. rice24_read_binary(r, bin_k)
        = [binary |-> NumberOf(SubSeq(flat, 1, bin_k)),
           r      |-> Advance(r, n, SubSeq(flat, bin_k + 1, Len(flat)))]
  BY DEF rice24_read_binary, BinaryBytes, Lacking
<1>4. flat = Gathered(r, n)
  <2> HIDE DEF b, n
  <2>1. [i \in 1..(8 * n) |-> b[(i + 7) \div 8][((i - 1) % 8) + 1]] = FlattenSeq(b)
    BY <1>1, <1>2, BytesAreFlat
  <2> QED
    BY <2>1 DEF Gathered, b
<1> QED
  BY <1>3, <1>4

\* What is read of a binary code, whatever the bytes are.
LEMMA BinaryRead ==
  ASSUME NEW r \in Readers, Len(r.cache) <= 7, NEW bin_k \in 0..KMax
  PROVE  LET b == rice24_read_binary(r, bin_k)
             n == BinaryBytes(r, bin_k)
         IN  /\ b.binary \in 0..(2^bin_k - 1)
             /\ b.r \in Readers /\ b.r.src = r.src /\ Len(b.r.cache) <= 7
             /\ b.r.nbytes \in r.nbytes..(r.nbytes + 3)
             /\ b.r.nbytes = r.nbytes + n
             /\ \E taken \in Seq(Bit) :
                  /\ Len(taken) = bin_k /\ b.binary = NumberOf(taken)
                  /\ Gathered(r, n) = taken \o b.r.cache
<1> DEFINE n == BinaryBytes(r, bin_k)
           d == Lacking(r, bin_k)
           flat == Gathered(r, n)
           taken == SubSeq(flat, 1, bin_k)
           c == SubSeq(flat, bin_k + 1, Len(flat))
           l == Len(r.cache)
           q == Advance(r, n, c)
           b == rice24_read_binary(r, bin_k)
<1>1. bin_k \in Nat /\ bin_k <= 24
  BY WordAssumption
<1>2. r.cache \in Seq(Bit) /\ l \in Nat /\ r.nbytes \in Nat /\ l <= 7
  BY ReaderIs
<1>3. /\ n \in Nat /\ d \in Int /\ d = bin_k - l
      /\ d <= 0 => n = 0
      /\ d > 0 => d <= 8 * n /\ 8 * n <= d + 7
  BY <1>1, BinaryBytesIs
<1>4. b = [binary |-> NumberOf(taken), r |-> q]
  BY <1>1, BinaryIs
<1>5. flat \in Seq(Bit) /\ Len(flat) = l + 8 * n
  BY <1>3, GatheredType
<1> HIDE DEF b, n, d, flat
<1>6. bin_k \in 0..Len(flat)
  <2> HIDE DEF l
  <2>1. bin_k <= l + 8 * n
    BY <1>1, <1>2, <1>3
  <2> QED
    BY <1>1, <1>2, <1>3, <1>5, <2>1
<1>7. /\ taken \in Seq(Bit) /\ Len(taken) = bin_k
      /\ c \in Seq(Bit) /\ Len(c) = Len(flat) - bin_k
      /\ flat = taken \o c
  BY <1>5, <1>6, Cut
<1> HIDE DEF taken, c
<1>8. q \in Readers /\ q.cache = c /\ q.src = r.src /\ q.nbytes = r.nbytes + n
  BY <1>3, <1>7, AdvanceIs
<1> HIDE DEF q
<1>9. b.binary = NumberOf(taken) /\ b.r = q
  BY <1>4
<1>10. NumberOf(taken) \in 0..(2^bin_k - 1)
  BY <1>7, NumberBound
<1>11. Len(c) <= 7 /\ n <= 3
  <2> DEFINE lc == Len(c)
             lf == Len(flat)
  <2>1. lf = l + 8 * n /\ lc = lf - bin_k
    BY <1>5, <1>7
  <2> HIDE DEF l, lc, lf
  <2>2. lc <= 7 /\ n <= 3
    BY <1>1, <1>2, <1>3, <2>1
  <2> QED
    BY <2>2 DEF lc
<1>12. q.nbytes \in r.nbytes..(r.nbytes + 3)
  BY <1>2, <1>3, <1>8, <1>11
<1>13. /\ b.binary \in 0..(2^bin_k - 1)
       /\ b.r \in Readers /\ b.r.src = r.src /\ Len(b.r.cache) <= 7
       /\ b.r.nbytes \in r.nbytes..(r.nbytes + 3) /\ b.r.nbytes = r.nbytes + n
  BY <1>8, <1>9, <1>10, <1>11, <1>12
<1>14. Len(taken) = bin_k /\ b.binary = NumberOf(taken) /\ flat = taken \o b.r.cache
  BY <1>7, <1>8, <1>9
<1>15. \E t \in Seq(Bit) : Len(t) = bin_k /\ b.binary = NumberOf(t) /\ flat = t \o b.r.cache
  BY <1>7, <1>14
<1> QED
  BY <1>13, <1>15 DEF b, n, flat

\* A binary code that is pending is read.
LEMMA BinaryBack ==
  ASSUME NEW r \in Readers, Len(r.cache) <= 7, r.nbytes <= Len(r.src), NEW bin_k \in 0..KMax,
         NEW bits \in Seq(Bit), NEW t \in Seq(Bit), Len(bits) = bin_k,
         Pending(r) = bits \o t
  PROVE  LET b == rice24_read_binary(r, bin_k)
         IN  /\ b.binary = NumberOf(bits) /\ Pending(b.r) = t
             /\ b.r.nbytes <= Len(b.r.src)
<1> DEFINE b == rice24_read_binary(r, bin_k)
           n == BinaryBytes(r, bin_k)
           d == Lacking(r, bin_k)
           l == Len(r.cache)
           m == Len(r.src)
<1>1. bin_k \in Nat
  BY WordAssumption
<1>2. r.src \in Seq(Byte) /\ l \in Nat /\ r.nbytes \in Nat /\ m \in Nat /\ r.nbytes <= m
  BY ReaderIs, LenProperties
<1>3. /\ n \in Nat /\ d \in Int /\ d = bin_k - l
      /\ d <= 0 => n = 0
      /\ d > 0 => d <= 8 * n /\ 8 * n <= d + 7
  BY <1>1, BinaryBytesIs
<1>4. /\ b.r \in Readers /\ b.r.src = r.src /\ b.r.nbytes = r.nbytes + n
      /\ \E taken \in Seq(Bit) :
           /\ Len(taken) = bin_k /\ b.binary = NumberOf(taken)
           /\ Gathered(r, n) = taken \o b.r.cache
  BY BinaryRead
<1> HIDE DEF b, n, d
<1>5. PICK taken \in Seq(Bit) :
           /\ Len(taken) = bin_k /\ b.binary = NumberOf(taken)
           /\ Gathered(r, n) = taken \o b.r.cache
  BY <1>4
<1>6. l + 8 * (m - r.nbytes) = bin_k + Len(t) /\ Len(t) \in Nat
  <2>1. Len(Pending(r)) = l + 8 * (m - r.nbytes)
    BY PendingType
  <2>2. Len(bits \o t) = Len(bits) + Len(t) /\ Len(t) \in Nat
    BY ConcatProperties, LenProperties
  <2> QED
    BY <2>1, <2>2
<1>7. r.nbytes + n <= m
  <2> DEFINE k == r.nbytes
             lt == Len(t)
  <2> HIDE DEF l, m, k, lt
  <2>1. l + 8 * (m - k) = bin_k + lt /\ lt \in Nat /\ l \in Nat /\ k \in Nat /\ m \in Nat /\ k <= m
    BY <1>2, <1>6 DEF k, lt
  <2>2. k + n <= m
    BY <1>1, <1>3, <2>1
  <2> QED
    BY <2>2 DEF k
<1>8. Pending(r) = taken \o Pending(b.r)
  BY <1>3, <1>4, <1>5, <1>7, MovePending
<1>9. b.r.nbytes <= Len(b.r.src)
  BY <1>4, <1>7
<1>10. Pending(b.r) \in Seq(Bit)
  BY <1>4, <1>9, PendingType
<1>11. bits = taken /\ t = Pending(b.r)
  BY <1>5, <1>8, <1>10, SameHalves
<1> QED
  BY <1>5, <1>9, <1>11 DEF b

\* No bytes gathered leave the cache.
LEMMA GatheredNone ==
  ASSUME NEW r \in Readers
  PROVE  Gathered(r, 0) = r.cache
<1> DEFINE g == Gathered(r, 0)
           c == r.cache
<1>1. c \in Seq(Bit) /\ Len(c) \in Nat
  BY ReaderIs
<1>2. g \in Seq(Bit) /\ Len(g) = Len(c) + 8 * 0 /\ \A i \in 1..Len(c) : g[i] = c[i]
  BY GatheredType
<1> HIDE DEF g, c
<1>3. Len(g) = Len(c)
  BY <1>1, <1>2
<1>4. g = c
  BY <1>1, <1>2, <1>3, SeqEqual
<1> QED
  BY <1>4 DEF g, c

RunBits(p, un) == p[un + 1] = 0 /\ \A i \in 1..un : p[i] = 1

\* The bits of a run of ones, and of the zero behind it.
LEMMA RunIs ==
  ASSUME NEW un \in Nat, NEW t \in Seq(Bit), NEW p, p = Ones(un) \o (<< 0 >> \o t)
  PROVE  /\ p \in Seq(Bit) /\ Len(p) = un + 1 + Len(t)
         /\ RunBits(p, un)
         /\ Ones(un) \o << 0 >> \in Seq(Bit) /\ Len(Ones(un) \o << 0 >>) = un + 1
         /\ p = (Ones(un) \o << 0 >>) \o t
<1> DEFINE o == Ones(un)
           z == << 0 >>
           h == o \o z
           l == Len(t)
<1>1. o \in Seq(Bit) /\ Len(o) = un /\ (\A i \in 1..un : o[i] = 1) /\ z \in Seq(Bit) /\ Len(z) = 1
      /\ z[1] = 0 /\ l \in Nat
  BY OnesAndZeros, ZeroBit, LenProperties
<1> HIDE DEF o, z, l
<1>2. /\ h \in Seq(Bit) /\ Len(h) = un + 1
      /\ \A i \in 1..(un + 1) : h[i] = IF i <= un THEN o[i] ELSE z[i - un]
  <2>1. o \in Seq(Bit) /\ z \in Seq(Bit) /\ Len(o) = un /\ Len(z) = 1
    BY <1>1
  <2> DEFINE a == Len(o)
             e == Len(z)
             y == o \o z
  <2>2. /\ y \in Seq(Bit) /\ Len(y) = a + e
        /\ \A i \in 1..(a + e) : y[i] = IF i <= a THEN o[i] ELSE z[i - a]
    BY <2>1, ConcatProperties
  <2>3. a = un /\ e = 1
    BY <2>1
  <2> HIDE DEF a, e, y
  <2>4. /\ y \in Seq(Bit) /\ Len(y) = un + 1
        /\ \A i \in 1..(un + 1) : y[i] = IF i <= un THEN o[i] ELSE z[i - un]
    BY <2>2, <2>3
  <2> QED
    BY <2>4 DEF y
<1>3. (\A i \in 1..un : h[i] = 1) /\ h[un + 1] = 0
  <2>1. ASSUME NEW i \in 1..un PROVE h[i] = 1
    BY <1>1, <1>2
  <2>2. un + 1 \in 1..(un + 1) /\ ~(un + 1 <= un) /\ un + 1 - un = 1
    OBVIOUS
  <2>3. h[un + 1] = z[1]
    BY <1>2, <2>2
  <2> QED
    BY <1>1, <2>1, <2>3
<1>4. (o \o z) \o t = o \o (z \o t)
  BY <1>1, BitsConcat
<1>5. p = h \o t
  BY <1>4 DEF o, z
<1> HIDE DEF h
<1>6. /\ h \o t \in Seq(Bit) /\ Len(h \o t) = (un + 1) + l
      /\ \A i \in 1..((un + 1) + l) : (h \o t)[i] = IF i <= un + 1 THEN h[i] ELSE t[i - (un + 1)]
  <2> DEFINE e == un + 1
  <2>1. Len(t) = l /\ Len(h) = e /\ h \in Seq(Bit)
    BY <1>2 DEF l
  <2> HIDE DEF e
  <2>2. /\ h \o t \in Seq(Bit) /\ Len(h \o t) = e + l
        /\ \A i \in 1..(e + l) : (h \o t)[i] = IF i <= e THEN h[i] ELSE t[i - e]
    BY <2>1, ConcatIs
  <2> QED
    BY <2>2 DEF e
<1>7. \A i \in 1..(un + 1) : p[i] = h[i]
  <2>1. \A i \in 1..(un + 1) : i \in 1..((un + 1) + l) /\ i <= un + 1
    BY <1>1
  <2> QED
    BY <1>5, <1>6, <2>1
<1>8. p \in Seq(Bit) /\ Len(p) = un + 1 + l
  BY <1>5, <1>6
<1>9. (\A i \in 1..un : p[i] = 1) /\ p[un + 1] = 0
  <2>1. \A i \in 1..un : i \in 1..(un + 1)
    OBVIOUS
  <2>2. un + 1 \in 1..(un + 1)
    OBVIOUS
  <2> QED
    BY <1>3, <1>7, <2>1, <2>2
<1> QED
  BY <1>2, <1>5, <1>8, <1>9 DEF h, o, z, l, RunBits

\* The elements of the first of two sequences.
LEMMA FirstPart ==
  ASSUME NEW S, NEW s \in Seq(S), NEW t \in Seq(S)
  PROVE  \A i \in 1..Len(s) : (s \o t)[i] = s[i]
<1> DEFINE m == Len(s)
           n == Len(t)
<1>1. m \in Nat /\ n \in Nat /\ Len(s) = m /\ Len(t) = n
  BY LenProperties
<1> HIDE DEF m, n
<1>2. \A i \in 1..(m + n) : (s \o t)[i] = IF i <= m THEN s[i] ELSE t[i - m]
  BY <1>1, ConcatIs
<1>3. ASSUME NEW i \in 1..m PROVE (s \o t)[i] = s[i]
  <2>1. i \in 1..(m + n) /\ i <= m
    BY <1>1
  <2> QED
    BY <1>2, <2>1
<1> QED
  BY <1>3 DEF m

\* The run of un ones is read, and t is what follows.
UnaryFinds(r, lax, un, t) ==
  LET u == rice24_read_unary(r, lax)
  IN  u.unary = un /\ Pending(u.r) = t /\ u.r.nbytes <= Len(u.r.src)

\* A run that ends in the cache.
LEMMA UnaryInCache ==
  ASSUME NEW r \in Readers, r.nbytes <= Len(r.src),
         NEW lax, NEW un \in Nat, un < Len(r.cache),
         NEW t \in Seq(Bit), Pending(r) = Ones(un) \o (<< 0 >> \o t)
  PROVE  UnaryFinds(r, lax, un, t)
<1> DEFINE l == Len(r.cache)
           p == Pending(r)
           g == r.cache
           c == SubSeq(g, un + 2, l)
           q == [r EXCEPT !.cache = c]
           taken == SubSeq(g, 1, un + 1)
           u == rice24_read_unary(r, lax)
<1>1. g \in Seq(Bit) /\ l \in Nat /\ r.nbytes \in Nat /\ r.src \in Seq(Byte)
  BY ReaderIs
<1>2. /\ \A i \in 1..un : p[i] = 1
      /\ p[un + 1] = 0
      /\ Ones(un) \o << 0 >> \in Seq(Bit) /\ Len(Ones(un) \o << 0 >>) = un + 1
      /\ p = (Ones(un) \o << 0 >>) \o t
  BY RunIs DEF RunBits
<1>3. \A i \in 1..l : p[i] = g[i]
  <2> DEFINE rest == FlattenSeq(SubSeq(r.src, r.nbytes + 1, Len(r.src)))
  <2>1. rest \in Seq(Bit)
    BY PendingType, BytesFlat
  <2>2. p = g \o rest
    BY DEF Pending
  <2> HIDE DEF rest, p, g
  <2> QED
    BY <1>1, <2>1, <2>2, FirstPart DEF g
<1>4. TBCNT(g) = un
  <2>1. \A i \in 1..un : i \in 1..l
    BY <1>1
  <2>2. un + 1 \in 1..l /\ un \in 0..l
    BY <1>1
  <2> HIDE DEF p
  <2>3. (\A i \in 1..un : g[i] = 1) /\ g[un + 1] = 0
    BY <1>2, <1>3, <2>1, <2>2
  <2> QED
    BY <1>1, <2>2, <2>3, TBCNTUnique
<1>5. u = [unary |-> un, r |-> q]
  BY <1>4, UnaryIs
<1>6. /\ taken \in Seq(Bit) /\ Len(taken) = un + 1 /\ c \in Seq(Bit) /\ g = taken \o c
  <2>1. un + 1 \in 0..Len(g) /\ (un + 1) + 1 = un + 2
    BY <1>1
  <2>2. /\ SubSeq(g, 1, un + 1) \in Seq(Bit) /\ Len(SubSeq(g, 1, un + 1)) = un + 1
        /\ SubSeq(g, (un + 1) + 1, Len(g)) \in Seq(Bit)
        /\ g = SubSeq(g, 1, un + 1) \o SubSeq(g, (un + 1) + 1, Len(g))
    BY <1>1, <2>1, Cut
  <2> QED
    BY <2>1, <2>2
<1> HIDE DEF u, c, taken
<1>7. q \in Readers /\ q.cache = c /\ q.src = r.src /\ q.nbytes = r.nbytes + 0
  BY <1>6, RecacheIs
<1> HIDE DEF q
<1>8. p = taken \o Pending(q)
  <2>1. r.nbytes + 0 <= Len(r.src) /\ 0 \in Nat
    BY <1>1
  <2>2. Gathered(r, 0) = taken \o q.cache
    BY <1>6, <1>7, GatheredNone
  <2> QED
    BY <1>6, <1>7, <2>1, <2>2, MovePending
<1>9. q.nbytes <= Len(q.src)
  BY <1>1, <1>7
<1>10. Pending(q) \in Seq(Bit)
  BY <1>7, <1>9, PendingType
<1>11. Pending(q) = t
  <2> HIDE DEF p
  <2> QED
    BY <1>2, <1>6, <1>8, <1>10, SameHalves
<1>12. u.unary = un /\ u.r = q
  BY <1>5
<1> QED
  BY <1>9, <1>11, <1>12 DEF u, UnaryFinds

RunIn(r, lax, un, q, m) ==
  /\ un = Len(r.cache) + 8 * q + m
  /\ r.nbytes + (q + 1) <= Len(r.src)
  /\ TBCNT(r.cache) = Len(r.cache)
  /\ TBCNT(ByteAt(r.src, r.nbytes + (q + 1))) = m
  /\ UnaryByte(r, lax) = q + 1

\* Where a run ends that leaves the cache.
LEMMA RunEnds ==
  ASSUME NEW r \in Readers, r.nbytes <= Len(r.src),
         NEW K \in Nat \ {0}, NEW lax, lax = 8 * K - 1, NEW un \in Nat, un <= lax,
         ~(un < Len(r.cache)),
         NEW t \in Seq(Bit), Pending(r) = Ones(un) \o (<< 0 >> \o t)
  PROVE  \E q \in Nat, m \in 0..7 : RunIn(r, lax, un, q, m)
<1> DEFINE l == Len(r.cache)
           k == r.nbytes
           b == Len(r.src)
           p == Pending(r)
           ones(j) == TBCNT(ByteAt(r.src, r.nbytes + j))
<1>1. r.cache \in Seq(Bit) /\ l \in Nat /\ k \in Nat /\ b \in Nat /\ k <= b /\ r.src \in Seq(Byte)
  BY ReaderIs, LenProperties
<1>2. PICK q \in Nat, m \in 0..7 : un - l = 8 * q + m
  <2> DEFINE d == un - l
  <2>1. d \in Nat /\ d \in Int /\ 8 \in Nat \ {0}
    BY <1>1
  <2> HIDE DEF d
  <2>2. d \div 8 \in Int /\ (d % 8) \in 0..(8 - 1) /\ d = 8 * (d \div 8) + (d % 8)
    BY <2>1, IntDivMod
  <2>3. d \div 8 \in Nat
    BY <2>1
  <2>4. \E q \in Nat, m \in 0..7 : d = 8 * q + m
    <3> DEFINE s == d \div 8
               r1 == d % 8
    <3>1. s \in Nat /\ r1 \in 0..7 /\ d = 8 * s + r1
      BY <2>2, <2>3
    <3> HIDE DEF s, r1
    <3> QED
      BY <3>1, Zenon
  <2> QED
    BY <2>4 DEF d
<1>3. /\ p \in Seq(Bit) /\ Len(p) = un + 1 + Len(t) /\ Len(t) \in Nat
      /\ \A i \in 1..un : p[i] = 1
      /\ p[un + 1] = 0
  <2>1. Len(t) \in Nat
    BY LenProperties
  <2>2. p = Ones(un) \o (<< 0 >> \o t)
    OBVIOUS
  <2>3. RunBits(p, un)
    BY RunIs
  <2>4. p \in Seq(Bit)
    BY RunIs
  <2>5. Len(p) = un + 1 + Len(t)
    BY RunIs
  <2> QED
    BY <2>1, <2>3, <2>4, <2>5 DEF RunBits
<1>4. Len(p) = l + 8 * (b - k)
  BY PendingType
<1>5. un = l + 8 * q + m
  <2> HIDE DEF l
  <2> QED
    BY <1>1, <1>2
<1>6. k + (q + 1) <= b
  <2> DEFINE lt == Len(t)
  <2>1. un + 1 + lt = l + 8 * (b - k) /\ lt \in Nat
    BY <1>3, <1>4
  <2> HIDE DEF l, b, k, lt
  <2> QED
    BY <1>1, <1>5, <2>1
<1> DEFINE n == q + 1
           g == Gathered(r, n)
<1>7. /\ g \in Seq(Bit) /\ Len(g) = l + 8 * n
      /\ \A i \in 1..l : g[i] = r.cache[i]
      /\ \A j \in 1..n, i \in 1..8 : g[l + 8 * (j - 1) + i] = ByteAt(r.src, k + j)[i]
  <2>1. n \in Nat
    OBVIOUS
  <2> QED
    BY <2>1, GatheredType
<1>8. \A i \in 1..(l + 8 * n) : p[i] = g[i]
  <2> DEFINE rest == FlattenSeq(SubSeq(r.src, r.nbytes + n + 1, Len(r.src)))
  <2>1. n \in Nat /\ r.nbytes + n <= Len(r.src)
    BY <1>6
  <2>2. rest \in Seq(Bit) /\ p = g \o rest
    BY <2>1, PendingIs
  <2> HIDE DEF rest, p, g
  <2>3. \A i \in 1..Len(g) : (g \o rest)[i] = g[i]
    BY <1>7, <2>2, FirstPart
  <2> QED
    BY <1>7, <2>2, <2>3
<1> HIDE DEF g, p
<1>9. TBCNT(r.cache) = l
  <2>1. ASSUME NEW i \in 1..l PROVE r.cache[i] = 1
    <3>1. i \in 1..un /\ i \in 1..(l + 8 * n)
      <4> HIDE DEF l
      <4> QED
        BY <1>1, <1>5
    <3> QED
      BY <1>3, <1>7, <1>8, <3>1
  <2>2. l \in 0..Len(r.cache) /\ ~(l < Len(r.cache))
    BY <1>1
  <2> QED
    BY <1>1, <2>1, <2>2, TBCNTUnique
<1>10. ASSUME NEW j \in 1..n, NEW i \in 1..8
       PROVE  /\ l + 8 * (j - 1) + i < un + 1 => ByteAt(r.src, k + j)[i] = 1
              /\ l + 8 * (j - 1) + i = un + 1 => ByteAt(r.src, k + j)[i] = 0
  <2> DEFINE x == l + 8 * (j - 1) + i
  <2>1. x \in 1..(l + 8 * n) /\ (x < un + 1 => x \in 1..un)
    <3> HIDE DEF l
    <3> QED
      BY <1>1
  <2>2. g[x] = ByteAt(r.src, k + j)[i]
    BY <1>7
  <2> HIDE DEF x
  <2>3. (x < un + 1 => g[x] = 1) /\ (x = un + 1 => g[x] = 0)
    BY <1>3, <1>8, <2>1
  <2> QED
    BY <2>2, <2>3 DEF x
<1>11. ASSUME NEW j \in 1..n PROVE ByteAt(r.src, k + j) \in Seq(Bit) /\ Len(ByteAt(r.src, k + j)) = 8
  <2>1. ByteAt(r.src, k + j) \in Byte
    BY ByteOnes
  <2> QED
    BY <2>1, ByteIs
<1>12. ASSUME NEW j \in 1..q PROVE TBCNT(ByteAt(r.src, k + j)) = 8
  <2> DEFINE x == ByteAt(r.src, k + j)
  <2>1. j \in 1..n
    OBVIOUS
  <2>2. x \in Seq(Bit) /\ Len(x) = 8
    BY <1>11, <2>1
  <2>3. ASSUME NEW i \in 1..8 PROVE x[i] = 1
    <3>1. l + 8 * (j - 1) + i < un + 1
      <4> HIDE DEF l
      <4> QED
        BY <1>1, <1>5
    <3> QED
      BY <1>10, <2>1, <3>1
  <2> HIDE DEF x
  <2>4. 8 \in 0..Len(x) /\ ~(8 < Len(x))
    <3>1. Len(x) = 8
      BY <2>2
    <3> QED
      BY <3>1
  <2>5. TBCNT(x) = 8
    BY <2>2, <2>3, <2>4, TBCNTUnique
  <2> QED
    BY <2>5 DEF x
<1>13. TBCNT(ByteAt(r.src, k + n)) = m
  <2> DEFINE x == ByteAt(r.src, k + n)
  <2>1. n \in 1..n
    OBVIOUS
  <2>2. x \in Seq(Bit) /\ Len(x) = 8
    BY <1>11, <2>1
  <2>3. ASSUME NEW i \in 1..m PROVE x[i] = 1
    <3>1. l + 8 * (n - 1) + i < un + 1 /\ i \in 1..8
      <4> HIDE DEF l
      <4> QED
        BY <1>1, <1>5
    <3> QED
      BY <1>10, <2>1, <3>1
  <2>4. x[m + 1] = 0
    <3>1. l + 8 * (n - 1) + (m + 1) = un + 1 /\ m + 1 \in 1..8
      <4> HIDE DEF l
      <4> QED
        BY <1>1, <1>5
    <3> QED
      BY <1>10, <2>1, <3>1
  <2> HIDE DEF x
  <2>5. m \in 0..Len(x)
    <3>1. Len(x) = 8
      BY <2>2
    <3> QED
      BY <3>1
  <2>6. TBCNT(x) = m
    BY <2>2, <2>3, <2>4, <2>5, TBCNTUnique
  <2> QED
    BY <2>6 DEF x
<1>14. UnaryByte(r, lax) = n
  <2> DEFINE e == UnaryByte(r, lax)
  <2>1. e \in 1..K /\ UnaryEnds(r, lax, e) /\ \A j \in 1..K : UnaryEnds(r, lax, j) => e <= j
    BY UnaryByteIs
  <2>2. n \in 1..K
    <3> HIDE DEF l
    <3> QED
      BY <1>1, <1>5
  <2>3. UnaryEnds(r, lax, n)
    <3>1. TBCNT(ByteAt(r.src, k + n)) < 8
      BY <1>13
    <3> QED
      BY <3>1 DEF UnaryEnds
  <2>4. ASSUME NEW j \in 1..q PROVE ~UnaryEnds(r, lax, j)
    <3>1. TBCNT(ByteAt(r.src, k + j)) = 8
      BY <1>12
    <3>2. ~(8 < 8) /\ ~(l + 8 * (j - 1) + 8 > lax)
      <4> HIDE DEF l
      <4>1. l + 8 * (j - 1) + 8 <= un /\ lax \in Nat
        BY <1>1, <1>5
      <4> QED
        BY <1>1, <4>1
    <3> QED
      BY <1>9, <3>1, <3>2 DEF UnaryEnds
  <2> HIDE DEF e
  <2>5. e <= n
    BY <2>1, <2>2, <2>3
  <2>6. ~(e \in 1..q)
    BY <2>1, <2>4
  <2>7. e = n
    BY <2>1, <2>5, <2>6
  <2> QED
    BY <2>7 DEF e
<1>15. RunIn(r, lax, un, q, m)
  BY <1>5, <1>6, <1>9, <1>13, <1>14 DEF RunIn
<1> QED
  BY <1>15

\* A run that leaves the cache.
LEMMA UnaryBeyond ==
  ASSUME NEW r \in Readers, r.nbytes <= Len(r.src),
         NEW K \in Nat \ {0}, NEW lax, lax = 8 * K - 1, NEW un \in Nat, un <= lax,
         ~(un < Len(r.cache)),
         NEW t \in Seq(Bit), Pending(r) = Ones(un) \o (<< 0 >> \o t)
  PROVE  UnaryFinds(r, lax, un, t)
<1> DEFINE l == Len(r.cache)
           u == rice24_read_unary(r, lax)
           p == Pending(r)
<1>1. r.cache \in Seq(Bit) /\ l \in Nat /\ r.nbytes \in Nat /\ r.src \in Seq(Byte)
  BY ReaderIs
<1>1a. PICK j \in Nat, m \in 0..7 : RunIn(r, lax, un, j, m)
  BY RunEnds
<1>2.      /\ un = l + 8 * j + m
           /\ r.nbytes + (j + 1) <= Len(r.src)
           /\ TBCNT(r.cache) = l
           /\ TBCNT(ByteAt(r.src, r.nbytes + (j + 1))) = m
           /\ UnaryByte(r, lax) = j + 1
  BY <1>1a DEF RunIn
<1> DEFINE n == j + 1
           last == ByteAt(r.src, r.nbytes + n)
           c == SubSeq(last, m + 2, 8)
           q == Advance(r, n, c)
           g == Gathered(r, n)
           taken == SubSeq(g, 1, un + 1)
           c2 == SubSeq(g, un + 2, Len(g))
<1>3. u = [unary |-> un, r |-> q]
  <2> DEFINE first == TBCNT(r.cache)
             n2    == UnaryByte(r, lax)
             last2 == ByteAt(r.src, r.nbytes + n2)
             upto  == first + 8 * (n2 - 1) + TBCNT(last2)
             nbits == IF upto > lax THEN 0 ELSE TBCNT(last2)
  <2>1. u = IF first < l
              THEN [unary |-> first, r |-> [r EXCEPT !.cache = SubSeq(r.cache, first + 2, l)]]
              ELSE [unary |-> upto, r |-> Advance(r, n2, SubSeq(last2, nbits + 2, 8))]
    BY UnaryIs
  <2>2. first = l /\ n2 = n /\ last2 = last /\ TBCNT(last2) = m
    BY <1>2
  <2>3. ~(l < l)
    BY <1>1
  <2>4. upto = un
    <3> HIDE DEF first, n2, last2, l
    <3>1. upto = l + 8 * (n - 1) + m
      BY <2>2
    <3> HIDE DEF upto
    <3> QED
      BY <1>1, <1>2, <3>1
  <2>5. lax \in Nat
    OBVIOUS
  <2>6. nbits = m
    <3> HIDE DEF upto, last2
    <3>1. ~(upto > lax)
      BY <2>4, <2>5
    <3> QED
      BY <2>2, <3>1
  <2> HIDE DEF u, first, n2, last2, upto, nbits, last, n, l
  <2> QED
    BY <2>1, <2>2, <2>3, <2>4, <2>6
<1>4. n \in Nat /\ n \in 1..n
  OBVIOUS
<1>5. /\ g \in Seq(Bit) /\ Len(g) = l + 8 * n
      /\ \A i \in 1..8 : g[l + 8 * (n - 1) + i] = last[i]
  BY <1>4, GatheredType
<1>6. last \in Seq(Bit) /\ Len(last) = 8
  BY <1>4, ByteOnes, ByteIs
<1>7. /\ taken \in Seq(Bit) /\ Len(taken) = un + 1
      /\ c2 \in Seq(Bit) /\ Len(c2) = 7 - m /\ g = taken \o c2
      /\ \A i \in 1..(7 - m) : c2[i] = g[un + 1 + i]
  <2>1. un + 1 \in 0..Len(g) /\ (un + 1) + 1 = un + 2 /\ Len(g) - (un + 1) = 7 - m /\ Len(g) \in Int
    <3> DEFINE lg == Len(g)
    <3>1. lg = l + 8 * n
      BY <1>5
    <3> HIDE DEF lg, l
    <3>2. un + 1 \in 0..lg /\ (un + 1) + 1 = un + 2 /\ lg - (un + 1) = 7 - m /\ lg \in Int
      BY <1>1, <1>2, <3>1
    <3> QED
      BY <3>2 DEF lg
  <2> HIDE DEF g
  <2>2. /\ SubSeq(g, 1, un + 1) \in Seq(Bit) /\ Len(SubSeq(g, 1, un + 1)) = un + 1
        /\ SubSeq(g, (un + 1) + 1, Len(g)) \in Seq(Bit)
        /\ Len(SubSeq(g, (un + 1) + 1, Len(g))) = Len(g) - (un + 1)
        /\ g = SubSeq(g, 1, un + 1) \o SubSeq(g, (un + 1) + 1, Len(g))
    BY <1>5, <2>1, Cut
  <2>3. \A i \in 1..(Len(g) - (un + 2) + 1) : c2[i] = g[(un + 2) + i - 1]
    <3> DEFINE lg == Len(g)
               a == un + 2
    <3>1. a \in Nat \ {0} /\ lg \in Int /\ lg <= Len(g) /\ g \in Seq(Bit)
      BY <1>5, <2>1
    <3> HIDE DEF lg, a
    <3>2. \A i \in 1..(lg - a + 1) : SubSeq(g, a, lg)[i] = g[a + i - 1]
      BY <3>1, SubSeqIs
    <3> QED
      BY <3>2 DEF lg, a
  <2>4. \A i \in 1..(7 - m) : i \in 1..(Len(g) - (un + 2) + 1) /\ (un + 2) + i - 1 = un + 1 + i
    <3> DEFINE lg == Len(g)
    <3>1. lg - (un + 1) = 7 - m /\ lg \in Int
      BY <2>1
    <3> HIDE DEF lg
    <3>2. \A i \in 1..(7 - m) : i \in 1..(lg - (un + 2) + 1) /\ (un + 2) + i - 1 = un + 1 + i
      BY <3>1
    <3> QED
      BY <3>2 DEF lg
  <2>5. \A i \in 1..(7 - m) : c2[i] = g[un + 1 + i]
    <3> HIDE DEF c2
    <3> QED
      BY <2>3, <2>4
  <2> QED
    BY <2>1, <2>2, <2>5
<1>8. c \in Seq(Bit) /\ Len(c) = 7 - m /\ \A i \in 1..(7 - m) : c[i] = last[m + 1 + i]
  <2> HIDE DEF last
  <2> DEFINE a == m + 2
  <2>1. a \in Nat \ {0} /\ 8 \in Int /\ 8 <= Len(last) /\ last \in Seq(Bit)
    BY <1>6
  <2> HIDE DEF a
  <2>1a. /\ SubSeq(last, a, 8) \in Seq(Bit)
         /\ Len(SubSeq(last, a, 8)) = IF a <= 8 THEN 8 - a + 1 ELSE 0
         /\ \A i \in 1..(8 - a + 1) : SubSeq(last, a, 8)[i] = last[a + i - 1]
    BY <2>1, SubSeqIs
  <2>2. /\ c \in Seq(Bit) /\ Len(c) = IF m + 2 <= 8 THEN 8 - (m + 2) + 1 ELSE 0
        /\ \A i \in 1..(8 - (m + 2) + 1) : c[i] = last[(m + 2) + i - 1]
    BY <2>1a DEF a
  <2> HIDE DEF c
  <2>3. (IF m + 2 <= 8 THEN 8 - (m + 2) + 1 ELSE 0) = 7 - m /\ 8 - (m + 2) + 1 = 7 - m
        /\ \A i \in 1..(7 - m) : (m + 2) + i - 1 = m + 1 + i
    OBVIOUS
  <2> QED
    BY <2>2, <2>3
<1>9. c = c2
  <2>1. ASSUME NEW i \in 1..(7 - m) PROVE c[i] = c2[i]
    <3>1. m + 1 + i \in 1..8 /\ l + 8 * (n - 1) + (m + 1 + i) = un + 1 + i
      <4> HIDE DEF l
      <4> QED
        BY <1>1, <1>2
    <3> HIDE DEF c, c2, g, last
    <3> QED
      BY <1>5, <1>7, <1>8, <3>1
  <2> HIDE DEF c, c2
  <2> QED
    BY <1>7, <1>8, <2>1, SeqEqual
<1> HIDE DEF c, c2, g, taken, last, u, p
<1>10. q \in Readers /\ q.cache = c /\ q.src = r.src /\ q.nbytes = r.nbytes + n
  BY <1>4, <1>8, AdvanceIs
<1>11. r.nbytes + n <= Len(r.src) /\ g = taken \o q.cache
  BY <1>2, <1>7, <1>9, <1>10
<1> HIDE DEF q
<1>12. p = taken \o Pending(q)
  BY <1>4, <1>7, <1>10, <1>11, MovePending DEF p, g
<1>13. q.nbytes <= Len(q.src)
  BY <1>10, <1>11
<1>14. Pending(q) \in Seq(Bit)
  BY <1>10, <1>13, PendingType
<1>15. /\ Ones(un) \o << 0 >> \in Seq(Bit) /\ Len(Ones(un) \o << 0 >>) = un + 1
       /\ p = (Ones(un) \o << 0 >>) \o t
  BY RunIs DEF p
<1>16. Pending(q) = t
  BY <1>7, <1>12, <1>14, <1>15, SameHalves
<1>17. u.unary = un /\ u.r = q
  BY <1>3
<1> QED
  BY <1>13, <1>16, <1>17 DEF u, UnaryFinds

\* A pending unary code is read, whatever is behind it.
LEMMA UnaryBack ==
  ASSUME NEW r \in Readers, r.nbytes <= Len(r.src),
         NEW K \in Nat \ {0}, NEW lax, lax = 8 * K - 1, NEW un \in Nat, un <= lax,
         NEW t \in Seq(Bit), Pending(r) = Ones(un) \o (<< 0 >> \o t)
  PROVE  UnaryFinds(r, lax, un, t)
<1>1. CASE un < Len(r.cache)
  BY <1>1, UnaryInCache
<1>2. CASE ~(un < Len(r.cache))
  BY <1>2, UnaryBeyond
<1> QED
  BY <1>1, <1>2

\* The limit the decoder sets on a unary code.
LEMMA LimitIs ==
  ASSUME NEW sb \in 1..3
  PROVE  /\ UnaryMaxBytes[sb] \in Nat \ {0}
         /\ UnaryMaxBytes[sb] + 2 \in Nat \ {0}
         /\ get_unary_lax_limit(sb) = 8 * (UnaryMaxBytes[sb] + 2) - 1
<1>1. UnaryMaxBytes[sb] \in Nat \ {0}
  BY UnaryAssumption
<1> QED
  BY <1>1 DEF get_unary_lax_limit

\* An uint32_t is a number.
LEMMA UInt32Is == ASSUME NEW x \in UInt32 PROVE x \in Nat /\ x \in Int
  BY IntWords

\* The two parameters of a coder.
LEMMA RiceStateIs ==
  ASSUME NEW rice \in RiceState
  PROVE  /\ rice.k[0] \in 0..KMax /\ rice.k[1] \in 0..KMax
         /\ rice.k[0] \in Nat /\ rice.k[1] \in Nat
         /\ 2^rice.k[0] \in Nat \ {0} /\ 2^rice.k[1] \in Nat \ {0}
<1>1. rice.k[0] \in 0..KMax /\ rice.k[1] \in 0..KMax
  BY DEF RiceState
<1>2. rice.k[0] \in Nat /\ rice.k[1] \in Nat
  BY <1>1
<1> QED
  BY <1>1, <1>2, PowerNat

\* A number of up to KMax bits is an uint32_t.
LEMMA SmallBinary ==
  ASSUME NEW k \in 0..KMax, NEW b \in 0..(2^k - 1)
  PROVE  b \in UInt32
<1>1. KMax \in Nat /\ k \in Nat /\ W \in Nat /\ k <= W
  BY WordAssumption
<1>2. 2^k <= 2^W /\ 2^k \in Nat /\ 2^W \in Nat
  BY <1>1, PowerLeq, PowerNat
<1>3. UInt32 = 0..(2^W - 1)
  BY DEF UInt32, UINT32_MAX
<1> QED
  BY <1>2, <1>3

\* What the decoder gives for a code, whatever it read.
LEMMA CodeDecoded ==
  ASSUME NEW rice \in RiceState, NEW unary \in Nat, NEW b, b.binary \in UInt32
  PROVE  LET d == DecodeCode(unary, b, rice)
         IN  d.value \in UInt32 /\ d.rice \in RiceState /\ d.r = b.r
<1> DEFINE d == DecodeCode(unary, b, rice)
           rest == U((unary - 1) * 2^rice.k[1] + b.binary)
           v == U(rest + 2^rice.k[0])
<1>1. 2^rice.k[0] \in Nat /\ 2^rice.k[1] \in Nat /\ b.binary \in Int
  <2>1. 2^rice.k[0] \in Nat /\ 2^rice.k[1] \in Nat
    BY RiceStateIs
  <2>2. b.binary \in Int
    BY UInt32Is
  <2> QED
    BY <2>1, <2>2
<1>2. (unary - 1) * 2^rice.k[1] + b.binary \in Int
  <2> DEFINE p == 2^rice.k[1]
             y == b.binary
  <2>1. p \in Int /\ y \in Int
    BY <1>1
  <2> HIDE DEF p, y
  <2>2. (unary - 1) * p + y \in Int
    BY <2>1, SMT
  <2> QED
    BY <2>2 DEF p, y
<1>3. rest \in Int
  BY <1>2, Ints
<1> HIDE DEF rest
<1>4. v \in UInt32 /\ v \in Int
  <2>1. rest + 2^rice.k[0] \in Int
    BY <1>1, <1>3
  <2> QED
    BY <2>1, UIs, Ints
<1> HIDE DEF v
<1>5. CASE unary # 0
  <2> DEFINE rice1 == rice24_update(rice, 1, rest)
  <2>1. rice1 \in RiceState
    BY <1>3, UpdateType
  <2>2. d = [value |-> v, r |-> b.r, rice |-> rice24_update(rice1, 0, v)]
    BY <1>5 DEF DecodeCode, RICE24_DECODE_STATE_1, RICE24_DECODE_STATE_0, v, rest
  <2> HIDE DEF d, rice1
  <2>3. rice24_update(rice1, 0, v) \in RiceState
    BY <1>4, <2>1, UpdateType
  <2>4. d.value = v /\ d.r = b.r /\ d.rice = rice24_update(rice1, 0, v)
    BY <2>2
  <2> QED
    BY <1>4, <2>3, <2>4 DEF d
<1>6. CASE unary = 0
  <2>1. d = [value |-> b.binary, r |-> b.r, rice |-> rice24_update(rice, 0, b.binary)]
    BY <1>6 DEF DecodeCode, RICE24_DECODE_STATE_0
  <2> HIDE DEF d
  <2>2. rice24_update(rice, 0, b.binary) \in RiceState
    <3> DEFINE m == b.binary
    <3>1. m \in Int /\ 0 \in 0..1 /\ rice \in RiceState
      BY <1>1
    <3> HIDE DEF m
    <3>2. rice24_update(rice, 0, m) \in RiceState
      BY <3>1, UpdateType, Zenon
    <3> QED
      BY <3>2 DEF m
  <2>3. d.value = b.binary /\ d.r = b.r /\ d.rice = rice24_update(rice, 0, b.binary)
    BY <2>1
  <2> QED
    BY <2>2, <2>3 DEF d
<1> QED
  BY <1>5, <1>6

\* q is a reader that read up to n bytes more.
ReadOn(r, q, n) ==
  /\ q \in Readers /\ q.src = r.src /\ Len(q.cache) <= 7
  /\ q.nbytes \in r.nbytes..(r.nbytes + n)

\* Reading on and on.
LEMMA ReadOnTrans ==
  ASSUME NEW r \in Readers, NEW q, NEW p, NEW m \in Nat, NEW n \in Nat,
         ReadOn(r, q, m), ReadOn(q, p, n)
  PROVE  ReadOn(r, p, m + n)
<1>1. r.nbytes \in Nat /\ q.nbytes \in Nat /\ p.nbytes \in Nat
  BY ReaderIs DEF ReadOn
<1>2. q.nbytes \in r.nbytes..(r.nbytes + m) /\ p.nbytes \in q.nbytes..(q.nbytes + n)
  BY DEF ReadOn
<1>3. p.nbytes \in r.nbytes..(r.nbytes + (m + n))
  BY <1>1, <1>2
<1> QED
  BY <1>3 DEF ReadOn

\* Reading less than a bound.
LEMMA ReadOnMore ==
  ASSUME NEW r \in Readers, NEW q, NEW m \in Nat, NEW n \in Nat, m <= n, ReadOn(r, q, m)
  PROVE  ReadOn(r, q, n)
<1>1. r.nbytes \in Nat /\ q.nbytes \in r.nbytes..(r.nbytes + m)
  BY ReaderIs DEF ReadOn
<1>2. q.nbytes \in r.nbytes..(r.nbytes + n)
  BY <1>1
<1> QED
  BY <1>2 DEF ReadOn

\* A value is decoded whatever the bytes are.
LEMMA DecodeRead ==
  ASSUME NEW r \in Readers, Len(r.cache) <= 7, NEW rice \in RiceState, NEW sb \in 1..3
  PROVE  LET d == rice24_decode(r, rice, get_unary_lax_limit(sb))
         IN  /\ d.value \in UInt32 /\ d.rice \in RiceState
             /\ ReadOn(r, d.r, UnaryMaxBytes[sb] + 5)
<1> DEFINE lax == get_unary_lax_limit(sb)
           K == UnaryMaxBytes[sb] + 2
           u == rice24_read_unary(r, lax)
           k == rice.k[IF u.unary # 0 THEN 1 ELSE 0]
           b == rice24_read_binary(u.r, k)
           d == rice24_decode(r, rice, lax)
<1>1. K \in Nat \ {0} /\ lax = 8 * K - 1 /\ UnaryMaxBytes[sb] \in Nat
  BY LimitIs
<1>2. d = DecodeCode(u.unary, b, rice)
  BY DEF rice24_decode, DecodeBinary
<1> HIDE DEF lax
<1>3. u.unary \in Nat /\ ReadOn(r, u.r, K)
  <2> HIDE DEF K, u
  <2>1. /\ u.unary \in Nat /\ u.r \in Readers /\ u.r.src = r.src /\ Len(u.r.cache) <= 7
        /\ u.r.nbytes \in r.nbytes..(r.nbytes + K)
    BY <1>1, UnaryRead DEF u
  <2> QED
    BY <2>1 DEF ReadOn
<1> HIDE DEF u
<1>4. k \in 0..KMax
  BY RiceStateIs
<1> HIDE DEF k
<1>5. b.binary \in 0..(2^k - 1) /\ ReadOn(u.r, b.r, 3)
  <2>1. u.r \in Readers /\ Len(u.r.cache) <= 7
    BY <1>3 DEF ReadOn
  <2> HIDE DEF b
  <2>2. /\ b.binary \in 0..(2^k - 1)
        /\ b.r \in Readers /\ b.r.src = u.r.src /\ Len(b.r.cache) <= 7
        /\ b.r.nbytes \in u.r.nbytes..(u.r.nbytes + 3)
    BY <1>4, <2>1, BinaryRead DEF b
  <2> QED
    BY <2>2 DEF ReadOn
<1> HIDE DEF b, d
<1>6. b.binary \in UInt32
  BY <1>4, <1>5, SmallBinary
<1>7. d.value \in UInt32 /\ d.rice \in RiceState /\ d.r = b.r
  BY <1>2, <1>3, <1>6, CodeDecoded
<1>8. ReadOn(r, b.r, K + 3) /\ K + 3 = UnaryMaxBytes[sb] + 5
  <2>1. K \in Nat /\ 3 \in Nat
    BY <1>1
  <2>2. K + 3 = UnaryMaxBytes[sb] + 5
    BY <1>1
  <2> HIDE DEF K
  <2>3. ReadOn(r, b.r, K + 3)
    BY <1>3, <1>5, <2>1, ReadOnTrans
  <2> QED
    BY <2>2, <2>3
<1> QED
  BY <1>7, <1>8 DEF d, lax

\* The code of a value gives the value back.
LEMMA CodeBack ==
  ASSUME NEW rice \in RiceState, NEW value \in UInt32, NEW b,
         b.binary = RiceCode(rice, value).binary
  PROVE  DecodeCode(RiceCode(rice, value).unary, b, rice)
           = [value |-> value, r |-> b.r, rice |-> RiceNext(rice, value)]
<1> DEFINE c == RiceCode(rice, value)
           p0 == 2^rice.k[0]
           p1 == 2^rice.k[1]
           rest == value - p0
<1>1. /\ c \in Code
      /\ c.unary # 0 <=> value >= p0
      /\ IF c.unary # 0 THEN (c.unary - 1) * p1 + c.binary = rest ELSE c.binary = value
  BY CodeType
<1>2. p0 \in Nat /\ value \in Nat /\ value \in Int
  <2>1. p0 \in Nat
    BY RiceStateIs
  <2>2. value \in Nat /\ value \in Int
    BY UInt32Is
  <2> QED
    BY <2>1, <2>2
<1>3. c.unary \in Nat
  BY <1>1 DEF Code
<1>4. RiceNext(rice, value)
        = IF c.unary > 0 THEN rice24_update(rice24_update(rice, 0, value), 1, rest)
          ELSE rice24_update(rice, 0, value)
  BY DEF RiceNext
<1>5. CASE c.unary # 0
  <2>1. value >= p0 /\ (c.unary - 1) * p1 + b.binary = rest /\ c.unary > 0
    BY <1>1, <1>3, <1>5
  <2>2. DecodeCode(c.unary, b, rice)
          = LET x == U((c.unary - 1) * p1 + b.binary)
            IN  [value |-> U(x + p0), r |-> b.r,
                 rice |-> rice24_update(rice24_update(rice, 1, x), 0, U(x + p0))]
    BY <1>5 DEF DecodeCode, RICE24_DECODE_STATE_1, RICE24_DECODE_STATE_0
  <2> HIDE DEF c, p1
  <2>3. U(rest) = rest
    <3> HIDE DEF p0
    <3>1. UInt32 = 0..(Word - 1) /\ Word \in Nat
      BY IntWords, WordIs
    <3>2. rest \in UInt32
      BY <1>2, <2>1, <3>1
    <3> QED
      BY <3>2, USmall
  <2>4. rest + p0 = value /\ rest \in Int
    <3> HIDE DEF p0
    <3> QED
      BY <1>2
  <2>5. U(value) = value
    BY USmall
  <2>6. rice24_update(rice24_update(rice, 1, rest), 0, value)
          = rice24_update(rice24_update(rice, 0, value), 1, rest)
    <3> HIDE DEF rest
    <3> QED
      BY <1>2, <2>4, UpdatesCommute
  <2> HIDE DEF rest, p0
  <2>7. DecodeCode(c.unary, b, rice)
          = [value |-> value, r |-> b.r,
             rice |-> rice24_update(rice24_update(rice, 1, rest), 0, value)]
    BY <2>1, <2>2, <2>3, <2>4, <2>5
  <2> QED
    BY <1>4, <2>1, <2>6, <2>7 DEF c
<1>6. CASE c.unary = 0
  <2>1. b.binary = value /\ ~(c.unary > 0)
    BY <1>1, <1>6
  <2>2. DecodeCode(c.unary, b, rice)
          = [value |-> b.binary, r |-> b.r, rice |-> rice24_update(rice, 0, b.binary)]
    BY <1>6 DEF DecodeCode, RICE24_DECODE_STATE_0
  <2> HIDE DEF c, rest
  <2> QED
    BY <1>4, <2>1, <2>2 DEF c
<1> QED
  BY <1>5, <1>6

\* The code that is pending is decoded.
Decodes(r, rice, sb, value, t) ==
  LET d == rice24_decode(r, rice, get_unary_lax_limit(sb))
  IN  /\ d.value = value /\ d.rice = RiceNext(rice, value)
      /\ Pending(d.r) = t /\ d.r.nbytes <= Len(d.r.src)

\* A pending code is decoded to its value, and the coder is where the encoder was.
LEMMA DecodeBack ==
  ASSUME NEW r \in Readers, Len(r.cache) <= 7, r.nbytes <= Len(r.src),
         NEW rice \in RiceState, NEW sb \in 1..3, NEW value \in UInt32,
         RiceCode(rice, value).unary <= get_unary_lax_limit(sb), NEW t \in Seq(Bit),
         Pending(r) = CodeBits(RiceCode(rice, value)) \o t
  PROVE  Decodes(r, rice, sb, value, t)
<1> DEFINE lax == get_unary_lax_limit(sb)
           K == UnaryMaxBytes[sb] + 2
           c == RiceCode(rice, value)
           u == rice24_read_unary(r, lax)
           b == rice24_read_binary(u.r, c.bin_k)
           bits == BitsOf(c.binary, c.bin_k)
           d == rice24_decode(r, rice, lax)
<1>1. K \in Nat \ {0} /\ lax = 8 * K - 1
  BY LimitIs
<1>2. /\ c \in Code /\ c.binary < 2^c.bin_k
      /\ c.bin_k = rice.k[IF c.unary # 0 THEN 1 ELSE 0]
  BY CodeType
<1> HIDE DEF c
<1>3. /\ c.unary \in Nat /\ c.binary \in Nat /\ c.bin_k \in Nat /\ c.bin_k \in 0..KMax
      /\ CodeBits(c) = Ones(c.unary) \o (<< 0 >> \o bits)
  BY <1>2, CodeBitsType DEF Code
<1>4. bits \in Seq(Bit) /\ Len(bits) = c.bin_k /\ Ones(c.unary) \in Seq(Bit)
  BY <1>3, BitsType, OnesAndZeros
<1> HIDE DEF bits
<1>5. bits \o t \in Seq(Bit)
  BY <1>4, ConcatProperties
<1>6. Pending(r) = Ones(c.unary) \o (<< 0 >> \o (bits \o t))
  <2> DEFINE o == Ones(c.unary)
             z == << 0 >>
             y == z \o bits
  <2>1. o \in Seq(Bit) /\ z \in Seq(Bit)
    BY <1>4, ZeroBit
  <2>2. Pending(r) = (o \o (z \o bits)) \o t
    BY <1>3 DEF c
  <2> HIDE DEF o, z
  <2>3. z \o bits \in Seq(Bit)
    BY <1>4, <2>1, ConcatProperties
  <2>4. (o \o y) \o t = o \o (y \o t)
    <3>1. y \in Seq(Bit)
      BY <2>3
    <3> HIDE DEF y
    <3> QED
      BY <2>1, <3>1, BitsConcat
  <2>5. (z \o bits) \o t = z \o (bits \o t)
    BY <1>4, <2>1, BitsConcat
  <2>6. Pending(r) = o \o (z \o (bits \o t))
    BY <2>2, <2>4, <2>5
  <2> QED
    BY <2>6 DEF o, z
<1>7. c.unary <= lax
  BY DEF c
<1> HIDE DEF lax, K
<1>8. UnaryFinds(r, lax, c.unary, bits \o t)
  BY <1>1, <1>3, <1>5, <1>6, <1>7, UnaryBack
<1>9. u.unary = c.unary /\ Pending(u.r) = bits \o t /\ u.r.nbytes <= Len(u.r.src)
  BY <1>8 DEF UnaryFinds
<1>10. u.r \in Readers /\ Len(u.r.cache) <= 7
  <2> HIDE DEF u
  <2>1. u.r \in Readers /\ Len(u.r.cache) <= 7
    BY <1>1, UnaryRead DEF u
  <2> QED
    BY <2>1
<1> HIDE DEF u
<1>11. b.binary = NumberOf(bits) /\ Pending(b.r) = t /\ b.r.nbytes <= Len(b.r.src)
  <2> DEFINE rr == u.r
             k == c.bin_k
  <2>1. rr \in Readers /\ Len(rr.cache) <= 7 /\ rr.nbytes <= Len(rr.src) /\ k \in 0..KMax
        /\ Pending(rr) = bits \o t /\ Len(bits) = k
    BY <1>3, <1>4, <1>9, <1>10
  <2> HIDE DEF rr, k
  <2>2. LET x == rice24_read_binary(rr, k)
        IN  x.binary = NumberOf(bits) /\ Pending(x.r) = t /\ x.r.nbytes <= Len(x.r.src)
    BY <1>4, <2>1, BinaryBack
  <2> QED
    BY <2>2 DEF rr, k
<1>12. NumberOf(bits) = c.binary
  BY <1>2, <1>3, NumberOfBits DEF bits
<1>13. d = DecodeCode(c.unary, b, rice)
  <2>1. d = DecodeCode(u.unary, rice24_read_binary(u.r, rice.k[IF u.unary # 0 THEN 1 ELSE 0]), rice)
    BY DEF d, u, rice24_decode, DecodeBinary
  <2> HIDE DEF d
  <2> QED
    BY <1>2, <1>9, <2>1
<1> HIDE DEF b, d
<1>14. d = [value |-> value, r |-> b.r, rice |-> RiceNext(rice, value)]
  <2>1. b.binary = c.binary
    BY <1>11, <1>12
  <2> QED
    BY <1>13, <2>1, CodeBack DEF c
<1>15. d.value = value /\ d.r = b.r /\ d.rice = RiceNext(rice, value)
  BY <1>14
<1> QED
  BY <1>11, <1>15 DEF Decodes, d, lax

\* Induction up to n.
LEMMA UpToInduction ==
  ASSUME NEW n \in Nat, NEW T, 0 \in T, \A i \in 1..n : i - 1 \in T => i \in T
  PROVE  \A i \in 0..n : i \in T
<1> DEFINE U2 == {i \in Nat : i <= n => i \in T}
<1>1. 0 \in U2
  OBVIOUS
<1>2. ASSUME NEW i \in Nat, i \in U2 PROVE i + 1 \in U2
  <2>1. CASE i + 1 <= n
    <3>1. i + 1 \in 1..n /\ (i + 1) - 1 = i /\ i <= n
      BY <2>1
    <3>2. i \in T
      BY <1>2, <3>1
    <3> QED
      BY <3>1, <3>2
  <2>2. CASE ~(i + 1 <= n)
    BY <2>2
  <2> QED
    BY <2>1, <2>2
<1> HIDE DEF U2
<1>3. Nat \subseteq U2
  BY <1>1, <1>2, Induction
<1> QED
  BY <1>3 DEF U2

\* A recursive function whose values stay in the sets P.
IteratesIn(A, P, a, n, step) ==
  \E f \in [0..n -> A] :
    /\ f[0] = a /\ \A i \in 1..n : f[i] = step[i][f[i - 1]]
    /\ \A i \in 0..n : f[i] \in P[i]

\* A recursive function keeps what every step of it keeps.
LEMMA RecursionIn ==
  ASSUME NEW A, NEW n \in Nat, NEW P, \A i \in 0..n : P[i] \subseteq A,
         NEW a \in P[0], NEW step, \A i \in 1..n : \A x \in P[i - 1] : step[i][x] \in P[i]
  PROVE  IteratesIn(A, P, a, n, step)
<1> DEFINE total == [i \in 1..n |-> [x \in A |-> IF step[i][x] \in A THEN step[i][x] ELSE x]]
<1>1. total \in [1..n -> [A -> A]]
  OBVIOUS
<1>2. \A i \in 1..n : \A x \in A : step[i][x] \in A => total[i][x] = step[i][x]
  OBVIOUS
<1> HIDE DEF total
<1>3. a \in A
  <2>1. 0 \in 0..n
    OBVIOUS
  <2>2. P[0] \subseteq A
    BY <2>1
  <2> QED
    BY <2>2
<1>4. PICK f \in [0..n -> A] : f[0] = a /\ \A i \in 1..n : f[i] = total[i][f[i - 1]]
  <2>1. Iterates(A, a, n, total)
    BY <1>1, <1>3, Recursion
  <2> QED
    BY <2>1 DEF Iterates
<1> DEFINE T == {i \in 0..n : f[i] \in P[i]}
<1>5. 0 \in T
  BY <1>4
<1>6. ASSUME NEW i \in 1..n, f[i - 1] \in P[i - 1]
      PROVE  f[i] = step[i][f[i - 1]] /\ f[i] \in P[i]
  <2> DEFINE x == f[i - 1]
  <2>1. i - 1 \in 0..n /\ i \in 0..n
    OBVIOUS
  <2>2. x \in P[i - 1] /\ x \in A
    BY <1>6, <2>1
  <2>3. step[i][x] \in P[i] /\ step[i][x] \in A
    BY <2>1, <2>2
  <2>4. f[i] = total[i][x]
    BY <1>4
  <2> HIDE DEF x
  <2>5. f[i] = step[i][x]
    BY <1>2, <2>2, <2>3, <2>4
  <2> QED
    BY <2>3, <2>5 DEF x
<1>7. \A i \in 1..n : i - 1 \in T => i \in T
  BY <1>6
<1> HIDE DEF T
<1>8. \A i \in 0..n : i \in T
  BY <1>5, <1>7, UpToInduction
<1>9. \A i \in 0..n : f[i] \in P[i]
  BY <1>8 DEF T
<1>10. ASSUME NEW i \in 1..n PROVE f[i] = step[i][f[i - 1]]
  <2>1. i - 1 \in 0..n
    OBVIOUS
  <2> QED
    BY <1>6, <1>9, <2>1
<1> QED
  BY <1>4, <1>9, <1>10 DEF IteratesIn

-----------------------------------------------------------------------------
(* A value of a channel *)

\* The residue the filter leaves of x, as it is coded; the code; the channel
\* after it.  None depends on the writer.
Filtered(c, x, sb) ==
  tta_filter_enc(c.filter, Wrap(x - tta_predict1(c.prev, get_predict_k(sb))),
                 get_filter_round(sb), get_filter_k(sb))
Residue(c, x, sb) == tta_postfilter_enc(Filtered(c, x, sb).value)
CodeOf(c, x, sb) == RiceCode(c.rice, Residue(c, x, sb))
ChannelNext(c, x, sb) ==
  [filter |-> Filtered(c, x, sb).filter, rice |-> RiceNext(c.rice, Residue(c, x, sb)), prev |-> x]

\* The fields of a channel.
LEMMA ChannelIs ==
  ASSUME NEW c \in Channel
  PROVE  /\ c.filter \in FilterState /\ c.rice \in RiceState /\ c.prev \in Int32
         /\ c.prev \in Int
<1>1. c.filter \in FilterState /\ c.rice \in RiceState /\ c.prev \in Int32
  BY DEF Channel
<1> QED
  BY <1>1, IntWords

\* What a sample is turned into on its way to a code.
LEMMA ValueTypes ==
  ASSUME NEW c \in Channel, NEW x \in Int32, NEW sb \in 1..3
  PROVE  /\ tta_predict1(c.prev, get_predict_k(sb)) \in Int
         /\ Wrap(x - tta_predict1(c.prev, get_predict_k(sb))) \in Int32
         /\ Filtered(c, x, sb).value \in Int32 /\ Filtered(c, x, sb).filter \in FilterState
         /\ Residue(c, x, sb) \in UInt32
         /\ CodeOf(c, x, sb) \in Code
         /\ ChannelNext(c, x, sb) \in Channel
<1> DEFINE s == tta_predict1(c.prev, get_predict_k(sb))
           v == Wrap(x - s)
           f == Filtered(c, x, sb)
           u == Residue(c, x, sb)
<1>1. c.filter \in FilterState /\ c.rice \in RiceState /\ c.prev \in Int
  BY ChannelIs
<1>2. /\ get_predict_k(sb) \in Nat /\ get_filter_k(sb) \in Nat
      /\ get_filter_round(sb) \in Nat /\ get_filter_round(sb) \in Int
  BY Parameters
<1>3. s \in Int
  BY <1>1, <1>2, PredictType
<1>4. x \in Int
  BY IntWords
<1> HIDE DEF s
<1>5. v \in Int32
  <2>1. x - s \in Int
    BY <1>3, <1>4
  <2> QED
    BY <2>1, WrapIs
<1> HIDE DEF v
<1>6. f = tta_filter_enc(c.filter, v, get_filter_round(sb), get_filter_k(sb))
  BY DEF Filtered, v, s
<1> HIDE DEF f
<1>7. f.value \in Int32 /\ f.filter \in FilterState
  BY <1>1, <1>2, <1>5, <1>6, FilterTypes
<1>8. u \in UInt32
  BY <1>7, InterleavedType DEF Residue, f
<1> HIDE DEF u
<1>9. RiceCode(c.rice, u) \in Code /\ RiceNext(c.rice, u) \in RiceState
  BY <1>1, <1>8, CodeType, RiceNextType
<1>10. ChannelNext(c, x, sb) = [filter |-> f.filter, rice |-> RiceNext(c.rice, u), prev |-> x]
  BY DEF ChannelNext, f, u
<1>11. ChannelNext(c, x, sb) \in Channel
  BY <1>7, <1>9, <1>10 DEF Channel
<1> QED
  BY <1>3, <1>5, <1>7, <1>8, <1>9, <1>11 DEF s, v, f, u, CodeOf

\* A sample is encoded: the code is written, the channel moves on.
LEMMA ValueEncoded ==
  ASSUME NEW c \in Channel, NEW x \in Int32, NEW sb \in 1..3,
         NEW pre \in Seq(Byte), NEW w \in Fed(pre)
  PROVE  LET e == EncodeValue(c, w, x, sb)
         IN  /\ e.c = ChannelNext(c, x, sb) /\ e.code = CodeOf(c, x, sb)
             /\ e.w \in Fed(pre) /\ Written(e.w) = Written(w) \o CodeBits(CodeOf(c, x, sb))
             /\ Len(e.w.cache) <= 39 + KMax
<1> DEFINE f == Filtered(c, x, sb)
           u == Residue(c, x, sb)
           h == rice24_encode(w, c.rice, u)
           e == EncodeValue(c, w, x, sb)
<1>1. c.rice \in RiceState /\ u \in UInt32
  BY ChannelIs, ValueTypes
<1>2. e = [c |-> [filter |-> f.filter, rice |-> h.rice, prev |-> x], w |-> h.w,
           code |-> RiceCode(c.rice, u)]
  BY DEF EncodeValue, Filtered, Residue
<1> HIDE DEF u, h, e
<1>3. /\ h.rice = RiceNext(c.rice, u) /\ h.w \in Fed(pre)
      /\ Written(h.w) = Written(w) \o CodeBits(RiceCode(c.rice, u))
      /\ Len(h.w.cache) <= 39 + KMax
  BY <1>1, RiceEncodes DEF h
<1>4. e.c = [filter |-> f.filter, rice |-> RiceNext(c.rice, u), prev |-> x] /\ e.w = h.w
      /\ e.code = RiceCode(c.rice, u)
  BY <1>2, <1>3
<1> QED
  BY <1>3, <1>4 DEF ChannelNext, CodeOf, e, u

\* A value is decoded to an int32_t whatever is read.
LEMMA ValueRead ==
  ASSUME NEW c \in Channel, NEW r \in Readers, Len(r.cache) <= 7, NEW sb \in 1..3
  PROVE  LET d == DecodeValue(c, r, sb)
         IN  d.c \in Channel /\ d.x \in Int32 /\ ReadOn(r, d.r, UnaryMaxBytes[sb] + 5)
<1> DEFINE h == rice24_decode(r, c.rice, get_unary_lax_limit(sb))
           f == c.filter
           v == tta_prefilter_dec(h.value)
           rd == get_filter_round(sb)
           k == get_filter_k(sb)
           g == tta_filter_dec(f, v, rd, k)
           s == tta_predict1(c.prev, get_predict_k(sb))
           x == Wrap(g.value + s)
           d == DecodeValue(c, r, sb)
<1>1. f \in FilterState /\ c.rice \in RiceState /\ c.prev \in Int
  BY ChannelIs
<1>2. get_predict_k(sb) \in Nat /\ k \in Nat /\ rd \in Nat /\ rd \in Int
  BY Parameters
<1>3. s \in Int
  BY <1>1, <1>2, PredictType
<1>4. h.value \in UInt32 /\ h.rice \in RiceState /\ ReadOn(r, h.r, UnaryMaxBytes[sb] + 5)
  BY <1>1, DecodeRead
<1>5. d = [c |-> [filter |-> g.filter, rice |-> h.rice, prev |-> x], r |-> h.r, x |-> x]
  BY DEF DecodeValue, TTADEC_FILTER, TTADEC_PREDICT
<1> HIDE DEF d, h, s
<1>6. g.value \in Int32 /\ g.value \in Int /\ g.filter = FilterNext(f, updated_a(f), g.value, v)
  <2> DEFINE a == updated_a(f)
             y == v + asr32(filter_sum(a, f.dl, rd), k)
  <2>1. g = [filter |-> FilterNext(f, a, Wrap(y), v), value |-> Wrap(y)]
    BY DEF tta_filter_dec
  <2>2. v \in Int
    <3> DEFINE z == -(IF h.value % 2 = 1 THEN UINT32_MAX - h.value \div 2 ELSE h.value \div 2)
    <3>1. h.value \in Int /\ UINT32_MAX \in Int
      <4>1. h.value \in Int
        BY <1>4, UInt32Is
      <4>2. UINT32_MAX \in Int
        BY WordIs DEF UINT32_MAX, Word
      <4> QED
        BY <4>1, <4>2
    <3>2. v = Wrap(z)
      BY DEF tta_prefilter_dec
    <3>3. z \in Int
      BY <3>1
    <3> HIDE DEF z, v
    <3> QED
      BY <3>2, <3>3, Ints
  <2>3. asr32(filter_sum(a, f.dl, rd), k) \in Int
    <3>1. a \in [Taps -> Int] /\ f.dl \in [Taps -> Int]
      BY <1>1, UpdatedAType, FilterStateIs
    <3>2. filter_sum(a, f.dl, rd) \in Int
      BY <1>2, <3>1, SumType
    <3> QED
      BY <1>2, <3>2, DivInt DEF asr32
  <2> HIDE DEF g
  <2>4. y \in Int
    BY <2>2, <2>3
  <2> HIDE DEF y
  <2>5. Wrap(y) \in Int32 /\ Wrap(y) \in Int
    BY <2>4, WrapIs, Ints
  <2>6. g.value = Wrap(y) /\ g.filter = FilterNext(f, a, Wrap(y), v)
    BY <2>1
  <2> QED
    BY <2>5, <2>6
<1> HIDE DEF g
<1>7. g.filter \in FilterState
  <2>1. updated_a(f) \in [Taps -> Int32]
    BY <1>1, UpdatedAType
  <2> HIDE DEF f, v
  <2> QED
    BY <1>1, <1>6, <2>1, FilterNextType
<1>8. x \in Int32
  <2>1. g.value + s \in Int
    BY <1>3, <1>6
  <2> QED
    BY <2>1, WrapIs
<1> HIDE DEF x
<1>9. d.c = [filter |-> g.filter, rice |-> h.rice, prev |-> x] /\ d.r = h.r /\ d.x = x
  BY <1>5
<1>10. d.c \in Channel
  BY <1>4, <1>7, <1>8, <1>9 DEF Channel
<1> QED
  BY <1>4, <1>8, <1>9, <1>10 DEF d

\* The value whose code is pending comes back, and the channel is the encoder's.
ValueComesBack(c, r, x, sb, t) ==
  LET d == DecodeValue(c, r, sb)
  IN  /\ d.c = ChannelNext(c, x, sb) /\ d.x = x
      /\ Pending(d.r) = t /\ d.r.nbytes <= Len(d.r.src)

\* A pending code is decoded to its sample, and the channel moves on as it did in the encoder.
LEMMA ValueBack ==
  ASSUME NEW c \in Channel, NEW r \in Readers, Len(r.cache) <= 7, r.nbytes <= Len(r.src),
         NEW sb \in 1..3, NEW x \in Int32,
         CodeOf(c, x, sb).unary <= get_unary_lax_limit(sb), NEW t \in Seq(Bit),
         Pending(r) = CodeBits(CodeOf(c, x, sb)) \o t
  PROVE  ValueComesBack(c, r, x, sb, t)
<1> DEFINE h == rice24_decode(r, c.rice, get_unary_lax_limit(sb))
           u == Residue(c, x, sb)
           e == Filtered(c, x, sb)
           s == tta_predict1(c.prev, get_predict_k(sb))
           curr == Wrap(x - s)
           rd == get_filter_round(sb)
           k == get_filter_k(sb)
           g == tta_filter_dec(c.filter, tta_prefilter_dec(h.value), rd, k)
           y == Wrap(g.value + s)
           d == DecodeValue(c, r, sb)
<1>1. c.filter \in FilterState /\ c.rice \in RiceState
  BY ChannelIs
<1>2. k \in Nat /\ rd \in Int
  BY Parameters
<1>3. s \in Int /\ curr \in Int32 /\ e.value \in Int32 /\ u \in UInt32
  BY ValueTypes
<1>4. e = tta_filter_enc(c.filter, curr, rd, k) /\ u = tta_postfilter_enc(e.value)
  BY DEF Filtered, Residue
<1>5. Decodes(r, c.rice, sb, u, t)
  <2>1. RiceCode(c.rice, u).unary <= get_unary_lax_limit(sb)
        /\ Pending(r) = CodeBits(RiceCode(c.rice, u)) \o t
    BY DEF CodeOf
  <2> HIDE DEF u
  <2> QED
    BY <1>1, <1>3, <2>1, DecodeBack
<1>6. h.value = u /\ h.rice = RiceNext(c.rice, u) /\ Pending(h.r) = t /\ h.r.nbytes <= Len(h.r.src)
  BY <1>5 DEF Decodes
<1>7. d = [c |-> [filter |-> g.filter, rice |-> h.rice, prev |-> y], r |-> h.r, x |-> y]
  BY DEF DecodeValue, TTADEC_FILTER, TTADEC_PREDICT
<1> HIDE DEF d, h, curr, e, s, u
<1>8. tta_prefilter_dec(h.value) = e.value
  BY <1>3, <1>4, <1>6, InterleavedBack
<1>9. g = [filter |-> e.filter, value |-> curr]
  BY <1>1, <1>2, <1>3, <1>4, <1>8, FilterBack
<1> HIDE DEF g
<1>10. g.filter = e.filter /\ g.value = curr
  BY <1>9
<1>11. y = x
  <2>1. Wrap(Wrap(x - s) + s) = x
    BY <1>3, WrapBack
  <2> QED
    BY <1>10, <2>1 DEF curr
<1> HIDE DEF y
<1>12. d.c = [filter |-> e.filter, rice |-> RiceNext(c.rice, u), prev |-> x] /\ d.r = h.r /\ d.x = x
  BY <1>6, <1>7, <1>10, <1>11
<1> QED
  BY <1>6, <1>12 DEF ValueComesBack, ChannelNext, d, e, u

-----------------------------------------------------------------------------
(* The codes of a group *)

\* The bits of codes.
LEMMA CodesBitsType ==
  ASSUME NEW cs \in Seq(Code)
  PROVE  /\ CodesBits(cs) \in Seq(Bit)
         /\ [i \in DOMAIN cs |-> CodeBits(cs[i])] \in Seq(Seq(Bit))
         /\ Len([i \in DOMAIN cs |-> CodeBits(cs[i])]) = Len(cs)
<1> DEFINE f == [i \in DOMAIN cs |-> CodeBits(cs[i])]
           n == Len(cs)
<1>1. n \in Nat /\ DOMAIN cs = 1..n /\ \A i \in 1..n : cs[i] \in Code
  BY LenProperties, ElementOfSeq
<1>2. \A i \in 1..n : CodeBits(cs[i]) \in Seq(Bit)
  BY <1>1, CodeBitsType
<1> HIDE DEF n
<1>3. f \in [1..n -> Seq(Bit)]
  BY <1>1, <1>2
<1> HIDE DEF f
<1>4. f \in Seq(Seq(Bit)) /\ Len(f) = n
  BY <1>1, <1>3
<1>5. FlattenSeq(f) \in Seq(Bit)
  BY <1>4, FlattenType
<1> QED
  BY <1>4, <1>5 DEF CodesBits, f, n

\* No codes, no bits.
LEMMA CodesBitsEmpty == CodesBits(<<>>) = <<>>
<1>1. [i \in DOMAIN <<>> |-> CodeBits(<<>>[i])] = <<>>
  OBVIOUS
<1> QED
  BY <1>1, FlattenEmpty DEF CodesBits

\* The bits of two parts.
LEMMA CodesBitsConcat ==
  ASSUME NEW a \in Seq(Code), NEW b \in Seq(Code)
  PROVE  CodesBits(a \o b) = CodesBits(a) \o CodesBits(b)
<1> DEFINE m == Len(a)
           n == Len(b)
           f == [i \in DOMAIN a |-> CodeBits(a[i])]
           g == [i \in DOMAIN b |-> CodeBits(b[i])]
           c == a \o b
           h == [i \in DOMAIN c |-> CodeBits(c[i])]
<1>1. m \in Nat /\ n \in Nat /\ DOMAIN a = 1..m /\ DOMAIN b = 1..n
  BY LenProperties
<1>2. Len(a) = m /\ Len(b) = n
  OBVIOUS
<1>3. f \in Seq(Seq(Bit)) /\ Len(f) = m /\ g \in Seq(Seq(Bit)) /\ Len(g) = n
  BY CodesBitsType
<1> HIDE DEF m, n
<1>4. /\ c \in Seq(Code) /\ Len(c) = m + n
      /\ \A i \in 1..(m + n) : c[i] = IF i <= m THEN a[i] ELSE b[i - m]
  BY <1>2, ConcatIs
<1> HIDE DEF c
<1>5. h \in Seq(Seq(Bit)) /\ Len(h) = m + n /\ DOMAIN c = 1..(m + n)
  BY <1>4, CodesBitsType, LenProperties
<1>6. (\A i \in 1..m : f[i] = CodeBits(a[i])) /\ (\A i \in 1..n : g[i] = CodeBits(b[i]))
      /\ \A i \in 1..(m + n) : h[i] = CodeBits(c[i])
  BY <1>1, <1>5
<1> HIDE DEF f, g, h
<1>7. /\ f \o g \in Seq(Seq(Bit)) /\ Len(f \o g) = m + n
      /\ \A i \in 1..(m + n) : (f \o g)[i] = IF i <= m THEN f[i] ELSE g[i - m]
  BY <1>3, ConcatIs
<1>8. ASSUME NEW i \in 1..(m + n) PROVE (f \o g)[i] = h[i]
  <2>1. CASE i <= m
    <3>1. i \in 1..m
      BY <1>1, <2>1
    <3> QED
      BY <1>4, <1>6, <1>7, <2>1, <3>1
  <2>2. CASE ~(i <= m)
    <3>1. i - m \in 1..n
      BY <1>1, <2>2
    <3> QED
      BY <1>4, <1>6, <1>7, <2>2, <3>1
  <2> QED
    BY <2>1, <2>2
<1>9. f \o g = h
  <2>1. Len(f \o g) = Len(h) /\ Len(h) = m + n
    BY <1>5, <1>7
  <2> QED
    BY <1>5, <1>7, <1>8, <2>1, SeqEqual
<1>10. FlattenSeq(f \o g) = FlattenSeq(f) \o FlattenSeq(g)
  BY <1>3, FlattenConcat
<1> QED
  BY <1>9, <1>10 DEF CodesBits, f, g, h, c

\* The bits of one code.
LEMMA CodesBitsOne == ASSUME NEW c \in Code PROVE CodesBits(<<c>>) = CodeBits(c)
<1>1. [i \in DOMAIN <<c>> |-> CodeBits(<<c>>[i])] = <<CodeBits(c)>>
  OBVIOUS
<1>2. CodeBits(c) \in Seq(Bit)
  BY CodeBitsType
<1> QED
  BY <1>1, <1>2, FlattenOne DEF CodesBits

\* The first i values of the function f.
UpTo(f, i) == [j \in 1..i |-> f[j]]

\* They are those of i - 1 with one more.
Grown(S, f, i) ==
  /\ Append(UpTo(f, i - 1), f[i]) = UpTo(f, i)
  /\ UpTo(f, i - 1) \in Seq(S) /\ Len(UpTo(f, i - 1)) = i - 1
  /\ UpTo(f, i) \in Seq(S) /\ Len(UpTo(f, i)) = i

\* One element more.
LEMMA UpToNext ==
  ASSUME NEW S, NEW n \in Nat, NEW f \in [1..n -> S], NEW i \in 1..n
  PROVE  Grown(S, f, i)
<1> DEFINE a == UpTo(f, i - 1)
           b == UpTo(f, i)
           m == i - 1
<1>1. m \in Nat /\ i \in Nat /\ m + 1 = i
  OBVIOUS
<1>2. a \in [1..m -> S] /\ b \in [1..i -> S] /\ f[i] \in S
  BY DEF UpTo
<1>3. (\A j \in 1..m : a[j] = f[j]) /\ (\A j \in 1..i : b[j] = f[j])
  BY DEF UpTo
<1> HIDE DEF a, b, m
<1>4. a \in Seq(S) /\ Len(a) = m /\ b \in Seq(S) /\ Len(b) = i
  BY <1>1, <1>2
<1>5. /\ Append(a, f[i]) \in Seq(S) /\ Len(Append(a, f[i])) = m + 1
      /\ (\A j \in 1..m : Append(a, f[i])[j] = a[j]) /\ Append(a, f[i])[m + 1] = f[i]
  BY <1>2, <1>4, AppendProperties
<1>6. ASSUME NEW j \in 1..i PROVE Append(a, f[i])[j] = b[j]
  <2>1. j \in 1..m \/ j = m + 1
    BY <1>1
  <2> QED
    BY <1>1, <1>3, <1>5, <2>1
<1>7. Append(a, f[i]) = b
  BY <1>1, <1>4, <1>5, <1>6, SeqEqual
<1> QED
  BY <1>4, <1>7 DEF Grown, a, b, m

\* None of the elements, and all of them.
LEMMA UpToAll ==
  ASSUME NEW S, NEW n \in Nat, NEW f \in [1..n -> S]
  PROVE  UpTo(f, 0) = <<>> /\ UpTo(f, n) = f /\ f \in Seq(S) /\ Len(f) = n
<1>1. UpTo(f, 0) = <<>>
  BY DEF UpTo
<1>2. UpTo(f, n) = f
  BY DEF UpTo
<1> QED
  BY <1>1, <1>2

-----------------------------------------------------------------------------
GroupNext(codec, x, sb)  == [j \in 1..Len(x) |-> ChannelNext(codec[j], x[j], sb)]
GroupCodes(codec, x, sb) == [j \in 1..Len(x) |-> CodeOf(codec[j], x[j], sb)]

\* The channels and the codes of a group.
LEMMA GroupTypes ==
  ASSUME NEW codec \in Seq(Channel), NEW x \in Seq(Int32), Len(x) = Len(codec), NEW sb \in 1..3
  PROVE  /\ GroupNext(codec, x, sb) \in [1..Len(x) -> Channel]
         /\ GroupCodes(codec, x, sb) \in [1..Len(x) -> Code]
         /\ GroupNext(codec, x, sb) \in Seq(Channel) /\ Len(GroupNext(codec, x, sb)) = Len(x)
         /\ GroupCodes(codec, x, sb) \in Seq(Code) /\ Len(GroupCodes(codec, x, sb)) = Len(x)
<1> DEFINE n == Len(x)
<1>1. n \in Nat /\ (\A j \in 1..n : codec[j] \in Channel) /\ \A j \in 1..n : x[j] \in Int32
  BY LenProperties, ElementOfSeq
<1>2. \A j \in 1..n : ChannelNext(codec[j], x[j], sb) \in Channel /\ CodeOf(codec[j], x[j], sb) \in Code
  BY <1>1, ValueTypes
<1> HIDE DEF n
<1>3. GroupNext(codec, x, sb) \in [1..n -> Channel] /\ GroupCodes(codec, x, sb) \in [1..n -> Code]
  BY <1>2 DEF GroupNext, GroupCodes, n
<1>4. \A f \in [1..n -> Channel] : f \in Seq(Channel) /\ Len(f) = n
  BY <1>1
<1>5. \A f \in [1..n -> Code] : f \in Seq(Code) /\ Len(f) = n
  BY <1>1
<1> QED
  BY <1>3, <1>4, <1>5 DEF n
\* The same, as sequences.
LEMMA GroupSequences ==
  ASSUME NEW codec \in Seq(Channel), NEW x \in Seq(Int32), Len(x) = Len(codec), NEW sb \in 1..3
  PROVE  /\ GroupNext(codec, x, sb) \in Seq(Channel) /\ Len(GroupNext(codec, x, sb)) = Len(x)
         /\ GroupCodes(codec, x, sb) \in Seq(Code) /\ Len(GroupCodes(codec, x, sb)) = Len(x)
  BY GroupTypes

-----------------------------------------------------------------------------
(* Encoding a group *)

EncGroups(pre) == [codec : Seq(Channel), w : Fed(pre), codes : Seq(Code)]

\* What is encoded of the group x after i channels.
EncodedUpTo(codec, x, sb, pre, w, i) ==
  {g \in EncGroups(pre) :
     /\ g.codec = UpTo(GroupNext(codec, x, sb), i)
     /\ g.codes = UpTo(GroupCodes(codec, x, sb), i)
     /\ Written(g.w) = Written(w) \o CodesBits(g.codes)
     /\ i > 0 => Len(g.w.cache) <= 39 + KMax}

\* One channel more is encoded.
LEMMA EncodeNextIs ==
  ASSUME NEW codec \in Seq(Channel), NEW x \in Seq(Int32), Len(x) = Len(codec), NEW sb \in 1..3,
         NEW pre \in Seq(Byte), NEW w \in Fed(pre), NEW i \in 1..Len(x),
         NEW g \in EncodedUpTo(codec, x, sb, pre, w, i - 1)
  PROVE  EncodeNext(codec, g, x[i], sb) \in EncodedUpTo(codec, x, sb, pre, w, i)
<1> DEFINE n == Len(x)
           cn == GroupNext(codec, x, sb)
           cs == GroupCodes(codec, x, sb)
           c == codec[i]
           e == EncodeValue(c, g.w, x[i], sb)
           h == EncodeNext(codec, g, x[i], sb)
<1>1. n \in Nat /\ i \in 1..n /\ c \in Channel /\ x[i] \in Int32
  BY LenProperties, ElementOfSeq
<1>2. cn \in [1..n -> Channel] /\ cs \in [1..n -> Code]
  BY GroupTypes
<1>3. cn[i] = ChannelNext(c, x[i], sb) /\ cs[i] = CodeOf(c, x[i], sb)
  BY DEF GroupNext, GroupCodes
<1>4. /\ g.codec \in Seq(Channel) /\ g.w \in Fed(pre) /\ g.codes \in Seq(Code)
      /\ g.codec = UpTo(cn, i - 1)
      /\ g.codes = UpTo(cs, i - 1)
      /\ Written(g.w) = Written(w) \o CodesBits(g.codes)
  BY DEF EncodedUpTo, EncGroups
<1> HIDE DEF n, cn, cs, c
<1>5. Grown(Channel, cn, i) /\ Grown(Code, cs, i)
  BY <1>1, <1>2, UpToNext
<1>6. /\ Append(UpTo(cn, i - 1), cn[i]) = UpTo(cn, i) /\ UpTo(cn, i) \in Seq(Channel)
      /\ Append(UpTo(cs, i - 1), cs[i]) = UpTo(cs, i) /\ UpTo(cs, i) \in Seq(Code)
      /\ UpTo(cs, i - 1) \in Seq(Code) /\ Len(UpTo(cs, i - 1)) = i - 1
  BY <1>5, Zenon DEF Grown
<1>7. /\ e.c = cn[i] /\ e.code = cs[i]
      /\ e.w \in Fed(pre) /\ Written(e.w) = Written(g.w) \o CodeBits(cs[i])
      /\ Len(e.w.cache) <= 39 + KMax
  <2> DEFINE v == g.w
             y == x[i]
  <2>1. c \in Channel /\ y \in Int32 /\ v \in Fed(pre)
    BY <1>1, <1>4
  <2>2. e = EncodeValue(c, v, y, sb) /\ cn[i] = ChannelNext(c, y, sb) /\ cs[i] = CodeOf(c, y, sb)
    BY <1>3
  <2> HIDE DEF v, y, e
  <2>3. LET d == EncodeValue(c, v, y, sb)
        IN  /\ d.c = ChannelNext(c, y, sb) /\ d.code = CodeOf(c, y, sb)
            /\ d.w \in Fed(pre) /\ Written(d.w) = Written(v) \o CodeBits(CodeOf(c, y, sb))
            /\ Len(d.w.cache) <= 39 + KMax
    BY <2>1, ValueEncoded
  <2>4. /\ e.c = cn[i] /\ e.code = cs[i]
        /\ e.w \in Fed(pre) /\ Written(e.w) = Written(v) \o CodeBits(cs[i])
        /\ Len(e.w.cache) <= 39 + KMax
    BY <2>2, <2>3
  <2> QED
    BY <2>4 DEF v
<1>8. h = [codec |-> Append(g.codec, e.c), w |-> e.w, codes |-> Append(g.codes, e.code)]
  <2>1. Len(g.codes) + 1 = i
    BY <1>1, <1>4, <1>6
  <2> QED
    BY <2>1 DEF EncodeNext, c
<1> HIDE DEF e, h
<1>9. h = [codec |-> UpTo(cn, i), w |-> e.w, codes |-> UpTo(cs, i)]
  BY <1>4, <1>6, <1>7, <1>8
<1>10. h.codec = UpTo(cn, i) /\ h.w = e.w /\ h.codes = UpTo(cs, i) /\ h \in EncGroups(pre)
  BY <1>6, <1>7, <1>9 DEF EncGroups
<1>11. Written(e.w) = Written(w) \o CodesBits(UpTo(cs, i))
  <2> DEFINE a == UpTo(cs, i - 1)
             k == cs[i]
  <2>1. a \in Seq(Code) /\ k \in Code /\ UpTo(cs, i) = Append(a, k)
    BY <1>1, <1>2, <1>4, <1>6
  <2>2. Written(e.w) = (Written(w) \o CodesBits(a)) \o CodeBits(k)
    BY <1>4, <1>7
  <2> HIDE DEF a, k
  <2>3. UpTo(cs, i) = a \o <<k>> /\ <<k>> \in Seq(Code)
    BY <2>1
  <2>4. CodesBits(UpTo(cs, i)) = CodesBits(a) \o CodeBits(k)
    BY <2>1, <2>3, CodesBitsConcat, CodesBitsOne
  <2>5. CodesBits(a) \in Seq(Bit) /\ CodeBits(k) \in Seq(Bit) /\ Written(w) \in Seq(Bit)
    BY <2>1, CodesBitsType, CodeBitsType, FedIs
  <2>6. (Written(w) \o CodesBits(a)) \o CodeBits(k) = Written(w) \o (CodesBits(a) \o CodeBits(k))
    BY <2>5, BitsConcat
  <2> QED
    BY <2>2, <2>4, <2>6
<1>12. h \in EncodedUpTo(codec, x, sb, pre, w, i)
  BY <1>7, <1>10, <1>11 DEF EncodedUpTo, cn, cs
<1> QED
  BY <1>12 DEF h

\* A group: its codes and the channels after it do not depend on the writer,
\* which takes the codes behind what it took before.
GroupEncoded(codec, x, sb, pre, w, g) ==
  /\ g \in EncGroups(pre)
  /\ g.codec = GroupNext(codec, x, sb) /\ g.codes = GroupCodes(codec, x, sb)
  /\ g.w \in Fed(pre) /\ Written(g.w) = Written(w) \o CodesBits(g.codes)
  /\ Len(g.w.cache) <= 39 + KMax

\* The differences of a group are int32_t again.
LEMMA DecorrelatedType ==
  ASSUME NEW s \in Seq(Int32)
  PROVE  Decorrelated(s) \in Seq(Int32) /\ Len(Decorrelated(s)) = Len(s)
<1> DEFINE n == Len(s)
           d == Decorrelated(s)
<1>1. n \in Nat /\ DOMAIN s = 1..n /\ \A j \in 1..n : s[j] \in Int32 /\ s[j] \in Int
  BY LenProperties, ElementOfSeq, IntWords
<1>2. d = [j \in 1..n |->
             IF j < n THEN Wrap(s[j + 1] - s[j])
             ELSE IF n = 1 THEN s[j] ELSE Wrap(s[j] - Half(Wrap(s[j] - s[j - 1])))]
  BY <1>1 DEF Decorrelated
<1> HIDE DEF n, d
<1>3. ASSUME NEW j \in 1..n PROVE d[j] \in Int32
  <2>1. CASE j < n
    <3>1. j + 1 \in 1..n
      BY <1>1, <2>1
    <3>2. s[j + 1] - s[j] \in Int
      BY <1>1, <3>1
    <3>3. Wrap(s[j + 1] - s[j]) \in Int32
      BY <3>2, WrapIs
    <3> QED
      BY <1>2, <2>1, <3>3
  <2>2. CASE ~(j < n) /\ n = 1
    BY <1>1, <1>2, <2>2
  <2>3. CASE ~(j < n) /\ n # 1
    <3>1. j - 1 \in 1..n
      BY <1>1, <2>3
    <3>2. s[j] - s[j - 1] \in Int
      BY <1>1, <3>1
    <3> DEFINE h == Wrap(s[j] - s[j - 1])
    <3>3. h \in Int
      BY <3>2, Ints
    <3> HIDE DEF h
    <3>4. Half(h) \in Int
      BY <3>3 DEF Half
    <3>5. s[j] - Half(h) \in Int
      BY <1>1, <3>4
    <3>6. Wrap(s[j] - Half(h)) \in Int32
      BY <3>5, WrapIs
    <3> QED
      BY <1>2, <2>3, <3>6 DEF h
  <2> QED
    BY <2>1, <2>2, <2>3
<1>4. d \in [1..n -> Int32]
  BY <1>2, <1>3
<1>5. d \in Seq(Int32) /\ Len(d) = n
  BY <1>1, <1>4
<1> QED
  BY <1>5 DEF d, n

\* A group is encoded.
LEMMA EncodeGroupIs ==
  ASSUME NEW codec \in Seq(Channel), NEW s \in Seq(Int32), Len(s) = Len(codec), Len(s) > 0,
         NEW sb \in 1..3, NEW pre \in Seq(Byte), NEW w \in Fed(pre)
  PROVE  GroupEncoded(codec, Decorrelated(s), sb, pre, w, EncodeGroup(codec, w, s, sb))
<1> DEFINE x == Decorrelated(s)
           n == Len(s)
           A == EncGroups(pre)
           P == [i \in 0..n |-> EncodedUpTo(codec, x, sb, pre, w, i)]
           a == [codec |-> <<>>, w |-> w, codes |-> <<>>]
           step == [i \in 1..n |-> [g \in A |-> EncodeNext(codec, g, x[i], sb)]]
           R(f) == f = [j \in 0..n |-> IF j = 0 THEN a ELSE EncodeNext(codec, f[j - 1], x[j], sb)]
           low == CHOOSE f : R(f)
<1>1. n \in Nat /\ n > 0
  BY LenProperties
<1>2. x \in Seq(Int32) /\ Len(x) = n
  BY DecorrelatedType
<1>3. EncodeGroup(codec, w, s, sb) = low[n]
  BY Zenon DEF EncodeGroup
<1> HIDE DEF x
<1>4. \A i \in 0..n : P[i] = EncodedUpTo(codec, x, sb, pre, w, i) /\ P[i] \subseteq A
  BY DEF EncodedUpTo
<1>5. a \in EncodedUpTo(codec, x, sb, pre, w, 0)
  <2> DEFINE cn == GroupNext(codec, x, sb)
             cs == GroupCodes(codec, x, sb)
  <2>1. UpTo(cn, 0) = <<>> /\ UpTo(cs, 0) = <<>>
    BY DEF UpTo
  <2>2. Written(w) = Written(w) \o <<>>
    <3>1. Written(w) \in Seq(Bit)
      BY FedIs
    <3> QED
      BY <3>1, ConcatEmptySeq
  <2>3. <<>> \in Seq(Channel) /\ <<>> \in Seq(Code)
    OBVIOUS
  <2>4. a.codec = <<>> /\ a.codes = <<>> /\ a.w = w
    OBVIOUS
  <2>5. a \in EncGroups(pre)
    BY <2>3 DEF EncGroups
  <2> HIDE DEF a, cn, cs
  <2>6. /\ a.codec = UpTo(cn, 0) /\ a.codes = UpTo(cs, 0)
        /\ Written(a.w) = Written(w) \o CodesBits(a.codes)
    BY <2>1, <2>2, <2>4, CodesBitsEmpty
  <2>7. ~(0 > 0)
    OBVIOUS
  <2> QED
    BY <2>5, <2>6, <2>7, Zenon DEF EncodedUpTo, cn, cs
<1>6. ASSUME NEW i \in 1..n, NEW g \in EncodedUpTo(codec, x, sb, pre, w, i - 1)
      PROVE  EncodeNext(codec, g, x[i], sb) \in EncodedUpTo(codec, x, sb, pre, w, i)
  BY <1>2, EncodeNextIs
<1> HIDE DEF A
<1>7. \A i \in 1..n, g \in A : step[i][g] = EncodeNext(codec, g, x[i], sb)
  BY Zenon
<1> HIDE DEF P, step, a
<1>8. IteratesIn(A, P, a, n, step)
  <2>1. a \in P[0]
    BY <1>1, <1>4, <1>5
  <2>2. ASSUME NEW i \in 1..n, NEW g \in P[i - 1] PROVE step[i][g] \in P[i]
    <3>1. i - 1 \in 0..n /\ i \in 0..n
      OBVIOUS
    <3>2. g \in A /\ g \in EncodedUpTo(codec, x, sb, pre, w, i - 1)
      BY <1>4, <3>1
    <3> QED
      BY <1>4, <1>6, <1>7, <3>1, <3>2
  <2> HIDE DEF n
  <2> QED
    BY <1>1, <1>4, <2>1, <2>2, RecursionIn
<1>9. PICK f \in [0..n -> A] :
         /\ f[0] = a /\ \A i \in 1..n : f[i] = step[i][f[i - 1]]
         /\ \A i \in 0..n : f[i] \in P[i]
  BY <1>8 DEF IteratesIn
<1>10. R(f)
  <2>1. ASSUME NEW j \in 1..n PROVE f[j] = EncodeNext(codec, f[j - 1], x[j], sb)
    <3>1. f[j - 1] \in A
      BY <1>1
    <3> QED
      BY <1>7, <1>9, <3>1
  <2>2. f = [j \in 0..n |-> IF j = 0 THEN a ELSE EncodeNext(codec, f[j - 1], x[j], sb)]
    BY <1>1, <1>9, <2>1
  <2> QED
    BY <2>2
<1>11. R(low)
  BY <1>10, Zenon
<1> HIDE DEF low
<1> DEFINE T == {i \in 0..n : low[i] \in EncodedUpTo(codec, x, sb, pre, w, i)}
<1>12. 0 \in T
  BY <1>1, <1>5, <1>11
<1>13. ASSUME NEW i \in 1..n, i - 1 \in T PROVE i \in T
  <2>1. low[i - 1] \in EncodedUpTo(codec, x, sb, pre, w, i - 1)
    BY <1>13
  <2>2. low[i] = EncodeNext(codec, low[i - 1], x[i], sb)
    BY <1>11
  <2> QED
    BY <1>6, <2>1, <2>2
<1> HIDE DEF T
<1>14. n \in T
  <2>1. \A i \in 0..n : i \in T
    BY <1>1, <1>12, <1>13, UpToInduction
  <2>2. n \in 0..n
    BY <1>1
  <2> QED
    BY <2>1, <2>2
<1> DEFINE g == low[n]
           cn == GroupNext(codec, x, sb)
           cs == GroupCodes(codec, x, sb)
<1>15. g \in EncodedUpTo(codec, x, sb, pre, w, n)
  BY <1>14 DEF T
<1>16. cn \in [1..n -> Channel] /\ cs \in [1..n -> Code]
  <2>1. cn \in [1..Len(x) -> Channel] /\ cs \in [1..Len(x) -> Code]
    BY <1>2, GroupTypes
  <2> QED
    BY <1>2, <2>1
<1> HIDE DEF g, cn, cs, n
<1>17. UpTo(cn, n) = cn /\ UpTo(cs, n) = cs
  BY <1>1, <1>16, UpToAll
<1>18. /\ g \in EncGroups(pre) /\ g.codec = cn /\ g.codes = cs /\ g.w \in Fed(pre)
       /\ Written(g.w) = Written(w) \o CodesBits(g.codes) /\ Len(g.w.cache) <= 39 + KMax
  BY <1>1, <1>15, <1>17 DEF EncodedUpTo, EncGroups, cn, cs
<1> QED
  BY <1>3, <1>18 DEF GroupEncoded, g, cn, cs, x

-----------------------------------------------------------------------------
(* Decoding a group *)

DecGroups == [codec : Seq(Channel), r : Readers, x : Seq(Int32)]

\* The bytes a channel may read.
ValueBytes(sb) == UnaryMaxBytes[sb] + 5

\* What is decoded after i channels, whatever the bytes are.
DecodedUpTo(r, sb, i) ==
  {g \in DecGroups : Len(g.codec) = i /\ Len(g.x) = i /\ ReadOn(r, g.r, i * ValueBytes(sb))}

\* The bytes a channel may read are a number,
LEMMA ValueBytesIs == ASSUME NEW sb \in 1..3 PROVE ValueBytes(sb) \in Nat
BY LimitIs DEF ValueBytes

\* and so are those of some channels.
LEMMA GroupBytesIs ==
  ASSUME NEW sb \in 1..3, NEW i \in Nat \ {0}
  PROVE  /\ (i - 1) * ValueBytes(sb) \in Nat
         /\ (i - 1) * ValueBytes(sb) + ValueBytes(sb) = i * ValueBytes(sb)
         /\ i * ValueBytes(sb) \in Nat
<1> DEFINE v == ValueBytes(sb)
           m == i - 1
<1>1. v \in Nat /\ m \in Nat /\ i = m + 1
  BY ValueBytesIs
<1> HIDE DEF v, m
<1>2. m * v \in Nat /\ m * v + v = (m + 1) * v
  BY <1>1
<1> QED
  BY <1>1, <1>2 DEF v, m

\* One channel more is decoded.
LEMMA DecodeNextIs ==
  ASSUME NEW c \in Channel, NEW sb \in 1..3, NEW r \in Readers, NEW i \in Nat \ {0},
         NEW g \in DecodedUpTo(r, sb, i - 1)
  PROVE  DecodeNext(c, g, sb) \in DecodedUpTo(r, sb, i)
<1> DEFINE d == DecodeValue(c, g.r, sb)
           h == DecodeNext(c, g, sb)
<1>1. /\ g.codec \in Seq(Channel) /\ g.r \in Readers /\ g.x \in Seq(Int32)
      /\ Len(g.codec) = i - 1 /\ Len(g.x) = i - 1 /\ ReadOn(r, g.r, (i - 1) * ValueBytes(sb))
  BY DEF DecodedUpTo, DecGroups
<1>2. Len(g.r.cache) <= 7
  BY <1>1 DEF ReadOn
<1>3. d.c \in Channel /\ d.x \in Int32 /\ ReadOn(g.r, d.r, ValueBytes(sb))
  <2> DEFINE q == g.r
  <2>1. q \in Readers /\ Len(q.cache) <= 7
    BY <1>1, <1>2
  <2> HIDE DEF q
  <2>2. LET e == DecodeValue(c, q, sb)
        IN  e.c \in Channel /\ e.x \in Int32 /\ ReadOn(q, e.r, UnaryMaxBytes[sb] + 5)
    BY <2>1, ValueRead
  <2> QED
    BY <2>2 DEF q, ValueBytes
<1>4. h = [codec |-> Append(g.codec, d.c), r |-> d.r, x |-> Append(g.x, d.x)]
  BY DEF DecodeNext
<1> HIDE DEF d, h
<1>5. ReadOn(r, d.r, i * ValueBytes(sb))
  <2> DEFINE m == (i - 1) * ValueBytes(sb)
             v == ValueBytes(sb)
             q == g.r
             p == d.r
  <2>1. m \in Nat /\ v \in Nat /\ m + v = i * ValueBytes(sb)
    BY GroupBytesIs, ValueBytesIs
  <2>2. ReadOn(r, q, m) /\ ReadOn(q, p, v)
    BY <1>1, <1>3
  <2> HIDE DEF m, v, q, p
  <2>3. ReadOn(r, p, m + v)
    BY <2>1, <2>2, ReadOnTrans
  <2> QED
    BY <2>1, <2>3 DEF p
<1>6. d.r \in Readers
  BY <1>5 DEF ReadOn
<1>7. /\ Append(g.codec, d.c) \in Seq(Channel) /\ Len(Append(g.codec, d.c)) = i
      /\ Append(g.x, d.x) \in Seq(Int32) /\ Len(Append(g.x, d.x)) = i
  BY <1>1, <1>3
<1>8. h \in DecGroups /\ h.codec = Append(g.codec, d.c) /\ h.x = Append(g.x, d.x) /\ h.r = d.r
  BY <1>4, <1>6, <1>7 DEF DecGroups
<1>9. h \in DecodedUpTo(r, sb, i)
  BY <1>5, <1>7, <1>8 DEF DecodedUpTo
<1> QED
  BY <1>9 DEF h

\* The steps in which a group is decoded.
GroupSteps(codec, r, sb, low) ==
  /\ DecodeGroup(codec, r, sb) = low[Len(codec)]
  /\ low[0] = [codec |-> <<>>, r |-> r, x |-> <<>>]
  /\ \A i \in 1..Len(codec) : low[i] = DecodeNext(codec[i], low[i - 1], sb)
  /\ \A i \in 0..Len(codec) : low[i] \in DecodedUpTo(r, sb, i)

\* Decoding a group makes these steps.
LEMMA DecodeGroupIs ==
  ASSUME NEW codec \in Seq(Channel), NEW r \in Readers, Len(r.cache) <= 7, NEW sb \in 1..3
  PROVE  \E low : GroupSteps(codec, r, sb, low)
<1> DEFINE n == Len(codec)
           A == DecGroups
           P == [i \in 0..n |-> DecodedUpTo(r, sb, i)]
           a == [codec |-> <<>>, r |-> r, x |-> <<>>]
           step == [i \in 1..n |-> [g \in A |-> DecodeNext(codec[i], g, sb)]]
           R(f) == f = [j \in 0..n |-> IF j = 0 THEN a ELSE DecodeNext(codec[j], f[j - 1], sb)]
           low == CHOOSE f : R(f)
<1>1. n \in Nat /\ \A i \in 1..n : codec[i] \in Channel
  BY LenProperties, ElementOfSeq
<1>3. DecodeGroup(codec, r, sb) = low[n]
  BY Zenon DEF DecodeGroup
<1>4. \A i \in 0..n : P[i] = DecodedUpTo(r, sb, i) /\ P[i] \subseteq A
  BY DEF DecodedUpTo
<1>5. a \in DecodedUpTo(r, sb, 0)
  <2>1. <<>> \in Seq(Channel) /\ <<>> \in Seq(Int32) /\ Len(<<>>) = 0
    OBVIOUS
  <2>2. ReadOn(r, r, 0)
    BY ReaderIs DEF ReadOn
  <2>3. 0 * ValueBytes(sb) = 0
    BY ValueBytesIs
  <2>4. a \in DecGroups /\ a.codec = <<>> /\ a.x = <<>> /\ a.r = r
    BY <2>1 DEF DecGroups
  <2> HIDE DEF a
  <2> QED
    BY <2>1, <2>2, <2>3, <2>4 DEF DecodedUpTo
<1>6. ASSUME NEW i \in 1..n, NEW g \in DecodedUpTo(r, sb, i - 1)
      PROVE  DecodeNext(codec[i], g, sb) \in DecodedUpTo(r, sb, i)
  <2>1. codec[i] \in Channel /\ i \in Nat \ {0}
    BY <1>1
  <2> QED
    BY <2>1, DecodeNextIs
<1> HIDE DEF A
<1>7. \A i \in 1..n, g \in A : step[i][g] = DecodeNext(codec[i], g, sb)
  BY Zenon
<1> HIDE DEF P, step, a
<1>8. IteratesIn(A, P, a, n, step)
  <2>1. a \in P[0]
    BY <1>1, <1>4, <1>5
  <2>2. ASSUME NEW i \in 1..n, NEW g \in P[i - 1] PROVE step[i][g] \in P[i]
    <3>1. i - 1 \in 0..n /\ i \in 0..n
      BY <1>1
    <3>2. g \in A /\ g \in DecodedUpTo(r, sb, i - 1)
      BY <1>4, <3>1
    <3> QED
      BY <1>4, <1>6, <1>7, <3>1, <3>2
  <2> HIDE DEF n
  <2> QED
    BY <1>1, <1>4, <2>1, <2>2, RecursionIn
<1>9. PICK f \in [0..n -> A] :
         /\ f[0] = a /\ \A i \in 1..n : f[i] = step[i][f[i - 1]]
         /\ \A i \in 0..n : f[i] \in P[i]
  BY <1>8 DEF IteratesIn
<1>10. R(f)
  <2>1. ASSUME NEW j \in 1..n PROVE f[j] = DecodeNext(codec[j], f[j - 1], sb)
    <3>1. f[j - 1] \in A
      BY <1>1
    <3> QED
      BY <1>7, <1>9, <3>1
  <2>2. f = [j \in 0..n |-> IF j = 0 THEN a ELSE DecodeNext(codec[j], f[j - 1], sb)]
    BY <1>1, <1>9, <2>1
  <2> QED
    BY <2>2
<1>11. R(low)
  BY <1>10, Zenon
<1> HIDE DEF low
<1>12. /\ low[0] = a /\ \A i \in 1..n : low[i] = DecodeNext(codec[i], low[i - 1], sb)
  BY <1>1, <1>11
<1> DEFINE T == {i \in 0..n : low[i] \in DecodedUpTo(r, sb, i)}
<1>13. 0 \in T
  BY <1>1, <1>5, <1>12
<1>14. ASSUME NEW i \in 1..n, i - 1 \in T PROVE i \in T
  <2>1. low[i - 1] \in DecodedUpTo(r, sb, i - 1)
    BY <1>14
  <2>2. low[i] = DecodeNext(codec[i], low[i - 1], sb)
    BY <1>12
  <2> QED
    BY <1>6, <2>1, <2>2
<1> HIDE DEF T
<1>15. \A i \in 0..n : i \in T
  BY <1>1, <1>13, <1>14, UpToInduction
<1>16. \A i \in 0..n : low[i] \in DecodedUpTo(r, sb, i)
  BY <1>15 DEF T
<1>17. GroupSteps(codec, r, sb, low)
  BY <1>3, <1>12, <1>16 DEF GroupSteps, a
<1> QED
  BY <1>17

\* A group is decoded whatever the bytes are.
LEMMA GroupRead ==
  ASSUME NEW codec \in Seq(Channel), NEW r \in Readers, Len(r.cache) <= 7, NEW sb \in 1..3
  PROVE  DecodeGroup(codec, r, sb) \in DecodedUpTo(r, sb, Len(codec))
<1>1. PICK low : GroupSteps(codec, r, sb, low)
  BY DecodeGroupIs
<1>2. Len(codec) \in 0..Len(codec)
  BY LenProperties
<1> QED
  BY <1>1, <1>2 DEF GroupSteps

-----------------------------------------------------------------------------
\* The codes of a group from the i-th on.
CodesFrom(cs, i) == CodesBits(SubSeq(cs, i, Len(cs)))

\* The first of the remaining codes.
LEMMA CodesFromIs ==
  ASSUME NEW cs \in Seq(Code), NEW i \in 1..Len(cs)
  PROVE  /\ CodesFrom(cs, i) = CodeBits(cs[i]) \o CodesFrom(cs, i + 1)
         /\ CodesFrom(cs, i + 1) \in Seq(Bit)
<1> DEFINE n == Len(cs)
           a == SubSeq(cs, i, n)
           b == SubSeq(cs, i + 1, n)
           k == cs[i]
<1>1. n \in Nat /\ i \in 1..n /\ k \in Code /\ i \in Nat \ {0} /\ i + 1 \in Nat \ {0} /\ n \in Int
  BY LenProperties, ElementOfSeq
<1>2. /\ a \in Seq(Code) /\ Len(a) = n - i + 1
      /\ \A j \in 1..(n - i + 1) : a[j] = cs[i + j - 1]
  <2>1. n <= Len(cs)
    BY <1>1
  <2> HIDE DEF n
  <2>2. /\ a \in Seq(Code) /\ Len(a) = (IF i <= n THEN n - i + 1 ELSE 0)
        /\ \A j \in 1..(n - i + 1) : a[j] = cs[i + j - 1]
    BY <1>1, <2>1, SubSeqIs
  <2> QED
    BY <1>1, <2>2
<1>3. /\ b \in Seq(Code) /\ Len(b) = n - i
      /\ \A j \in 1..(n - i) : b[j] = cs[i + j]
  <2>1. n <= Len(cs)
    BY <1>1
  <2> DEFINE m == i + 1
  <2>3. m \in Nat \ {0} /\ n - m + 1 = n - i /\ m <= n + 1
    BY <1>1
  <2>4. \A j \in Nat : m + j - 1 = i + j
    BY <1>1
  <2> HIDE DEF n, m
  <2>2. /\ SubSeq(cs, m, n) \in Seq(Code) /\ Len(SubSeq(cs, m, n)) = (IF m <= n THEN n - m + 1 ELSE 0)
        /\ \A j \in 1..(n - m + 1) : SubSeq(cs, m, n)[j] = cs[m + j - 1]
    BY <1>1, <2>1, <2>3, SubSeqIs
  <2>5. Len(SubSeq(cs, m, n)) = n - i
    BY <1>1, <2>2, <2>3
  <2>6. \A j \in 1..(n - i) : SubSeq(cs, m, n)[j] = cs[i + j]
    BY <2>2, <2>3, <2>4
  <2> QED
    BY <2>2, <2>5, <2>6 DEF m
<1> DEFINE c == <<k>> \o b
<1>4. <<k>> \in Seq(Code) /\ Len(<<k>>) = 1 /\ <<k>>[1] = k
  BY <1>1
<1>5. /\ c \in Seq(Code) /\ Len(c) = n - i + 1
      /\ \A j \in 1..(n - i + 1) : c[j] = IF j <= 1 THEN k ELSE b[j - 1]
  <2> DEFINE p == 1
             q == n - i
             s == <<k>>
  <2>1. /\ s \in Seq(Code) /\ Len(s) = p /\ b \in Seq(Code) /\ Len(b) = q
        /\ p \in Nat /\ q \in Nat
    BY <1>1, <1>3, <1>4
  <2> HIDE DEF p, q, s, b, n
  <2>2. /\ s \o b \in Seq(Code) /\ Len(s \o b) = p + q
        /\ \A j \in 1..(p + q) : (s \o b)[j] = IF j <= p THEN s[j] ELSE b[j - p]
    BY <2>1, ConcatIs
  <2>3. p = 1 /\ p + q = n - i + 1
    BY <1>1 DEF p, q
  <2>4. \A j \in 1..(n - i + 1) : j <= 1 => j = 1
    BY <1>1
  <2> QED
    BY <1>4, <2>2, <2>3, <2>4 DEF s
<1>6. ASSUME NEW j \in 1..(n - i + 1) PROVE c[j] = a[j]
  <2>1. CASE j = 1
    BY <1>1, <1>2, <1>5, <2>1
  <2>2. CASE j # 1
    <3>1. j - 1 \in 1..(n - i) /\ i + (j - 1) = i + j - 1 /\ ~(j <= 1)
      BY <1>1, <2>2
    <3> HIDE DEF n, a, b, c, k
    <3> QED
      BY <1>2, <1>3, <1>5, <3>1
  <2> QED
    BY <2>1, <2>2
<1> HIDE DEF n, a, b, c, k
<1>7. c = a
  BY <1>2, <1>5, <1>6, SeqEqual
<1>8. CodesBits(c) = CodesBits(<<k>>) \o CodesBits(b)
  BY <1>3, <1>4, CodesBitsConcat DEF c
<1>9. CodesBits(<<k>>) = CodeBits(k) /\ CodesBits(b) \in Seq(Bit)
  BY <1>1, <1>3, CodesBitsOne, CodesBitsType
<1> QED
  BY <1>7, <1>8, <1>9 DEF CodesFrom, a, b, k, n

\* What is decoded after i channels when the codes of the group x are pending,
\* and t behind them.
BackUpTo(codec, x, sb, r, t, i) ==
  {g \in DecodedUpTo(r, sb, i) :
     /\ g.codec = UpTo(GroupNext(codec, x, sb), i)
     /\ g.x = UpTo(x, i)
     /\ Pending(g.r) = CodesFrom(GroupCodes(codec, x, sb), i + 1) \o t
     /\ g.r.nbytes <= Len(g.r.src)}

\* One channel more comes back.
LEMMA BackNext ==
  ASSUME NEW codec \in Seq(Channel), NEW x \in Seq(Int32), Len(x) = Len(codec), NEW sb \in 1..3,
         NEW r \in Readers, NEW t \in Seq(Bit), NEW i \in 1..Len(x),
         CodeOf(codec[i], x[i], sb).unary <= get_unary_lax_limit(sb),
         NEW g \in BackUpTo(codec, x, sb, r, t, i - 1)
  PROVE  DecodeNext(codec[i], g, sb) \in BackUpTo(codec, x, sb, r, t, i)
<1> DEFINE n == Len(x)
           cn == GroupNext(codec, x, sb)
           cs == GroupCodes(codec, x, sb)
           c == codec[i]
           y == x[i]
           q == g.r
           d == DecodeValue(c, q, sb)
           h == DecodeNext(c, g, sb)
           u == CodesFrom(cs, i + 1) \o t
<1>1. n \in Nat /\ i \in 1..n /\ c \in Channel /\ y \in Int32 /\ i \in Nat \ {0}
  BY LenProperties, ElementOfSeq
<1>2. /\ cn \in [1..n -> Channel] /\ cs \in [1..n -> Code] /\ cs \in Seq(Code) /\ Len(cs) = n
      /\ x \in [1..n -> Int32]
  <2>1. x \in [1..n -> Int32]
    BY LenProperties, ElementOfSeq
  <2> QED
    BY <2>1, GroupTypes
<1>3. cn[i] = ChannelNext(c, y, sb) /\ cs[i] = CodeOf(c, y, sb)
  BY DEF GroupNext, GroupCodes
<1>4. /\ g \in DecodedUpTo(r, sb, i - 1)
      /\ g.codec = UpTo(cn, i - 1) /\ g.x = UpTo(x, i - 1)
      /\ Pending(q) = CodesFrom(cs, i - 1 + 1) \o t /\ q.nbytes <= Len(q.src)
  BY DEF BackUpTo
<1>5. q \in Readers /\ Len(q.cache) <= 7
  BY <1>4 DEF DecodedUpTo, DecGroups, ReadOn
<1>6. h = [codec |-> Append(g.codec, d.c), r |-> d.r, x |-> Append(g.x, d.x)]
  BY DEF DecodeNext
<1>7. h \in DecodedUpTo(r, sb, i)
  BY <1>1, <1>4, DecodeNextIs
<1>8. CodeOf(c, y, sb).unary <= get_unary_lax_limit(sb)
  OBVIOUS
<1> HIDE DEF n, cn, cs, c, y, q, d, h
<1>9. Pending(q) = CodeBits(CodeOf(c, y, sb)) \o u /\ u \in Seq(Bit)
  <2>1. i - 1 + 1 = i
    BY <1>1
  <2>2. i \in 1..Len(cs)
    BY <1>1, <1>2
  <2>3. CodesFrom(cs, i) = CodeBits(cs[i]) \o CodesFrom(cs, i + 1) /\ CodesFrom(cs, i + 1) \in Seq(Bit)
    BY <1>2, <2>2, CodesFromIs
  <2>4. CodeBits(cs[i]) \in Seq(Bit)
    <3>1. cs[i] \in Code
      BY <1>1, <1>2
    <3> QED
      BY <3>1, CodeBitsType
  <2> DEFINE a == CodeBits(cs[i])
             b == CodesFrom(cs, i + 1)
  <2>5. Pending(q) = (a \o b) \o t
    BY <1>4, <2>1, <2>3
  <2>6. a \in Seq(Bit) /\ b \in Seq(Bit)
    BY <2>3, <2>4
  <2>7. u = b \o t
    OBVIOUS
  <2>8. a = CodeBits(CodeOf(c, y, sb))
    BY <1>3
  <2> HIDE DEF a, b, u
  <2>9. (a \o b) \o t = a \o (b \o t) /\ b \o t \in Seq(Bit)
    BY <2>6, BitsConcat, ConcatProperties
  <2> QED
    BY <2>5, <2>7, <2>8, <2>9
<1> HIDE DEF u
<1>10. ValueComesBack(c, q, y, sb, u)
  BY <1>1, <1>4, <1>5, <1>8, <1>9, ValueBack
<1>11. /\ d.c = cn[i] /\ d.x = x[i] /\ Pending(d.r) = u /\ d.r.nbytes <= Len(d.r.src)
  BY <1>3, <1>10 DEF ValueComesBack, d, y
<1>12. Grown(Channel, cn, i) /\ Grown(Int32, x, i)
  BY <1>1, <1>2, UpToNext
<1>13. Append(UpTo(cn, i - 1), cn[i]) = UpTo(cn, i) /\ Append(UpTo(x, i - 1), x[i]) = UpTo(x, i)
  BY <1>12, Zenon DEF Grown
<1>14. h.codec = UpTo(cn, i) /\ h.x = UpTo(x, i) /\ h.r = d.r
  BY <1>4, <1>6, <1>11, <1>13
<1>15. h \in BackUpTo(codec, x, sb, r, t, i)
  BY <1>7, <1>11, <1>14, Zenon DEF BackUpTo, u, cn, cs
<1> QED
  BY <1>15 DEF h, c

\* A group whose codes are pending comes back.
GroupBack(codec, x, sb, t, g) ==
  /\ g.codec = GroupNext(codec, x, sb) /\ g.x = x
  /\ Pending(g.r) = t /\ g.r.nbytes <= Len(g.r.src)

\* Wherever the bits of the codes of a group lie in cache and bytes, and whatever
\* is behind them, the decoder that starts from the channels of the encoder takes
\* exactly those bits, gives the values back and ends with the same channels
\* (rice24.h, tta_dec.h).
THEOREM GroupComesBack ==
  ASSUME NEW codec \in Seq(Channel), NEW x \in Seq(Int32), Len(x) = Len(codec), NEW sb \in 1..3,
         NEW r \in Readers, Len(r.cache) <= 7, r.nbytes <= Len(r.src), NEW t \in Seq(Bit),
         \A i \in 1..Len(x) : CodeOf(codec[i], x[i], sb).unary <= get_unary_lax_limit(sb),
         Pending(r) = CodesBits(GroupCodes(codec, x, sb)) \o t
  PROVE  GroupBack(codec, x, sb, t, DecodeGroup(codec, r, sb))
<1> DEFINE n == Len(x)
           cn == GroupNext(codec, x, sb)
           cs == GroupCodes(codec, x, sb)
<1>1. PICK low : GroupSteps(codec, r, sb, low)
  BY DecodeGroupIs
<1>2. n \in Nat /\ Len(codec) = n
  BY LenProperties
<1>3. /\ cn \in [1..n -> Channel] /\ cs \in Seq(Code) /\ Len(cs) = n /\ x \in [1..n -> Int32]
  <2>1. x \in [1..n -> Int32]
    BY LenProperties, ElementOfSeq
  <2> QED
    BY <2>1, GroupTypes
<1>4. /\ DecodeGroup(codec, r, sb) = low[n]
      /\ low[0] = [codec |-> <<>>, r |-> r, x |-> <<>>]
      /\ \A i \in 1..n : low[i] = DecodeNext(codec[i], low[i - 1], sb)
      /\ \A i \in 0..n : low[i] \in DecodedUpTo(r, sb, i)
  BY <1>1, <1>2 DEF GroupSteps
<1> DEFINE T == {i \in 0..n : low[i] \in BackUpTo(codec, x, sb, r, t, i)}
<1>5. 0 \in T
  <2> DEFINE g == low[0]
  <2>1. g \in DecodedUpTo(r, sb, 0) /\ g.codec = <<>> /\ g.r = r /\ g.x = <<>> /\ 0 \in 0..n
    BY <1>2, <1>4
  <2> HIDE DEF g, cn, cs, n
  <2>2. UpTo(cn, 0) = <<>> /\ UpTo(x, 0) = <<>>
    BY DEF UpTo
  <2>3. CodesFrom(cs, 0 + 1) = CodesBits(cs)
    <3>1. SubSeq(cs, 1, Len(cs)) = cs
      BY <1>3
    <3>2. 0 + 1 = 1
      OBVIOUS
    <3> QED
      BY <3>1, <3>2 DEF CodesFrom
  <2>4. Pending(r) = CodesFrom(cs, 0 + 1) \o t
    BY <2>3 DEF cs
  <2>5. g \in BackUpTo(codec, x, sb, r, t, 0)
    BY <2>1, <2>2, <2>4, Zenon DEF BackUpTo, cn, cs
  <2> QED
    BY <2>1, <2>5 DEF g
<1>6. ASSUME NEW i \in 1..n, i - 1 \in T PROVE i \in T
  <2>1. low[i - 1] \in BackUpTo(codec, x, sb, r, t, i - 1)
    BY <1>6
  <2>2. low[i] = DecodeNext(codec[i], low[i - 1], sb)
    BY <1>4
  <2>3. CodeOf(codec[i], x[i], sb).unary <= get_unary_lax_limit(sb)
    OBVIOUS
  <2>4. DecodeNext(codec[i], low[i - 1], sb) \in BackUpTo(codec, x, sb, r, t, i)
    BY <2>1, <2>3, BackNext
  <2> QED
    BY <2>2, <2>4
<1> HIDE DEF T
<1>7. n \in T
  <2>1. \A i \in 0..n : i \in T
    BY <1>2, <1>5, <1>6, UpToInduction
  <2>2. n \in 0..n
    BY <1>2
  <2> QED
    BY <2>1, <2>2
<1> DEFINE g == low[n]
<1>8. g \in BackUpTo(codec, x, sb, r, t, n)
  BY <1>7 DEF T
<1> HIDE DEF g, cn, cs, n
<1>9. UpTo(cn, n) = cn /\ UpTo(x, n) = x
  BY <1>2, <1>3, UpToAll
<1>10. CodesFrom(cs, n + 1) \o t = t
  <2>1. SubSeq(cs, n + 1, n) = <<>>
    BY <1>2, <1>3
  <2>2. <<>> \o t = t
    BY ConcatEmptySeq
  <2> QED
    BY <1>3, <2>1, <2>2, CodesBitsEmpty DEF CodesFrom
<1>11. g.codec = cn /\ g.x = x /\ Pending(g.r) = t /\ g.r.nbytes <= Len(g.r.src)
  BY <1>8, <1>9, <1>10 DEF BackUpTo, cn, cs
<1> QED
  BY <1>4, <1>11 DEF GroupBack, g, cn

-----------------------------------------------------------------------------
(* The samples of a group, correlated again *)

\* The equations of Correlated: from the last channel down.
Undoes(x, s) ==
  s = [j \in 1..Len(x) |->
        IF j < Len(x) THEN Wrap(s[j + 1] - x[j])
        ELSE IF Len(x) = 1 THEN x[Len(x)] ELSE Wrap(x[Len(x)] + Half(x[Len(x) - 1]))]

\* Correlated, without its local names.
LEMMA CorrelatedIs ==
  ASSUME NEW x
  PROVE  Correlated(x) = [j \in 1..Len(x) |-> (CHOOSE s : Undoes(x, s))[j]]
BY Zenon DEF Correlated, Undoes

\* Half of an integer.
LEMMA HalfType == ASSUME NEW x \in Int PROVE Half(x) \in Int
BY DEF Half

\* The equations have a solution.
LEMMA Undone ==
  ASSUME NEW x \in Seq(Int32), Len(x) > 0
  PROVE  \E s \in [1..Len(x) -> Int32] : Undoes(x, s)
<1> DEFINE n == Len(x)
           m == n - 1
           a == IF n = 1 THEN x[n] ELSE Wrap(x[n] + Half(x[n - 1]))
           step == [i \in 1..m |-> [v \in Int32 |-> Wrap(v - x[n - i])]]
<1>0. /\ n \in Nat /\ n > 0 /\ DOMAIN x = 1..n
      /\ \A j \in 1..n : x[j] \in Int32 /\ x[j] \in Int
  BY LenProperties, ElementOfSeq, IntWords
<1>1. /\ n \in Nat /\ n > 0 /\ m \in Nat /\ DOMAIN x = 1..n
      /\ \A j \in 1..n : x[j] \in Int32 /\ x[j] \in Int
  <2> HIDE DEF n
  <2> QED
    BY <1>0
<1>2. a \in Int32
  <2>1. CASE n = 1
    BY <1>1, <2>1
  <2>2. CASE n # 1
    <3>1. x[n] \in Int /\ x[n - 1] \in Int
      BY <1>1, <2>2
    <3>2. x[n] + Half(x[n - 1]) \in Int
      <4>1. Half(x[n - 1]) \in Int
        BY <3>1, HalfType
      <4> QED
        BY <3>1, <4>1
    <3>3. Wrap(x[n] + Half(x[n - 1])) \in Int32
      BY <3>2, WrapIs
    <3> QED
      BY <2>2, <3>3
  <2> QED
    BY <2>1, <2>2
<1>3. ASSUME NEW i \in 1..m, NEW v \in Int32 PROVE Wrap(v - x[n - i]) \in Int32
  <2>1. n - i \in 1..n
    BY <1>1
  <2>2. v - x[n - i] \in Int
    <3>1. v \in Int /\ x[n - i] \in Int
      BY <1>1, <2>1, IntWords
    <3> QED
      BY <3>1
  <2> QED
    BY <2>2, WrapIs
<1>4. step \in [1..m -> [Int32 -> Int32]]
  <2> HIDE DEF m, n
  <2> QED
    BY <1>3
<1>5. \A i \in 1..m, v \in Int32 : step[i][v] = Wrap(v - x[n - i])
  BY Zenon
<1> HIDE DEF a, step
<1>6. Iterates(Int32, a, m, step)
  <2> HIDE DEF m
  <2> QED
    BY <1>1, <1>2, <1>4, Recursion
<1>7. PICK f \in [0..m -> Int32] : f[0] = a /\ \A i \in 1..m : f[i] = step[i][f[i - 1]]
  BY <1>6 DEF Iterates
<1> DEFINE s == [j \in 1..n |-> f[n - j]]
<1>8. s \in [1..n -> Int32]
  <2>1. \A j \in 1..n : n - j \in 0..m
    BY <1>1
  <2> QED
    BY <2>1
<1>9. ASSUME NEW j \in 1..n, j < n PROVE s[j] = Wrap(s[j + 1] - x[j])
  <2>1. /\ n - j \in 1..m /\ j + 1 \in 1..n /\ n - (j + 1) = n - j - 1 /\ n - j - 1 \in 0..m
        /\ n - (n - j) = j
    BY <1>1, <1>9
  <2>2. s[j] = f[n - j] /\ s[j + 1] = f[n - j - 1]
    BY <2>1
  <2>3. f[n - j - 1] \in Int32
    BY <2>1
  <2>4. f[n - j] = step[n - j][f[n - j - 1]]
    BY <1>7, <2>1
  <2>5. step[n - j][f[n - j - 1]] = Wrap(f[n - j - 1] - x[n - (n - j)])
    BY <1>5, <2>1, <2>3
  <2> QED
    BY <2>1, <2>2, <2>4, <2>5
<1>10. s[n] = a
  <2>1. n \in 1..n /\ n - n = 0
    BY <1>1
  <2> QED
    BY <1>7, <2>1
<1> HIDE DEF s
<1>11. ASSUME NEW j \in 1..n
       PROVE  s[j] = IF j < n THEN Wrap(s[j + 1] - x[j]) ELSE a
  <2> HIDE DEF n
  <2>1. j < n \/ j = n
    BY <1>1
  <2>2. ~(n < n)
    BY <1>1
  <2> QED
    BY <1>9, <1>10, <2>1, <2>2
<1>12. s = [j \in 1..n |-> IF j < n THEN Wrap(s[j + 1] - x[j]) ELSE a]
  <2> HIDE DEF n
  <2> QED
    BY <1>8, <1>11
<1>13. Undoes(x, s)
  BY <1>12 DEF Undoes, a
<1> QED
  BY <1>8, <1>13

\* The equations have one solution.
LEMMA UndoesOnce ==
  ASSUME NEW x \in Seq(Int32), Len(x) > 0, NEW s, NEW t, Undoes(x, s), Undoes(x, t)
  PROVE  s = t
<1> DEFINE n == Len(x)
           m == n - 1
           a == IF n = 1 THEN x[n] ELSE Wrap(x[n] + Half(x[n - 1]))
           T == {i \in 0..m : s[n - i] = t[n - i]}
<1>1. n \in Nat /\ n > 0 /\ m \in Nat
  BY LenProperties
<1>2. /\ s = [j \in 1..n |-> IF j < n THEN Wrap(s[j + 1] - x[j]) ELSE a]
      /\ t = [j \in 1..n |-> IF j < n THEN Wrap(t[j + 1] - x[j]) ELSE a]
  BY Zenon DEF Undoes
<1> HIDE DEF a
<1>3. 0 \in T
  <2>1. n \in 1..n /\ ~(n < n) /\ n - 0 = n /\ 0 \in 0..m
    BY <1>1
  <2>2. s[n] = a /\ t[n] = a
    BY <1>2, <2>1
  <2> QED
    BY <2>1, <2>2
<1>4. ASSUME NEW i \in 1..m, i - 1 \in T PROVE i \in T
  <2> DEFINE j == n - i
  <2>1. i \in 0..m /\ j \in 1..n /\ j < n /\ j + 1 = n - (i - 1)
    BY <1>1
  <2>2. s[j + 1] = t[j + 1]
    BY <1>4, <2>1
  <2>3. s[j] = Wrap(s[j + 1] - x[j]) /\ t[j] = Wrap(t[j + 1] - x[j])
    <3> HIDE DEF j, n
    <3> QED
      BY <1>2, <2>1
  <2>4. s[j] = t[j]
    BY <2>2, <2>3
  <2> QED
    BY <2>1, <2>4
<1> HIDE DEF T
<1>5. \A i \in 0..m : i \in T
  BY <1>1, <1>3, <1>4, UpToInduction
<1>6. ASSUME NEW j \in 1..n PROVE s[j] = t[j]
  <2>1. n - j \in 0..m /\ n - (n - j) = j
    BY <1>1
  <2>2. n - j \in T
    BY <1>5, <2>1
  <2>3. s[n - (n - j)] = t[n - (n - j)]
    BY <2>2 DEF T
  <2> QED
    BY <2>1, <2>3
<1>7. DOMAIN s = 1..n /\ DOMAIN t = 1..n
  BY <1>2
<1>8. s = [j \in 1..n |-> s[j]] /\ t = [j \in 1..n |-> t[j]]
  BY <1>2, <1>7
<1> QED
  BY <1>6, <1>8

\* The samples are int32_t.
LEMMA CorrelatedType ==
  ASSUME NEW x \in Seq(Int32), Len(x) > 0
  PROVE  Correlated(x) \in Seq(Int32) /\ Len(Correlated(x)) = Len(x)
<1> DEFINE n == Len(x)
           s == CHOOSE s : Undoes(x, s)
<1>1. n \in Nat
  BY LenProperties
<1>2. PICK f \in [1..n -> Int32] : Undoes(x, f)
  BY Undone
<1>3. Undoes(x, s)
  BY <1>2, Zenon
<1>4. s = f
  BY <1>2, <1>3, UndoesOnce
<1>5. Correlated(x) = [j \in 1..n |-> s[j]]
  BY CorrelatedIs
<1> HIDE DEF s, n
<1>6. Correlated(x) \in [1..n -> Int32]
  BY <1>4, <1>5
<1>7. Correlated(x) \in Seq(Int32) /\ Len(Correlated(x)) = n
  BY <1>1, <1>6
<1> QED
  BY <1>7 DEF n

\* The differences undone are the samples.
LEMMA CorrelatedBack ==
  ASSUME NEW s \in Seq(Int32), Len(s) > 0
  PROVE  Correlated(Decorrelated(s)) = s
<1> DEFINE n == Len(s)
           x == Decorrelated(s)
<1>1. n \in Nat /\ n > 0 /\ DOMAIN s = 1..n /\ \A j \in 1..n : s[j] \in Int32 /\ s[j] \in Int
  BY LenProperties, ElementOfSeq, IntWords
<1>2. x \in Seq(Int32) /\ Len(x) = n
  BY DecorrelatedType
<1>3. x = [j \in 1..n |->
             IF j < n THEN Wrap(s[j + 1] - s[j])
             ELSE IF n = 1 THEN s[j] ELSE Wrap(s[j] - Half(Wrap(s[j] - s[j - 1])))]
  BY <1>1 DEF Decorrelated
<1> HIDE DEF n, x
<1> DEFINE a == IF n = 1 THEN x[n] ELSE Wrap(x[n] + Half(x[n - 1]))
<1>4. ASSUME NEW j \in 1..n, j < n PROVE s[j] = Wrap(s[j + 1] - x[j])
  <2>1. j + 1 \in 1..n
    BY <1>1, <1>4
  <2>2. x[j] = Wrap(s[j + 1] - s[j])
    BY <1>3, <1>4
  <2> DEFINE u == s[j]
             v == s[j + 1]
  <2>3. u \in Int32 /\ v \in Int
    BY <1>1, <2>1
  <2> HIDE DEF u, v
  <2>4. Wrap(v - Wrap(v - u)) = u
    BY <2>3, WrapBack
  <2> QED
    BY <2>2, <2>4 DEF u, v
<1>5. s[n] = a
  <2>1. n \in 1..n /\ ~(n < n)
    BY <1>1
  <2>2. CASE n = 1
    <3>1. x[n] = s[n]
      BY <1>3, <2>1, <2>2
    <3> QED
      BY <2>2, <3>1
  <2>3. CASE n # 1
    <3>1. n - 1 \in 1..n /\ n - 1 < n /\ n - 1 + 1 = n
      BY <1>1, <2>3
    <3> DEFINE h == Half(x[n - 1])
               u == s[n]
    <3>2. x[n - 1] = Wrap(s[n] - s[n - 1])
      BY <1>3, <3>1
    <3>3. x[n] = Wrap(u - h)
      BY <1>3, <2>1, <2>3, <3>2
    <3>4. h \in Int /\ u \in Int32
      <4>1. s[n] - s[n - 1] \in Int
        BY <1>1, <2>1, <3>1
      <4>2. x[n - 1] \in Int
        BY <3>2, <4>1, Ints
      <4> QED
        BY <1>1, <2>1, <4>2, HalfType
    <3> HIDE DEF h, u
    <3>5. Wrap(Wrap(u - h) + h) = u
      BY <3>4, WrapBack
    <3> QED
      BY <2>3, <3>3, <3>5 DEF h, u
  <2> QED
    BY <2>2, <2>3
<1> HIDE DEF a
<1>6. ASSUME NEW j \in 1..n
      PROVE  s[j] = IF j < n THEN Wrap(s[j + 1] - x[j]) ELSE a
  <2>1. j < n \/ (j = n /\ ~(j < n))
    BY <1>1
  <2> QED
    BY <1>4, <1>5, <2>1
<1>7. s = [j \in 1..n |-> s[j]]
  BY <1>1
<1>8. s = [j \in 1..n |-> IF j < n THEN Wrap(s[j + 1] - x[j]) ELSE a]
  <2>1. [j \in 1..n |-> s[j]] = [j \in 1..n |-> IF j < n THEN Wrap(s[j + 1] - x[j]) ELSE a]
    BY <1>6, Zenon
  <2> QED
    BY <1>7, <2>1
<1>9. Undoes(x, s)
  BY <1>2, <1>8 DEF Undoes, a
<1> DEFINE t == CHOOSE t : Undoes(x, t)
<1>10. Undoes(x, t)
  BY <1>9, Zenon
<1>11. t = s
  BY <1>1, <1>2, <1>9, <1>10, UndoesOnce
<1>12. Correlated(x) = [j \in 1..n |-> t[j]]
  BY <1>2, CorrelatedIs
<1>13. Correlated(x) = s
  BY <1>7, <1>11, <1>12
<1> QED
  BY <1>13 DEF x

-----------------------------------------------------------------------------
(* PCM *)

PcmByte == 0..(2^ByteBits - 1)

\* One sample from its bytes, and back.
PcmSample(at, sb) ==
  CASE sb = 1 -> uint8_t_to_i32h(at)
    [] sb = 2 -> read_i16le_to_i32h(at)
    [] sb = 3 -> read_i24le_to_i32h(at)

PcmBytes(x, sb) ==
  CASE sb = 1 -> i32h_to_u8(x)
    [] sb = 2 -> write_i32h_to_i16le(x)
    [] sb = 3 -> write_i32h_to_i24le(x)

\* B values of a byte, H of them negative as an int8_t.
LEMMA PcmPowers ==
  \E B, H \in Nat \ {0} :
    /\ B = 2^ByteBits /\ H = 2^(ByteBits - 1) /\ B = 2 * H
    /\ 2^(2 * ByteBits) = B * B
    /\ H <= 2^(W - 1) /\ B * H <= 2^(W - 1) /\ (B * B) * H <= 2^(W - 1)
<1> DEFINE b == ByteBits
           m == b - 1
           B == 2^b
           H == 2^m
<1>1. /\ b \in Nat /\ m \in Nat /\ m + 1 = b /\ 2 * b = b + b /\ 3 * b <= W
      /\ b + m \in Nat /\ 2 * b \in Nat /\ 2 * b + m \in Nat
      /\ m <= W - 1 /\ b + m <= W - 1 /\ 2 * b + m <= W - 1 /\ W - 1 \in Nat
  BY ByteAssumption, BufferAssumption, WordAssumption
<1> HIDE DEF b
<1>2. /\ 2^b \in Nat \ {0} /\ 2^m \in Nat \ {0}
      /\ 2^(m + 1) = 2 * 2^m /\ 2^(b + b) = 2^b * 2^b
      /\ 2^(b + m) = 2^b * 2^m
  <2> HIDE DEF m
  <2> QED
    BY <1>1, PowerNat, PowerNext, PowerSum
<1>3. 2^(2 * b + m) = (2^b * 2^b) * 2^m
  <2> HIDE DEF m
  <2>1. 2^(2 * b + m) = 2^(2 * b) * 2^m
    BY <1>1, PowerSum
  <2> QED
    BY <1>1, <1>2, <2>1
<1>4. 2^m <= 2^(W - 1) /\ 2^(b + m) <= 2^(W - 1) /\ 2^(2 * b + m) <= 2^(W - 1)
  <2> HIDE DEF m
  <2> DEFINE w == W - 1
             bm == b + m
             bbm == 2 * b + m
  <2>1. m \in Nat /\ bm \in Nat /\ bbm \in Nat /\ w \in Nat /\ m <= w /\ bm <= w /\ bbm <= w
    BY <1>1
  <2> HIDE DEF w, bm, bbm
  <2>2. 2^m <= 2^w /\ 2^bm <= 2^w /\ 2^bbm <= 2^w
    BY <2>1, PowerLeq
  <2> QED
    BY <2>2 DEF w, bm, bbm
<1>5. B = 2 * H
  BY <1>1, <1>2
<1>6. 2^(2 * b) = B * B
  BY <1>1, <1>2
<1>7. H <= 2^(W - 1) /\ B * H <= 2^(W - 1) /\ (B * B) * H <= 2^(W - 1)
  BY <1>2, <1>3, <1>4
<1>8. B \in Nat \ {0} /\ H \in Nat \ {0} /\ B = 2^ByteBits /\ H = 2^(ByteBits - 1)
      /\ 2^(2 * ByteBits) = B * B
  BY <1>2, <1>6 DEF b
<1> HIDE DEF B, H
<1> QED
  BY <1>5, <1>7, <1>8

\* A byte as an int8_t.
LEMMA SignedByte ==
  ASSUME NEW B \in Nat, NEW H \in Nat \ {0}, B = 2 * H, B = 2^ByteBits, H = 2^(ByteBits - 1),
         NEW x \in 0..(B - 1)
  PROVE  int8(x) \in -H..(H - 1) /\ int8(x) % B = x
<1> DEFINE y == int8(x)
<1>1. y = IF x >= H THEN x - B ELSE x
  BY DEF int8
<1>0. B \in Nat /\ H \in Nat \ {0} /\ B = 2 * H /\ x \in 0..(B - 1)
  OBVIOUS
<1> HIDE DEF y
<1>2. y \in -H..(H - 1) /\ y \in Int /\ (y = x \/ y = x - B)
  BY ONLY <1>0, <1>1
<1>3. B * 0 = 0 /\ B * (-1) = -B /\ B \in Nat \ {0}
  BY ONLY <1>0
<1>4. y = B * 0 + x \/ y = B * (-1) + x
  BY ONLY <1>0, <1>2, <1>3
<1>5. y % B = x
  <2>1. 0 \in Int /\ -1 \in Int /\ x \in 0..(B - 1) /\ y \in Int /\ B \in Nat \ {0}
    BY <1>2, <1>3
  <2> DEFINE z == 0
             o == -1
  <2>2. z \in Int /\ o \in Int /\ (y = B * z + x \/ y = B * o + x)
    BY <1>4
  <2> HIDE DEF z, o
  <2> QED
    BY ONLY <2>1, <2>2, IntDivUnique
<1> QED
  BY <1>2, <1>5 DEF y

\* A signed byte moved up.
LEMMA Times ==
  ASSUME NEW B \in Nat, NEW H \in Nat, NEW s \in -H..(H - 1)
  PROVE  s * B \in Int /\ B * H \in Nat /\ s * B >= -(B * H) /\ s * B <= B * H - B
<1>1. s + H \in Nat /\ (H - 1) - s \in Nat
  OBVIOUS
<1>2. (s + H) * B \in Nat /\ ((H - 1) - s) * B \in Nat
  BY <1>1
<1>3. (s + H) * B = s * B + B * H /\ ((H - 1) - s) * B = B * H - B - s * B
  OBVIOUS
<1>4. s * B \in Int /\ B * H \in Nat
  OBVIOUS
<1> DEFINE p == s * B
           q == B * H
<1>5. p + q >= 0 /\ q - B - p >= 0 /\ p \in Int /\ q \in Nat
  BY <1>2, <1>3, <1>4
<1> HIDE DEF p, q
<1>6. p >= -q /\ p <= q - B
  BY <1>5
<1> QED
  BY <1>4, <1>6 DEF p, q

\* The number s B + a, and its two parts.
LEMMA Parts ==
  ASSUME NEW B \in Nat \ {0}, NEW H \in Nat, NEW s \in -H..(H - 1), NEW a \in 0..(B - 1),
         NEW h \in Nat, B * H <= h
  PROVE  LET x == a + s * B
         IN  x \in -h..(h - 1) /\ x \div B = s /\ x % B = a /\ x \in Int
<1> DEFINE p == s * B
           q == B * H
           x == a + p
<1>1. p \in Int /\ q \in Nat /\ p >= -q /\ p <= q - B
  BY Times
<1>2. q <= h /\ p = B * s /\ s \in Int
  OBVIOUS
<1> HIDE DEF p, q
<1>3. x \in -h..(h - 1) /\ x \in Int
  BY <1>1, <1>2
<1>4. x = B * s + a
  BY <1>1, <1>2
<1> HIDE DEF x
<1>5. x \div B = s /\ x % B = a
  BY <1>2, <1>3, <1>4, IntDivUnique
<1> QED
  BY <1>3, <1>5 DEF x, p

\* The number c C + b B + a with C = B B, and its three parts.
HasParts(x, a, b, s, B, C, h) ==
  /\ x \in -h..(h - 1) /\ x \in Int
  /\ x \div C = s /\ x % B = a /\ (x \div B) % B = b

\* Three bytes are found again.
LEMMA ThreeParts ==
  ASSUME NEW B \in Nat \ {0}, NEW H \in Nat, NEW s \in -H..(H - 1), NEW a \in 0..(B - 1),
         NEW b \in 0..(B - 1), NEW h \in Nat, NEW C, C = B * B, C * H <= h
  PROVE  HasParts(a + b * B + s * C, a, b, s, B, C, h)
<1> DEFINE u == a + b * B
           v == b + s * B
           x == a + b * B + s * C
<1>1. C \in Nat \ {0}
  OBVIOUS
<1>2. u \in 0..(C - 1)
  <2>1. b \in -B..(B - 1) /\ B \in Nat
    OBVIOUS
  <2> DEFINE p == b * B
  <2>2. p <= B * B - B /\ p \in Nat
    BY <2>1, Times
  <2>3. C = B * B /\ C \in Nat
    BY <1>1
  <2>4. p <= C - B
    BY <2>2, <2>3
  <2>5. u = a + p
    OBVIOUS
  <2> HIDE DEF p, u
  <2> QED
    BY <2>2, <2>3, <2>4, <2>5
<1>3. u + s * C \in -h..(h - 1) /\ (u + s * C) \div C = s /\ u + s * C \in Int
  <2> HIDE DEF u
  <2> QED
    BY <1>1, <1>2, Parts
<1>4. x = u + s * C
  OBVIOUS
<1>5. s * C = (s * B) * B /\ s \in Int /\ b \in Int /\ s * B \in Int
  OBVIOUS
<1>6. x = B * v + a /\ v \in Int
  <2> DEFINE t == s * B
  <2>1. t \in Int /\ s * C = t * B /\ v = b + t /\ x = a + b * B + t * B
    BY <1>5
  <2> HIDE DEF t, x, v
  <2>2. B * (b + t) = b * B + t * B
    BY <1>5, <2>1
  <2>3. b * B \in Int /\ t * B \in Int
    BY <1>5, <2>1
  <2> QED
    BY <1>5, <2>1, <2>2, <2>3
<1>7. v = B * s + b
  OBVIOUS
<1> HIDE DEF x, u, v
<1>8. x \div B = v /\ x % B = a
  BY <1>3, <1>4, <1>6, IntDivUnique
<1>9. v % B = b
  BY <1>5, <1>6, <1>7, IntDivUnique
<1> QED
  BY <1>3, <1>4, <1>8, <1>9 DEF x, HasParts

\* A byte of PCM.
LEMMA PcmByteIs ==
  ASSUME NEW at \in Seq(PcmByte), NEW k \in 1..Len(at), NEW B, B = 2^ByteBits
  PROVE  at[k] \in 0..(B - 1)
<1>1. at[k] \in PcmByte
  BY ElementOfSeq
<1> QED
  BY <1>1 DEF PcmByte

\* Samples of one byte come back,
LEMMA PcmSample1 ==
  ASSUME NEW at \in Seq(PcmByte), Len(at) = 1
  PROVE  /\ PcmSample(at, 1) \in Int32
         /\ PcmBytes(PcmSample(at, 1), 1)[1] = at[1]
<1>1. PICK B \in Nat \ {0}, H \in Nat \ {0} :
        /\ B = 2^ByteBits /\ H = 2^(ByteBits - 1) /\ B = 2 * H /\ H <= 2^(W - 1)
  BY PcmPowers
<1> DEFINE a == at[1]
           x == PcmSample(at, 1)
           h == 2^(W - 1)
<1>2. a \in 0..(B - 1)
  <2>1. 1 \in 1..Len(at)
    OBVIOUS
  <2> QED
    BY <1>1, <2>1, PcmByteIs
<1>3. x = a - H
  BY <1>1 DEF PcmSample, uint8_t_to_i32h
<1>4. PcmBytes(x, 1)[1] = (x + H) % B
  <2>1. PcmBytes(x, 1) = i32h_to_u8(x)
    BY DEF PcmBytes
  <2> HIDE DEF x
  <2> QED
    BY <1>1, <2>1 DEF i32h_to_u8
<1>5. h \in Nat /\ Int32 = -h..(h - 1) /\ H <= h
  BY <1>1, WordIs DEF Int32
<1>6. B \in Nat \ {0} /\ H \in Nat \ {0} /\ B = 2 * H
  BY <1>1
<1> HIDE DEF a, x, h
<1>7. x \in -h..(h - 1) /\ x + H = a /\ a \in Nat
  BY ONLY <1>2, <1>3, <1>5, <1>6
<1>8. (x + H) % B = a
  <2>1. a = B * 0 + a /\ 0 \in Int /\ a \in Int
    BY ONLY <1>6, <1>7
  <2>2. a % B = a
    BY <1>2, <1>6, <2>1, IntDivUnique
  <2> QED
    BY <1>7, <2>2
<1> QED
  BY <1>4, <1>5, <1>7, <1>8 DEF x, a

\* those of two bytes,
LEMMA PcmSample2 ==
  ASSUME NEW at \in Seq(PcmByte), Len(at) = 2
  PROVE  /\ PcmSample(at, 2) \in Int32
         /\ PcmBytes(PcmSample(at, 2), 2)[1] = at[1]
         /\ PcmBytes(PcmSample(at, 2), 2)[2] = at[2]
<1>1. PICK B \in Nat \ {0}, H \in Nat \ {0} :
        /\ B = 2^ByteBits /\ H = 2^(ByteBits - 1) /\ B = 2 * H /\ B * H <= 2^(W - 1)
  BY PcmPowers
<1> DEFINE a == at[1]
           b == at[2]
           s == int8(b)
           x == PcmSample(at, 2)
           h == 2^(W - 1)
<1>2. a \in 0..(B - 1) /\ b \in 0..(B - 1)
  <2>1. 1 \in 1..Len(at) /\ 2 \in 1..Len(at)
    OBVIOUS
  <2> QED
    BY <1>1, <2>1, PcmByteIs
<1>3. x = a + s * B
  BY <1>1 DEF PcmSample, read_i16le_to_i32h
<1>4. PcmBytes(x, 2)[1] = x % B /\ PcmBytes(x, 2)[2] = (x \div B) % B
  <2>1. PcmBytes(x, 2) = write_i32h_to_i16le(x)
    BY DEF PcmBytes
  <2> HIDE DEF x
  <2> QED
    BY <1>1, <2>1 DEF write_i32h_to_i16le
<1>5. h \in Nat /\ Int32 = -h..(h - 1) /\ B * H <= h
  BY <1>1, WordIs DEF Int32
<1> HIDE DEF a, b, x, h
<1>6. s \in -H..(H - 1) /\ s % B = b
  BY <1>1, <1>2, SignedByte
<1> HIDE DEF s
<1>7. x \in -h..(h - 1) /\ x \div B = s /\ x % B = a
  <2>1. /\ B \in Nat \ {0} /\ H \in Nat /\ s \in -H..(H - 1) /\ a \in 0..(B - 1)
        /\ h \in Nat /\ B * H <= h
    BY <1>1, <1>2, <1>5, <1>6
  <2>2. LET y == a + s * B
        IN  y \in -h..(h - 1) /\ y \div B = s /\ y % B = a /\ y \in Int
    BY ONLY <2>1, Parts
  <2> QED
    BY <1>3, <2>2
<1> QED
  BY <1>4, <1>5, <1>6, <1>7 DEF x, a, b

\* and those of three.
LEMMA PcmSample3 ==
  ASSUME NEW at \in Seq(PcmByte), Len(at) = 3
  PROVE  /\ PcmSample(at, 3) \in Int32
         /\ PcmBytes(PcmSample(at, 3), 3)[1] = at[1]
         /\ PcmBytes(PcmSample(at, 3), 3)[2] = at[2]
         /\ PcmBytes(PcmSample(at, 3), 3)[3] = at[3]
<1>1. PICK B \in Nat \ {0}, H \in Nat \ {0} :
        /\ B = 2^ByteBits /\ H = 2^(ByteBits - 1) /\ B = 2 * H
        /\ 2^(2 * ByteBits) = B * B /\ (B * B) * H <= 2^(W - 1)
  BY PcmPowers
<1> DEFINE a == at[1]
           b == at[2]
           c == at[3]
           s == int8(c)
           x == PcmSample(at, 3)
           h == 2^(W - 1)
           C == 2^(2 * ByteBits)
<1>2. a \in 0..(B - 1) /\ b \in 0..(B - 1) /\ c \in 0..(B - 1)
  <2>1. 1 \in 1..Len(at) /\ 2 \in 1..Len(at) /\ 3 \in 1..Len(at)
    OBVIOUS
  <2> QED
    BY <1>1, <2>1, PcmByteIs
<1>3. x = a + b * B + s * C
  BY <1>1 DEF PcmSample, read_i24le_to_i32h
<1>4. /\ PcmBytes(x, 3)[1] = x % B /\ PcmBytes(x, 3)[2] = (x \div B) % B
      /\ PcmBytes(x, 3)[3] = (x \div C) % B
  <2>1. PcmBytes(x, 3) = write_i32h_to_i24le(x)
    BY DEF PcmBytes
  <2> HIDE DEF x
  <2>2. write_i32h_to_i24le(x) = << x % B, (x \div B) % B, (x \div C) % B >>
    BY <1>1 DEF write_i32h_to_i24le
  <2> HIDE DEF C
  <2> QED
    BY <2>1, <2>2
<1>5. h \in Nat /\ Int32 = -h..(h - 1) /\ C = B * B /\ C * H <= h
  BY <1>1, WordIs DEF Int32
<1> HIDE DEF a, b, c, x, h, C
<1>6. s \in -H..(H - 1) /\ s % B = c
  BY <1>1, <1>2, SignedByte
<1> HIDE DEF s
<1>7. x \in -h..(h - 1) /\ x \div C = s /\ x % B = a /\ (x \div B) % B = b
  <2>1. /\ B \in Nat \ {0} /\ H \in Nat /\ s \in -H..(H - 1) /\ a \in 0..(B - 1)
        /\ b \in 0..(B - 1) /\ h \in Nat /\ C = B * B /\ C * H <= h
    BY <1>1, <1>2, <1>5, <1>6
  <2>2. HasParts(a + b * B + s * C, a, b, s, B, C, h)
    BY ONLY <2>1, ThreeParts
  <2> QED
    BY <1>3, <2>2 DEF HasParts
<1> QED
  BY <1>4, <1>5, <1>6, <1>7 DEF x, a, b, c

\* A sample of any size comes back.
LEMMA PcmSampleBack ==
  ASSUME NEW sb \in 1..3, NEW at \in Seq(PcmByte), Len(at) = sb
  PROVE  /\ PcmSample(at, sb) \in Int32
         /\ \A k \in 1..sb : PcmBytes(PcmSample(at, sb), sb)[k] = at[k]
<1>1. CASE sb = 1
  <2>1. \A k \in 1..sb : k = 1
    BY <1>1
  <2>2. Len(at) = 1
    BY <1>1
  <2> QED
    BY <1>1, <2>1, <2>2, PcmSample1
<1>2. CASE sb = 2
  <2>1. \A k \in 1..sb : k = 1 \/ k = 2
    BY <1>2
  <2>2. Len(at) = 2
    BY <1>2
  <2> QED
    BY <1>2, <2>1, <2>2, PcmSample2
<1>3. CASE sb = 3
  <2>1. \A k \in 1..sb : k = 1 \/ k = 2 \/ k = 3
    BY <1>3
  <2>2. Len(at) = 3
    BY <1>3
  <2> QED
    BY <1>3, <2>1, <2>2, PcmSample3
<1>4. sb = 1 \/ sb = 2 \/ sb = 3
  OBVIOUS
<1> QED
  BY <1>1, <1>2, <1>3, <1>4

\* From bytes to samples and back.
LEMMA PcmBack ==
  ASSUME NEW sb \in 1..3, NEW src \in Seq(PcmByte), NEW n \in Nat, Len(src) = n * sb
  PROVE  /\ libttaR_pcm_read(src, n, sb) \in Seq(Int32)
         /\ Len(libttaR_pcm_read(src, n, sb)) = n
         /\ libttaR_pcm_write(libttaR_pcm_read(src, n, sb), n, sb) = src
<1> DEFINE at(i) == SubSeq(src, sb * (i - 1) + 1, sb * i)
           x == libttaR_pcm_read(src, n, sb)
           N == n * sb
           y == libttaR_pcm_write(x, n, sb)
<1>1. x = [i \in 1..n |-> PcmSample(at(i), sb)]
  BY DEF libttaR_pcm_read, PcmSample
<1>2. y = [j \in 1..N |-> PcmBytes(x[(j - 1) \div sb + 1], sb)[((j - 1) % sb) + 1]]
  BY DEF libttaR_pcm_write, PcmBytes
<1>3. N \in Nat /\ Len(src) = N
  OBVIOUS
<1>4. ASSUME NEW i \in 1..n
      PROVE  /\ at(i) \in Seq(PcmByte) /\ Len(at(i)) = sb
             /\ \A k \in 1..sb : at(i)[k] = src[sb * (i - 1) + k]
  <2> DEFINE p == sb * (i - 1)
             m == p + 1
             q == sb * i
  <2>1. p \in Nat /\ q = p + sb /\ q <= N
    <3>1. sb * i = sb * (i - 1) + sb /\ sb * (i - 1) \in Nat
      OBVIOUS
    <3>2. (n - i) * sb \in Nat /\ (n - i) * sb = N - q
      OBVIOUS
    <3>3. q \in Nat
      OBVIOUS
    <3> HIDE DEF N, q
    <3> QED
      BY <1>3, <3>1, <3>2, <3>3 DEF q
  <2> HIDE DEF p, q, N
  <2>2. m \in Nat \ {0} /\ q \in Int /\ q <= Len(src) /\ m <= q /\ q - m + 1 = sb
        /\ \A k \in 1..sb : m + k - 1 = p + k
    BY <1>3, <2>1
  <2> HIDE DEF m
  <2>3. /\ SubSeq(src, m, q) \in Seq(PcmByte)
        /\ Len(SubSeq(src, m, q)) = (IF m <= q THEN q - m + 1 ELSE 0)
        /\ \A k \in 1..(q - m + 1) : SubSeq(src, m, q)[k] = src[m + k - 1]
    BY <2>2, SubSeqIs
  <2>4. /\ SubSeq(src, m, q) \in Seq(PcmByte) /\ Len(SubSeq(src, m, q)) = sb
        /\ \A k \in 1..sb : SubSeq(src, m, q)[k] = src[p + k]
    BY <2>2, <2>3
  <2>5. at(i) = SubSeq(src, m, q)
    BY DEF m, p, q
  <2> QED
    BY <2>4, <2>5 DEF p
<1> HIDE DEF at, x, N, y
<1>5. \A i \in 1..n : x[i] \in Int32 /\ x[i] = PcmSample(at(i), sb)
  BY <1>1, <1>4, PcmSampleBack
<1>6. x \in [1..n -> Int32]
  BY <1>1, <1>5
<1>7. x \in Seq(Int32) /\ Len(x) = n
  BY <1>6
<1>8. ASSUME NEW j \in 1..N PROVE y[j] = src[j]
  <2> DEFINE q == (j - 1) \div sb
             r == (j - 1) % sb
             i == q + 1
             k == r + 1
  <2>1. j - 1 \in Nat /\ sb \in Nat \ {0} /\ j \in Nat
    BY <1>3
  <2>2. q \in Int /\ r \in 0..(sb - 1) /\ j - 1 = sb * q + r
    BY <2>1, IntDivMod
  <2>3. y[j] = PcmBytes(x[i], sb)[k]
    BY <1>2
  <2> HIDE DEF q, r
  <2>4. q \in Nat
    <3>1. CASE q < 0
      <4>1. sb * (-q - 1) \in Nat /\ sb * (-q - 1) = -(sb * q) - sb /\ sb * q \in Int
        BY <2>2, <3>1
      <4> DEFINE p == sb * q
      <4>2. p \in Int /\ -p - sb >= 0 /\ j - 1 = p + r
        BY <2>2, <4>1
      <4> HIDE DEF p
      <4> QED
        BY <2>1, <2>2, <4>2
    <3> QED
      BY <2>2, <3>1
  <2>5. q < n
    <3>1. CASE q >= n
      <4>1. (q - n) * sb \in Nat /\ (q - n) * sb = sb * q - N /\ sb * q \in Nat
        BY <2>4, <3>1 DEF N
      <4> DEFINE p == sb * q
      <4>2. p \in Nat /\ p - N >= 0 /\ j - 1 = p + r
        BY <1>3, <2>2, <4>1
      <4> HIDE DEF p
      <4> QED
        BY <1>3, <2>1, <2>2, <4>2
    <3> QED
      BY <2>4, <3>1
  <2>6. i \in 1..n /\ k \in 1..sb /\ i - 1 = q
    BY <2>2, <2>4, <2>5
  <2>7. sb * (i - 1) + k = j
    <3> DEFINE p == sb * q
    <3>1. p \in Nat /\ j - 1 = p + r /\ sb * (i - 1) = p
      BY <2>2, <2>4, <2>6
    <3> HIDE DEF p, i
    <3> QED
      BY <2>1, <2>2, <3>1
  <2> HIDE DEF i, k
  <2>8. x[i] = PcmSample(at(i), sb) /\ PcmBytes(PcmSample(at(i), sb), sb)[k] = at(i)[k]
    BY <1>4, <1>5, <2>6, PcmSampleBack
  <2>9. at(i)[k] = src[sb * (i - 1) + k]
    BY <1>4, <2>6
  <2> QED
    BY <2>3, <2>7, <2>8, <2>9 DEF i, k
<1>9. y = src
  <2>1. y = [j \in 1..N |-> y[j]]
    BY <1>2
  <2>2. src = [j \in 1..N |-> src[j]]
    BY <1>3
  <2> QED
    BY <1>8, <2>1, <2>2
<1> QED
  BY <1>7, <1>9 DEF x, y

-----------------------------------------------------------------------------
(* A frame, group after group *)

Group(s, n, g) == SubSeq(s, (g - 1) * n + 1, g * n)

FirstGroup(n) ==
  [codec |-> codec_init(n), w |-> [cache |-> <<>>, dest |-> <<>>, crc |-> <<>>], codes |-> <<>>]

\* What is to know of it.
CodedWell(sb, n, m, s, F) ==
  /\ F[0] = FirstGroup(n)
  /\ \A g \in 0..m : F[g] \in EncGroups(<<>>) /\ Len(F[g].codec) = n
  /\ \A g \in 1..m :
       /\ GroupEncoded(F[g - 1].codec, Decorrelated(Group(s, n, g)), sb, <<>>, F[g - 1].w, F[g])
       /\ Len(F[g].codes) = n

\* The samples of a group.
LEMMA GroupIs ==
  ASSUME NEW n \in Nat \ {0}, NEW m \in Nat, NEW s \in Seq(Int32), Len(s) = m * n, NEW g \in 1..m
  PROVE  /\ Group(s, n, g) \in Seq(Int32) /\ Len(Group(s, n, g)) = n
         /\ Decorrelated(Group(s, n, g)) \in Seq(Int32)
         /\ Len(Decorrelated(Group(s, n, g))) = n
         /\ (g - 1) * n \in Nat /\ (g - 1) * n + n = g * n /\ g * n <= Len(s)
<1> DEFINE p == (g - 1) * n
           a == p + 1
           q == g * n
<1>1. p \in Nat /\ q = p + n /\ q \in Nat
  OBVIOUS
<1>2. q <= Len(s)
  <2>1. (m - g) * n \in Nat /\ (m - g) * n = m * n - q /\ m * n \in Nat
    OBVIOUS
  <2> HIDE DEF q
  <2> QED
    BY <1>1, <2>1
<1> HIDE DEF p, q
<1>3. a \in Nat \ {0} /\ q \in Int /\ q - a + 1 = n /\ a <= q
  BY <1>1
<1> HIDE DEF a
<1>4. SubSeq(s, a, q) \in Seq(Int32) /\ Len(SubSeq(s, a, q)) = IF a <= q THEN q - a + 1 ELSE 0
  BY <1>2, <1>3, SubSeqIs
<1>5. Group(s, n, g) = SubSeq(s, a, q)
  BY DEF Group, a, p, q
<1>6. Group(s, n, g) \in Seq(Int32) /\ Len(Group(s, n, g)) = n
  BY <1>3, <1>4, <1>5
<1>7. Decorrelated(Group(s, n, g)) \in Seq(Int32) /\ Len(Decorrelated(Group(s, n, g))) = n
  BY <1>6, DecorrelatedType
<1> QED
  BY <1>1, <1>2, <1>6, <1>7 DEF p, q

GroupOf(s, n, g) ==
  /\ Group(s, n, g) \in Seq(Int32) /\ Len(Group(s, n, g)) = n
  /\ Decorrelated(Group(s, n, g)) \in Seq(Int32)
  /\ Len(Decorrelated(Group(s, n, g))) = n

\* The same, as one predicate.
LEMMA GroupType ==
  ASSUME NEW n \in Nat \ {0}, NEW m \in Nat, NEW s \in Seq(Int32), Len(s) = m * n, NEW g \in 1..m
  PROVE  GroupOf(s, n, g)
BY GroupIs DEF GroupOf

\* Before the first group nothing is written.
LEMMA FirstIs ==
  ASSUME NEW n \in Nat \ {0}
  PROVE  /\ FirstGroup(n) \in EncGroups(<<>>) /\ Len(FirstGroup(n).codec) = n
         /\ FirstGroup(n).codec = codec_init(n) /\ FirstGroup(n).codes = <<>>
         /\ Written(FirstGroup(n).w) = <<>> /\ FirstGroup(n).w.cache = <<>>
         /\ codec_init(n) \in Seq(Channel) /\ Len(codec_init(n)) = n
<1>1. [filter |-> FilterZero, rice |-> RiceInit, prev |-> 0] \in Channel
  <2>1. FilterZero \in FilterState
    <3>1. [i \in Taps |-> 0] \in [Taps -> Int32] /\ [i \in Taps |-> 0] \in [Taps -> Int]
      BY IntWords
    <3>2. FilterZero = [qm |-> [i \in Taps |-> 0], dx |-> [i \in Taps |-> 0],
                        dl |-> [i \in Taps |-> 0], error |-> 0]
      BY DEF FilterZero
    <3> DEFINE z == [i \in Taps |-> 0]
    <3> HIDE DEF z
    <3> QED
      BY <3>1, <3>2 DEF FilterState, z
  <2> QED
    BY <2>1, RiceInitType, IntWords DEF Channel
<1>2. codec_init(n) \in [1..n -> Channel]
  BY <1>1 DEF codec_init
<1>3. codec_init(n) \in Seq(Channel) /\ Len(codec_init(n)) = n
  BY <1>2
<1> DEFINE w == [cache |-> <<>>, dest |-> <<>>, crc |-> <<>>]
           f == FirstGroup(n)
<1>4. w \in Fed(<<>>)
  <2>1. <<>> \in Seq(Bit) /\ <<>> \in Seq(Byte) /\ <<>> \o <<>> = <<>>
    OBVIOUS
  <2>2. w \in Writers
    BY <2>1 DEF Writers
  <2>3. w.crc = <<>> \o w.dest
    BY <2>1
  <2> QED
    BY <2>2, <2>3 DEF Fed
<1>5. Written(w) = <<>>
  <2>1. Written(w) = FlattenSeq(<<>>) \o <<>>
    BY DEF Written
  <2> QED
    BY <2>1, FlattenEmpty
<1>6. w.cache = <<>>
  OBVIOUS
<1> HIDE DEF w
<1>7. f = [codec |-> codec_init(n), w |-> w, codes |-> <<>>]
  BY DEF FirstGroup, w
<1>8. <<>> \in Seq(Code)
  OBVIOUS
<1>9. f \in EncGroups(<<>>) /\ f.codec = codec_init(n) /\ f.w = w /\ f.codes = <<>>
  BY <1>3, <1>4, <1>7, <1>8 DEF EncGroups
<1> QED
  BY <1>3, <1>5, <1>6, <1>9

\* A frame coded group after group.
LEMMA FrameIs ==
  ASSUME NEW sb \in 1..3, NEW n \in Nat \ {0}, NEW m \in Nat, NEW s \in Seq(Int32), Len(s) = m * n
  PROVE  CodedWell(sb, n, m, s, FrameCoded(sb, n, m, s))
<1> DEFINE A == EncGroups(<<>>)
           Q == {e \in A : Len(e.codec) = n}
           P == [g \in 0..m |-> Q]
           a == FirstGroup(n)
           next(e, g) == EncodeGroup(e.codec, e.w, Group(s, n, g), sb)
           step == [g \in 1..m |-> [e \in A |-> next(e, g)]]
           R(f) == f = [g \in 0..m |-> IF g = 0 THEN a ELSE next(f[g - 1], g)]
           low == CHOOSE f : R(f)
<1>1. FrameCoded(sb, n, m, s) = low
  BY Zenon DEF FrameCoded, FirstGroup, Group
<1>2. a \in Q
  BY FirstIs
<1>3. ASSUME NEW g \in 1..m, NEW e \in Q
      PROVE  /\ next(e, g) \in Q
             /\ GroupEncoded(e.codec, Decorrelated(Group(s, n, g)), sb, <<>>, e.w, next(e, g))
             /\ Len(next(e, g).codes) = n
  <2> DEFINE h == next(e, g)
             t == Group(s, n, g)
             x == Decorrelated(t)
             c == e.codec
             w == e.w
  <2>1. t \in Seq(Int32) /\ Len(t) = n /\ x \in Seq(Int32) /\ Len(x) = n
    <3>1. GroupOf(s, n, g)
      BY GroupType
    <3> QED
      BY <3>1 DEF GroupOf
  <2>2. c \in Seq(Channel) /\ w \in Fed(<<>>) /\ Len(c) = n
    BY DEF EncGroups
  <2>3. h = EncodeGroup(c, w, t, sb) /\ <<>> \in Seq(Byte)
    OBVIOUS
  <2> HIDE DEF h, t, c, w
  <2>4. GroupEncoded(c, x, sb, <<>>, w, h)
    <3>1. Len(t) = Len(c) /\ Len(t) > 0
      BY <2>1, <2>2
    <3>2. GroupEncoded(c, Decorrelated(t), sb, <<>>, w, EncodeGroup(c, w, t, sb))
      BY <2>1, <2>2, <2>3, <3>1, EncodeGroupIs
    <3> QED
      BY <2>3, <3>2
  <2> HIDE DEF x
  <2>5. /\ GroupNext(c, x, sb) \in Seq(Channel) /\ Len(GroupNext(c, x, sb)) = n
        /\ GroupCodes(c, x, sb) \in Seq(Code) /\ Len(GroupCodes(c, x, sb)) = n
    <3>1. Len(x) = Len(c)
      BY <2>1, <2>2
    <3>2. /\ GroupNext(c, x, sb) \in Seq(Channel) /\ Len(GroupNext(c, x, sb)) = Len(x)
          /\ GroupCodes(c, x, sb) \in Seq(Code) /\ Len(GroupCodes(c, x, sb)) = Len(x)
      BY <2>1, <2>2, <3>1, GroupSequences
    <3> QED
      BY <2>2, <3>1, <3>2
  <2>6. h.codec \in Seq(Channel) /\ Len(h.codec) = n /\ h.w \in Fed(<<>>)
        /\ h.codes \in Seq(Code) /\ Len(h.codes) = n
    BY <2>4, <2>5 DEF GroupEncoded
  <2>7. h \in Q
    BY <2>4, <2>6 DEF GroupEncoded
  <2> QED
    BY <2>4, <2>6, <2>7 DEF h, t, x, c, w
<1> HIDE DEF next
<1>4. Q \subseteq A /\ \A g \in 1..m, e \in A : step[g][e] = next(e, g)
  BY Zenon
<1> HIDE DEF A, Q, step, a
<1>5. IteratesIn(A, P, a, m, step)
  <2>1. \A g \in 0..m : P[g] = Q /\ P[g] \subseteq A
    BY <1>4
  <2>2. a \in P[0]
    BY <1>2
  <2>3. \A g \in 1..m : \A e \in P[g - 1] : step[g][e] \in P[g]
    <3> TAKE g \in 1..m
    <3>1. g - 1 \in 0..m /\ g \in 0..m
      OBVIOUS
    <3> TAKE e \in P[g - 1]
    <3>2. e \in Q /\ e \in A
      BY <2>1, <3>1
    <3> QED
      BY <1>3, <1>4, <2>1, <3>1, <3>2
  <2> HIDE DEF P
  <2> QED
    BY <2>1, <2>2, <2>3, RecursionIn
<1>6. PICK f \in [0..m -> A] :
         /\ f[0] = a /\ \A g \in 1..m : f[g] = step[g][f[g - 1]]
         /\ \A g \in 0..m : f[g] \in P[g]
  BY <1>5 DEF IteratesIn
<1>7. R(f)
  <2>1. ASSUME NEW g \in 1..m PROVE f[g] = next(f[g - 1], g)
    <3>1. f[g - 1] \in A
      OBVIOUS
    <3> QED
      BY <1>4, <1>6, <3>1
  <2>2. f = [g \in 0..m |-> IF g = 0 THEN a ELSE next(f[g - 1], g)]
    BY <1>6, <2>1
  <2> QED
    BY <2>2
<1>8. R(low)
  BY <1>7, Zenon
<1> HIDE DEF low
<1>9. low[0] = a /\ \A g \in 1..m : low[g] = next(low[g - 1], g)
  BY <1>8
<1> DEFINE T == {g \in 0..m : low[g] \in Q}
<1>10. 0 \in T
  BY <1>2, <1>9
<1>11. ASSUME NEW g \in 1..m, g - 1 \in T PROVE g \in T
  <2>1. low[g - 1] \in Q /\ low[g] = next(low[g - 1], g)
    BY <1>9, <1>11
  <2> QED
    BY <1>3, <2>1
<1> HIDE DEF T
<1>12. \A g \in 0..m : g \in T
  BY <1>10, <1>11, UpToInduction
<1>13. \A g \in 0..m : low[g] \in EncGroups(<<>>) /\ Len(low[g].codec) = n
  BY <1>12 DEF T, Q, A
<1>14. ASSUME NEW g \in 1..m
       PROVE  /\ GroupEncoded(low[g - 1].codec, Decorrelated(Group(s, n, g)), sb, <<>>,
                              low[g - 1].w, low[g])
              /\ Len(low[g].codes) = n
  <2>1. g - 1 \in 0..m
    OBVIOUS
  <2>2. low[g - 1] \in Q /\ low[g] = next(low[g - 1], g)
    BY <1>9, <1>12, <2>1 DEF T
  <2> QED
    BY <1>3, <2>2
<1>15. CodedWell(sb, n, m, s, low)
  BY <1>9, <1>13, <1>14 DEF CodedWell, a
<1> QED
  BY <1>1, <1>15

\* Codes are joined in any grouping.
LEMMA CodesConcat ==
  ASSUME NEW s \in Seq(Code), NEW t \in Seq(Code), NEW u \in Seq(Code)
  PROVE  (s \o t) \o u = s \o (t \o u) /\ s \o t \in Seq(Code)
BY ConcatAssociative, ConcatProperties

\* One group more.
GroupAdds(F, n, g) ==
  /\ F[g].codes \in Seq(Code) /\ Len(F[g].codes) = n
  /\ Bits(F, g - 1) \in Seq(Bit) /\ Bits(F, g) \in Seq(Bit)
  /\ CodesBits(F[g].codes) \in Seq(Bit)
  /\ Bits(F, g) = Bits(F, g - 1) \o CodesBits(F[g].codes)
  /\ AllCodes(F, g) = AllCodes(F, g - 1) \o F[g].codes

\* A group adds its codes.
LEMMA FrameStep ==
  ASSUME NEW sb, NEW n, NEW m \in Nat, NEW s, NEW F, CodedWell(sb, n, m, s, F), NEW g \in 1..m
  PROVE  GroupAdds(F, n, g)
<1>1. g - 1 \in 0..m /\ g \in 0..m /\ g \in Nat /\ g - 1 \in Nat
  OBVIOUS
<1>2. /\ \A i \in 1..m : F[i] \in EncGroups(<<>>)
      /\ F[g - 1] \in EncGroups(<<>>) /\ F[g] \in EncGroups(<<>>)
      /\ GroupEncoded(F[g - 1].codec, Decorrelated(Group(s, n, g)), sb, <<>>, F[g - 1].w, F[g])
      /\ Len(F[g].codes) = n
  <2>1. \A i \in 1..m : i \in 0..m
    OBVIOUS
  <2> QED
    BY <1>1, <2>1 DEF CodedWell
<1>3. /\ F[g].codes \in Seq(Code) /\ F[g].w \in Fed(<<>>) /\ F[g - 1].w \in Fed(<<>>)
      /\ \A i \in 1..m : F[i].codes \in Seq(Code)
  BY <1>2 DEF EncGroups
<1>4. Bits(F, g - 1) \in Seq(Bit) /\ Bits(F, g) \in Seq(Bit)
  <2> DEFINE v == F[g - 1].w
             w == F[g].w
  <2>1. v \in Fed(<<>>) /\ w \in Fed(<<>>)
    BY <1>3
  <2> HIDE DEF v, w
  <2>2. Written(v) \in Seq(Bit) /\ Written(w) \in Seq(Bit)
    BY <2>1, FedIs
  <2> QED
    BY <2>2 DEF v, w, Bits
<1>5. Bits(F, g) = Bits(F, g - 1) \o CodesBits(F[g].codes)
  BY <1>2 DEF GroupEncoded, Bits
<1>6. CodesBits(F[g].codes) \in Seq(Bit)
  BY <1>3, CodesBitsType
<1>7. AllCodes(F, g) = AllCodes(F, g - 1) \o F[g].codes
  <2> DEFINE f == [i \in 1..m |-> F[i].codes]
             k == g - 1
  <2>1. f \in [1..m -> Seq(Code)] /\ f[g] = F[g].codes
    BY <1>3
  <2>2. [i \in 1..g |-> F[i].codes] = UpTo(f, g) /\ [i \in 1..k |-> F[i].codes] = UpTo(f, k)
    BY <1>1 DEF UpTo
  <2> HIDE DEF f
  <2>3. Grown(Seq(Code), f, g)
    BY <2>1, UpToNext
  <2>4. Append(UpTo(f, k), f[g]) = UpTo(f, g) /\ UpTo(f, k) \in Seq(Seq(Code))
    BY <2>3, Zenon DEF Grown
  <2> HIDE DEF k
  <2>5. FlattenSeq(Append(UpTo(f, k), f[g])) = FlattenSeq(UpTo(f, k)) \o f[g]
    BY <1>3, <2>1, <2>4, FlattenAppend
  <2>6. AllCodes(F, g) = FlattenSeq(UpTo(f, g)) /\ AllCodes(F, k) = FlattenSeq(UpTo(f, k))
    BY <2>2 DEF AllCodes
  <2>7. AllCodes(F, g) = AllCodes(F, k) \o F[g].codes
    BY <2>1, <2>4, <2>5, <2>6
  <2> QED
    BY <2>7 DEF k
<1> QED
  BY <1>2, <1>3, <1>4, <1>5, <1>6, <1>7, Zenon DEF GroupAdds

\* The codes and the bits so far.
SoFar(F, n, g) ==
  /\ AllCodes(F, g) \in Seq(Code) /\ Len(AllCodes(F, g)) = g * n
  /\ Bits(F, g) \in Seq(Bit) /\ CodesBits(AllCodes(F, g)) = Bits(F, g)

\* All codes make all bits.
LEMMA AllIs ==
  ASSUME NEW sb, NEW n \in Nat \ {0}, NEW m \in Nat, NEW s, NEW F, CodedWell(sb, n, m, s, F)
  PROVE  /\ AllCodes(F, 0) = <<>> /\ Bits(F, 0) = <<>>
         /\ \A g \in 0..m : SoFar(F, n, g)
<1> DEFINE T == {g \in 0..m : SoFar(F, n, g)}
<1>1. AllCodes(F, 0) = <<>>
  <2>1. [i \in 1..0 |-> F[i].codes] = <<>>
    OBVIOUS
  <2> QED
    BY <2>1, FlattenEmpty DEF AllCodes
<1>2. Bits(F, 0) = <<>>
  <2>1. F[0] = FirstGroup(n)
    BY DEF CodedWell
  <2> QED
    BY <2>1, FirstIs DEF Bits
<1>3. 0 \in T
  <2>1. <<>> \in Seq(Code) /\ <<>> \in Seq(Bit) /\ Len(<<>>) = 0 /\ 0 * n = 0 /\ 0 \in 0..m
    OBVIOUS
  <2>2. SoFar(F, n, 0)
    BY <1>1, <1>2, <2>1, CodesBitsEmpty DEF SoFar
  <2> QED
    BY <2>1, <2>2
<1>4. ASSUME NEW g \in 1..m, g - 1 \in T PROVE g \in T
  <2> DEFINE a == AllCodes(F, g - 1)
             c == F[g].codes
             b == AllCodes(F, g)
             p == Bits(F, g - 1)
             q == Bits(F, g)
  <2>1. GroupAdds(F, n, g)
    BY FrameStep
  <2>2. /\ a \in Seq(Code) /\ Len(a) = (g - 1) * n /\ p \in Seq(Bit) /\ CodesBits(a) = p
    BY <1>4 DEF SoFar
  <2>3. c \in Seq(Code) /\ Len(c) = n /\ q \in Seq(Bit) /\ q = p \o CodesBits(c) /\ b = a \o c
    BY <2>1 DEF GroupAdds
  <2>4. (g - 1) * n + n = g * n
    OBVIOUS
  <2> DEFINE k == (g - 1) * n
             l == g * n
  <2>5. Len(a) = k /\ k + n = l
    BY <2>2, <2>4
  <2> HIDE DEF a, b, c, p, q, k, l
  <2>6. b \in Seq(Code) /\ Len(b) = l
    BY <2>2, <2>3, <2>5, ConcatProperties
  <2>7. CodesBits(b) = q
    BY <2>2, <2>3, CodesBitsConcat
  <2>8. SoFar(F, n, g)
    BY <2>3, <2>6, <2>7 DEF SoFar, b, q, l
  <2> QED
    BY <2>8
<1> HIDE DEF T
<1>5. \A g \in 0..m : g \in T
  BY <1>3, <1>4, UpToInduction
<1>6. \A g \in 0..m : SoFar(F, n, g)
  BY <1>5 DEF T
<1> QED
  BY <1>1, <1>2, <1>6

\* The codes of h groups are those of g of them and some more.
Extended(F, g, h) == \E rest \in Seq(Code) : AllCodes(F, h) = AllCodes(F, g) \o rest

\* The codes of fewer groups come first.
LEMMA AllExtended ==
  ASSUME NEW sb, NEW n \in Nat \ {0}, NEW m \in Nat, NEW s, NEW F, CodedWell(sb, n, m, s, F),
         NEW g \in 0..m, NEW h \in g..m
  PROVE  Extended(F, g, h)
<1> DEFINE k == m - g
           T == {i \in 0..k : Extended(F, g, g + i)}
<1>1. k \in Nat
  OBVIOUS
<1>2. 0 \in T
  <2>1. g + 0 = g /\ 0 \in 0..k
    OBVIOUS
  <2>2. AllCodes(F, g) \in Seq(Code)
    BY AllIs DEF SoFar
  <2>3. AllCodes(F, g) = AllCodes(F, g) \o <<>> /\ <<>> \in Seq(Code)
    BY <2>2, ConcatEmptySeq
  <2>4. Extended(F, g, g)
    BY <2>3 DEF Extended
  <2> QED
    BY <2>1, <2>4
<1>3. ASSUME NEW i \in 1..k, i - 1 \in T PROVE i \in T
  <2> DEFINE j == g + i
  <2>1. j \in 1..m /\ g + (i - 1) = j - 1
    OBVIOUS
  <2>2. Extended(F, g, j - 1)
    BY <1>3, <2>1
  <2>3. GroupAdds(F, n, j)
    BY <2>1, FrameStep
  <2> HIDE DEF j
  <2>4. PICK rest \in Seq(Code) : AllCodes(F, j - 1) = AllCodes(F, g) \o rest
    BY <2>2 DEF Extended
  <2> DEFINE a == AllCodes(F, g)
             c == F[j].codes
  <2>5. a \in Seq(Code) /\ c \in Seq(Code) /\ AllCodes(F, j) = (a \o rest) \o c
    <3>1. a \in Seq(Code)
      BY AllIs DEF SoFar
    <3> QED
      BY <2>3, <2>4, <3>1 DEF GroupAdds
  <2> HIDE DEF a, c
  <2>6. AllCodes(F, j) = a \o (rest \o c) /\ rest \o c \in Seq(Code)
    BY <2>5, CodesConcat
  <2>7. Extended(F, g, j)
    BY <2>6 DEF Extended, a
  <2> QED
    BY <2>7 DEF j
<1> HIDE DEF T
<1>4. \A i \in 0..k : i \in T
  BY <1>1, <1>2, <1>3, UpToInduction
<1>5. h - g \in 0..k /\ g + (h - g) = h
  OBVIOUS
<1>6. h - g \in T
  BY <1>4, <1>5
<1> QED
  BY <1>5, <1>6 DEF T

\* The code j of the group g is in its place among those of h groups.
CodeInPlace(F, n, h, g, j) == AllCodes(F, h)[(g - 1) * n + j] = F[g].codes[j]

\* Every code of a group is among all codes.
LEMMA CodesInPlace ==
  ASSUME NEW sb, NEW n \in Nat \ {0}, NEW m \in Nat, NEW s, NEW F, CodedWell(sb, n, m, s, F),
         NEW h \in 0..m, NEW g \in 1..h, NEW j \in 1..n
  PROVE  CodeInPlace(F, n, h, g, j)
<1> DEFINE k == (g - 1) * n
           a == AllCodes(F, g - 1)
           b == AllCodes(F, g)
           c == F[g].codes
           d == AllCodes(F, h)
<1>1. g \in 1..m /\ g - 1 \in 0..m /\ g \in 0..m /\ h \in g..m
  OBVIOUS
<1>2. k \in Nat /\ k + j \in 1..(k + n)
  OBVIOUS
<1>3. a \in Seq(Code) /\ Len(a) = k
  <2>1. SoFar(F, n, g - 1)
    BY <1>1, AllIs
  <2> QED
    BY <2>1 DEF SoFar
<1>4. b = a \o c /\ c \in Seq(Code) /\ Len(c) = n
  <2>1. GroupAdds(F, n, g)
    BY <1>1, FrameStep
  <2> QED
    BY <2>1 DEF GroupAdds
<1>5. PICK rest \in Seq(Code) : d = b \o rest
  <2>1. Extended(F, g, h)
    BY <1>1, AllExtended
  <2> QED
    BY <2>1 DEF Extended
<1> HIDE DEF k, a, b, c, d
<1>6. b \in Seq(Code) /\ Len(b) = k + n
      /\ \A i \in 1..(k + n) : b[i] = IF i <= k THEN a[i] ELSE c[i - k]
  <2>1. k \in Nat /\ n \in Nat /\ Len(a) = k /\ Len(c) = n /\ a \in Seq(Code) /\ c \in Seq(Code)
    BY <1>2, <1>3, <1>4
  <2>2. /\ a \o c \in Seq(Code) /\ Len(a \o c) = k + n
        /\ \A i \in 1..(k + n) : (a \o c)[i] = IF i <= k THEN a[i] ELSE c[i - k]
    BY ONLY <2>1, ConcatIs
  <2> QED
    BY <1>4, <2>2
<1>7. \A i \in 1..Len(b) : (b \o rest)[i] = b[i]
  BY <1>6, FirstPart
<1>8. d[k + j] = b[k + j]
  BY <1>2, <1>5, <1>6, <1>7
<1>9. b[k + j] = c[j]
  <2>1. ~(k + j <= k) /\ (k + j) - k = j
    BY <1>2
  <2> QED
    BY <1>2, <1>6, <2>1
<1> QED
  BY <1>8, <1>9 DEF k, c, d, CodeInPlace

\* What two sequences of bits have in common is taken off.
LEMMA LeftCancel ==
  ASSUME NEW a \in Seq(Bit), NEW b \in Seq(Bit), NEW c \in Seq(Bit), a \o b = a \o c
  PROVE  b = c
<1>1. SubSeq(a \o b, Len(a) + 1, Len(a \o b)) = b
  BY Halves
<1>2. SubSeq(a \o c, Len(a) + 1, Len(a \o c)) = c
  BY Halves
<1> QED
  BY <1>1, <1>2

\* And from the other end.
LEMMA RightCancel ==
  ASSUME NEW a \in Seq(Bit), NEW b \in Seq(Bit), NEW c \in Seq(Bit), b \o a = c \o a
  PROVE  b = c
<1>1. Len(b \o a) = Len(b) + Len(a) /\ Len(c \o a) = Len(c) + Len(a)
  BY ConcatProperties
<1>2. Len(a) \in Nat /\ Len(b) \in Nat /\ Len(c) \in Nat
  BY LenProperties
<1>3. Len(b) = Len(c)
  BY <1>1, <1>2
<1>4. SubSeq(b \o a, 1, Len(b)) = b /\ SubSeq(c \o a, 1, Len(c)) = c
  BY Halves
<1> QED
  BY <1>3, <1>4

-----------------------------------------------------------------------------
(* How many bits codes have *)

\* The bits of one code more.
LEMMA CodesLength ==
  ASSUME NEW cs \in Seq(Code), NEW i \in 1..Len(cs)
  PROVE  /\ UpTo(cs, i - 1) \in Seq(Code) /\ UpTo(cs, i) \in Seq(Code)
         /\ Len(CodesBits(UpTo(cs, i))) = Len(CodesBits(UpTo(cs, i - 1))) + (cs[i].unary + 1 + cs[i].bin_k)
         /\ Len(CodesBits(UpTo(cs, i - 1))) \in Nat
         /\ cs[i].unary \in Nat /\ cs[i].bin_k \in 0..KMax
<1> DEFINE n == Len(cs)
           a == UpTo(cs, i - 1)
           b == UpTo(cs, i)
           k == cs[i]
<1>1. n \in Nat /\ i \in 1..n /\ cs \in [1..n -> Code]
  BY LenProperties, ElementOfSeq
<1>2. k \in Code
  BY <1>1
<1>3. Grown(Code, cs, i)
  BY <1>1, UpToNext
<1>4. Append(a, k) = b /\ a \in Seq(Code) /\ b \in Seq(Code)
  BY <1>3, Zenon DEF Grown
<1> HIDE DEF a, b, k
<1>5. b = a \o <<k>> /\ <<k>> \in Seq(Code)
  <2>1. Append(a, k) = a \o <<k>>
    BY <1>2, <1>4, AppendJoins
  <2>2. <<k>> \in Seq(Code)
    BY <1>2
  <2> QED
    BY <1>4, <2>1, <2>2
<1>6. CodesBits(b) = CodesBits(a) \o CodeBits(k)
  BY <1>2, <1>4, <1>5, CodesBitsConcat, CodesBitsOne
<1>7. CodesBits(a) \in Seq(Bit)
  BY <1>4, CodesBitsType
<1>8. CodeBits(k) \in Seq(Bit) /\ Len(CodeBits(k)) = k.unary + 1 + k.bin_k
      /\ k.unary \in Nat /\ k.bin_k \in 0..KMax
  BY <1>2, CodeBitsType
<1>9. Len(CodesBits(b)) = Len(CodesBits(a)) + Len(CodeBits(k)) /\ Len(CodesBits(a)) \in Nat
  BY <1>6, <1>7, <1>8, ConcatProperties, LenProperties
<1> QED
  BY <1>4, <1>8, <1>9 DEF a, b, k

\* Short unary codes make few bits.
LEMMA ModestBits ==
  ASSUME NEW cs \in Seq(Code), NEW limit \in Nat, \A i \in 1..Len(cs) : cs[i].unary <= limit
  PROVE  Len(CodesBits(cs)) \in Nat /\ Len(CodesBits(cs)) <= Len(cs) * (limit + 1 + KMax)
<1> DEFINE n == Len(cs)
           B == limit + 1 + KMax
           L(i) == Len(CodesBits(UpTo(cs, i)))
           T == {i \in 0..n : L(i) \in Nat /\ L(i) <= i * B}
<1>1. n \in Nat /\ cs \in [1..n -> Code] /\ B \in Nat
  BY LenProperties, ElementOfSeq, WordAssumption
<1>2. UpTo(cs, 0) = <<>> /\ UpTo(cs, n) = cs
  BY <1>1, UpToAll
<1>3. 0 \in T
  <2>1. L(0) = 0
    BY <1>2, CodesBitsEmpty
  <2>2. 0 * B = 0
    BY <1>1
  <2> HIDE DEF L, B, n
  <2> QED
    BY <1>1, <2>1, <2>2
<1>4. ASSUME NEW i \in 1..n, i - 1 \in T PROVE i \in T
  <2> DEFINE u == cs[i].unary
             k == cs[i].bin_k
  <2>1. L(i) = L(i - 1) + (u + 1 + k) /\ L(i - 1) \in Nat /\ u \in Nat /\ k \in 0..KMax
    BY CodesLength
  <2>2. u <= limit
    OBVIOUS
  <2> HIDE DEF L, u, k
  <2>3. KMax \in Nat
    BY WordAssumption
  <2>4. u + 1 + k <= B /\ u + 1 + k \in Nat
    BY <2>1, <2>2, <2>3
  <2>5. L(i - 1) <= (i - 1) * B
    BY <1>4
  <2> HIDE DEF B, n
  <2>6. (i - 1) * B + B = i * B /\ (i - 1) * B \in Nat
    BY <1>1
  <2> DEFINE p == (i - 1) * B
             q == i * B
             v == u + 1 + k
  <2>7. L(i) = L(i - 1) + v /\ v \in Nat /\ v <= B /\ p + B = q /\ p \in Nat /\ L(i - 1) <= p
        /\ L(i - 1) \in Nat
    BY <2>1, <2>4, <2>5, <2>6
  <2> HIDE DEF p, q, v
  <2>8. L(i) \in Nat /\ L(i) <= q
    BY <1>1, <2>7
  <2>9. i \in 0..n
    BY <1>1
  <2> QED
    BY <2>8, <2>9 DEF q
<1> HIDE DEF T
<1>5. n \in T
  <2>1. \A i \in 0..n : i \in T
    BY <1>1, <1>3, <1>4, UpToInduction
  <2>2. n \in 0..n
    BY <1>1
  <2> QED
    BY <2>1, <2>2
<1>6. L(n) \in Nat /\ L(n) <= n * B
  BY <1>5 DEF T
<1> QED
  BY <1>2, <1>6

\* A code has at least one bit.
LEMMA SomeBits ==
  ASSUME NEW cs \in Seq(Code), Len(cs) > 0
  PROVE  Len(CodesBits(cs)) \in Nat /\ Len(CodesBits(cs)) > 0
<1>1. Len(cs) \in Nat /\ 1 \in 1..Len(cs) /\ cs[1] \in Code
  BY LenProperties, ElementOfSeq
<1>2. CodesFrom(cs, 1) = CodesBits(cs)
  <2>1. SubSeq(cs, 1, Len(cs)) = cs
    OBVIOUS
  <2> QED
    BY <2>1 DEF CodesFrom
<1> DEFINE a == CodeBits(cs[1])
           b == CodesFrom(cs, 1 + 1)
<1>3. CodesBits(cs) = a \o b /\ b \in Seq(Bit)
  BY <1>1, <1>2, CodesFromIs
<1>4. a \in Seq(Bit) /\ Len(a) > 0
  <2> DEFINE c == cs[1]
  <2>1. c \in Code
    BY <1>1
  <2> HIDE DEF c
  <2>2. CodeBits(c) \in Seq(Bit) /\ Len(CodeBits(c)) = c.unary + 1 + c.bin_k
        /\ c.unary \in Nat /\ c.bin_k \in Nat
    BY <2>1, CodeBitsType
  <2>3. Len(CodeBits(c)) > 0
    BY <2>2
  <2> QED
    BY <2>2, <2>3 DEF c
<1> HIDE DEF a, b
<1>5. Len(a \o b) = Len(a) + Len(b) /\ Len(a) \in Nat /\ Len(b) \in Nat
  BY <1>3, <1>4, ConcatProperties, LenProperties
<1> QED
  BY <1>3, <1>4, <1>5

-----------------------------------------------------------------------------
(* The end of a frame *)

\* The bytes that hold bits.

\* They hold less than a byte more.
LEMMA FrameBytesIs ==
  ASSUME NEW bits \in Seq(Bit)
  PROVE  /\ FrameBytes(bits) \in Seq(Byte)
         /\ Len(FrameBytes(bits)) \in Nat
         /\ 8 * Len(FrameBytes(bits)) \in Len(bits)..(Len(bits) + 7)
         /\ \E z \in Seq(Bit) : FlattenSeq(FrameBytes(bits)) = bits \o z
<1> DEFINE p == bits \o Zeros(7)
           n == Len(bits)
           full == BytesOf(p)
           k == Len(full)
           rest == SubSeq(p, 8 * Len(full) + 1, Len(p))
           fl == FlattenSeq(full)
<1>1. Zeros(7) \in Seq(Bit) /\ Len(Zeros(7)) = 7
  BY OnesAndZeros
<1>2. p \in Seq(Bit) /\ Len(p) = n + 7 /\ n \in Nat
  <2> DEFINE y == Zeros(7)
  <2>1. y \in Seq(Bit) /\ Len(y) = 7
    BY <1>1
  <2> HIDE DEF y
  <2>2. bits \o y \in Seq(Bit) /\ Len(bits \o y) = Len(bits) + Len(y) /\ Len(bits) \in Nat
    BY <2>1, ConcatProperties, LenProperties
  <2> QED
    BY <2>1, <2>2 DEF y
<1> HIDE DEF p, n
<1>3. full \in Seq(Byte)
  BY <1>2, BytesOfIs
<1>4. rest \in Seq(Bit) /\ Len(rest) = Len(p) % 8 /\ fl \o rest = p
  BY <1>2, BytesAndRest
<1> HIDE DEF full, rest
<1>5. fl \in Seq(Bit) /\ Len(fl) = 8 * k /\ k \in Nat
  BY <1>3, BytesFlat, LenProperties
<1> HIDE DEF fl, k
<1>6. Len(rest) \in 0..7
  <2>1. Len(p) \in Nat
    BY <1>2
  <2> QED
    BY <1>4, <2>1, Remainder8
<1>7. Len(fl \o rest) = Len(fl) + Len(rest)
  BY <1>4, <1>5, ConcatProperties
<1>8. 8 * k + Len(rest) = n + 7
  BY <1>2, <1>4, <1>5, <1>7
<1>9. 8 * k \in n..(n + 7)
  <2> DEFINE l == Len(rest)
             q == 8 * k
  <2>1. q \in Nat /\ n \in Nat /\ l \in 0..7 /\ q + l = n + 7
    BY <1>2, <1>5, <1>6, <1>8
  <2> HIDE DEF l, q
  <2>2. q >= n /\ q <= n + 7
    BY <2>1
  <2>3. q \in n..(n + 7)
    BY <2>1, <2>2
  <2> QED
    BY <2>3 DEF q
<1>10. PICK z \in Seq(Bit) : fl = bits \o z
  <2> DEFINE z == SubSeq(fl, n + 1, Len(fl))
  <2>1. n \in 0..Len(fl)
    BY <1>2, <1>5, <1>9
  <2>2. fl = SubSeq(fl, 1, n) \o z /\ z \in Seq(Bit) /\ SubSeq(fl, 1, n) \in Seq(Bit)
        /\ Len(SubSeq(fl, 1, n)) = n
    BY <1>5, <2>1, Cut
  <2> HIDE DEF z
  <2>3. SubSeq(fl, 1, n) = bits
    <3>1. \A i \in 1..Len(fl) : (fl \o rest)[i] = fl[i]
      BY <1>4, <1>5, FirstPart
    <3>2. \A i \in 1..Len(bits) : (bits \o Zeros(7))[i] = bits[i]
      BY <1>1, FirstPart
    <3>3. \A i \in 1..n : fl[i] = bits[i]
      <4> TAKE i \in 1..n
      <4>1. i \in 1..Len(fl) /\ i \in 1..Len(bits)
        BY <1>2, <1>5, <1>9 DEF n
      <4>2. fl[i] = p[i] /\ p[i] = bits[i]
        BY <1>4, <3>1, <3>2, <4>1 DEF p
      <4> QED
        BY <4>2
    <3>4. \A i \in 1..n : SubSeq(fl, 1, n)[i] = fl[i]
      <4>1. 1 \in Nat \ {0} /\ n \in Int /\ n <= Len(fl) /\ n - 1 + 1 = n
        BY <1>2, <2>1
      <4>2. \A i \in 1..(n - 1 + 1) : SubSeq(fl, 1, n)[i] = fl[1 + i - 1]
        BY <1>5, <4>1, SubSeqIs
      <4>3. \A i \in 1..n : 1 + i - 1 = i
        BY <1>2
      <4> QED
        BY <4>1, <4>2, <4>3
    <3>5. Len(bits) = n
      BY DEF n
    <3> QED
      BY <2>2, <3>3, <3>4, <3>5, SeqEqual
  <2> QED
    BY <2>2, <2>3
<1>11. FrameBytes(bits) = full
  BY DEF FrameBytes, full, p
<1>12. \E y \in Seq(Bit) : FlattenSeq(full) = bits \o y
  BY <1>10 DEF fl
<1>13. k = Len(full)
  BY DEF k
<1>14. 8 * k \in Len(bits)..(Len(bits) + 7)
  BY <1>9 DEF n
<1> QED
  BY <1>3, <1>5, <1>11, <1>12, <1>13, <1>14

\* The flush puts the bits of the cache into bytes.
Flushes(w, v) ==
  /\ v.cache = <<>>
  /\ v.dest = w.dest \o FrameBytes(w.cache)
  /\ v.crc = w.crc \o FrameBytes(w.cache)

\* It leaves no bit behind.
LEMMA FlushIs ==
  ASSUME NEW pre, NEW w \in Fed(pre)
  PROVE  Flushes(w, rice24_encode_cacheflush(w))
<1> DEFINE u == [w EXCEPT !.cache = w.cache \o Zeros(7)]
           full == FrameBytes(w.cache)
           v == write_cache(u)
<1>1. w \in Writers /\ w.cache \in Seq(Bit)
  BY FedIs
<1>2. u = [cache |-> w.cache \o Zeros(7), dest |-> w.dest, crc |-> w.crc]
  BY <1>1, WriterCache DEF Writers
<1> HIDE DEF u
<1>3. u.cache = w.cache \o Zeros(7) /\ u.dest = w.dest /\ u.crc = w.crc
  BY <1>2
<1>4. BytesOf(u.cache) = full
  BY <1>3 DEF FrameBytes
<1> HIDE DEF full
<1>5. \E c : v = [cache |-> c, dest |-> w.dest \o full, crc |-> w.crc \o full]
  BY <1>3, <1>4 DEF write_cache
<1>6. rice24_encode_cacheflush(w) = [v EXCEPT !.cache = <<>>]
  BY DEF rice24_encode_cacheflush, u
<1> HIDE DEF v
<1>7. [v EXCEPT !.cache = <<>>] = [cache |-> <<>>, dest |-> w.dest \o full, crc |-> w.crc \o full]
  <2> DEFINE d == w.dest \o full
             e == w.crc \o full
  <2>1. PICK c : v = [cache |-> c, dest |-> d, crc |-> e]
    BY <1>5
  <2> HIDE DEF d, e
  <2>2. [v EXCEPT !.cache = <<>>] = [cache |-> <<>>, dest |-> d, crc |-> e]
    BY <2>1
  <2> QED
    BY <2>2 DEF d, e
<1> QED
  BY <1>6, <1>7 DEF Flushes, full

\* Wherever the bytes were written, they are the same.
LEMMA FlushedBytes ==
  ASSUME NEW bs \in Seq(Byte), NEW c \in Seq(Bit), NEW bits, bits = FlattenSeq(bs) \o c
  PROVE  FrameBytes(bits) = bs \o FrameBytes(c)
<1>1. Zeros(7) \in Seq(Bit)
  BY OnesAndZeros
<1>2. FlattenSeq(bs) \in Seq(Bit)
  BY BytesFlat
<1> DEFINE z == Zeros(7)
           fl == FlattenSeq(bs)
<1>3. z \in Seq(Bit) /\ fl \in Seq(Bit)
  BY <1>1, <1>2
<1> HIDE DEF z, fl
<1>4. (fl \o c) \o z = fl \o (c \o z) /\ c \o z \in Seq(Bit)
  BY <1>3, BitsConcat, ConcatProperties
<1>5. BytesOf(fl \o (c \o z)) = bs \o BytesOf(c \o z)
  BY <1>4, BytesOfConcat DEF fl
<1> QED
  BY <1>4, <1>5 DEF FrameBytes, z, fl

-----------------------------------------------------------------------------
(* The interleaving with conditional moves *)

\* Even and odd numbers.
LEMMA EvenOdd ==
  ASSUME NEW x \in Int
  PROVE  /\ (2 * x) % 2 = 0 /\ (2 * x) \div 2 = x
         /\ (2 * x - 1) % 2 = 1
<1>1. 0 \in 0..(2 - 1) /\ 1 \in 0..(2 - 1) /\ 2 \in Nat \ {0}
  OBVIOUS
<1>2. 2 * x \in Int /\ 2 * x = 2 * x + 0 /\ 2 * x - 1 \in Int /\ 2 * x - 1 = 2 * (x - 1) + 1 /\ x - 1 \in Int
  OBVIOUS
<1>3. (2 * x) \div 2 = x /\ (2 * x) % 2 = 0
  BY <1>1, <1>2, IntDivUnique
<1>4. (2 * x - 1) % 2 = 1
  BY <1>1, <1>2, IntDivUnique
<1> QED
  BY <1>3, <1>4

\* What both versions make of a value.
LEMMA Interleaved ==
  ASSUME NEW x \in Int, -2^(W - 2) < x, x < 2^(W - 2)
  PROVE  /\ tta_postfilter_enc(x) = (IF x > 0 THEN 2 * x - 1 ELSE -2 * x)
         /\ tta_postfilter_enc_cmov(x) = (IF x > 0 THEN 2 * x - 1 ELSE -2 * x)
         /\ x \in Int32
<1> DEFINE P == 2^(W - 2)
           H == 2^(W - 1)
           M == Word
<1>1. P \in Nat /\ H = 2 * P /\ M = 4 * P /\ M \in Nat \ {0} /\ -P < x /\ x < P /\ H \in Nat
      /\ UInt32 = 0..(M - 1) /\ Int32 = (-H)..(H - 1) /\ UINT32_MAX = M - 1
  BY WordIs, IntWords DEF Word, UINT32_MAX
<1>2. tta_postfilter_enc(x) = (IF U(-x) >= H THEN UINT32_MAX - U(2 * U(-x)) ELSE U(2 * U(-x)))
  BY DEF tta_postfilter_enc
<1>3. tta_postfilter_enc_cmov(x) = (IF x > 0 THEN U(2 * x - 1) ELSE U(-2 * x))
  BY DEF tta_postfilter_enc_cmov
<1> HIDE DEF P, H, M
<1>4. CASE x > 0
  <2>1. M - x \in UInt32 /\ -x = (M - x) + (-1) * M /\ -x \in Int /\ M - x \in Int
    BY <1>1, <1>4
  <2>2. U(-x) = M - x
    BY <2>1, UUnique DEF M
  <2>3. M - 2 * x \in UInt32 /\ 2 * (M - x) = (M - 2 * x) + 1 * M /\ 2 * (M - x) \in Int
    BY <1>1, <1>4
  <2>4. U(2 * (M - x)) = M - 2 * x
    BY <2>3, UUnique DEF M
  <2>5. M - x >= H /\ UINT32_MAX - (M - 2 * x) = 2 * x - 1
    BY <1>1, <1>4
  <2>6. 2 * x - 1 \in UInt32
    BY <1>1, <1>4
  <2>7. U(2 * x - 1) = 2 * x - 1
    BY <2>6, USmall
  <2>8. x \in Int32
    BY <1>1
  <2> QED
    BY <1>2, <1>3, <1>4, <2>2, <2>4, <2>5, <2>7, <2>8
<1>5. CASE ~(x > 0)
  <2>1. -x \in UInt32 /\ 2 * (-x) \in UInt32 /\ ~(-x >= H) /\ 2 * (-x) = -2 * x
    BY <1>1, <1>5
  <2>2. U(-x) = -x /\ U(2 * (-x)) = 2 * (-x)
    BY <2>1, USmall
  <2>3. x \in Int32
    BY <1>1
  <2>4. tta_postfilter_enc(x) = 2 * (-x)
    BY <1>2, <2>1, <2>2
  <2>5. tta_postfilter_enc_cmov(x) = 2 * (-x)
    BY <1>3, <1>5, <2>1, <2>2
  <2> QED
    BY <1>5, <2>1, <2>3, <2>4, <2>5
<1> QED
  BY <1>4, <1>5

\* LIBTTAr_OPT_PREFER_CONDITIONAL_MOVES changes nothing.
LEMMA CmovIs == ASSUME NEW x \in Int PROVE CmovAgrees(x)
<1> SUFFICES ASSUME -2^(W - 2) < x, x < 2^(W - 2)
             PROVE  /\ tta_postfilter_enc_cmov(x) = tta_postfilter_enc(x)
                    /\ tta_prefilter_dec_cmov(tta_postfilter_enc(x))
                         = tta_prefilter_dec(tta_postfilter_enc(x))
  BY DEF CmovAgrees
<1> DEFINE P == 2^(W - 2)
           H == 2^(W - 1)
           u == tta_postfilter_enc(x)
<1>1. P \in Nat /\ H = 2 * P /\ H \in Nat /\ -P < x /\ x < P /\ Int32 = (-H)..(H - 1)
  BY WordIs, IntWords
<1>2. u = (IF x > 0 THEN 2 * x - 1 ELSE -2 * x) /\ tta_postfilter_enc_cmov(x) = u /\ x \in Int32
  BY Interleaved
<1>3. tta_prefilter_dec(u) = x
  BY <1>2, InterleavedBack
<1>4. tta_prefilter_dec_cmov(u)
        = (IF u % 2 = 1 THEN asr32(Wrap(Wrap(u) + 1), 1) ELSE asr32(Wrap(-Wrap(u)), 1))
  BY DEF tta_prefilter_dec_cmov
<1> HIDE DEF P, H, u
<1>5. 2 * x \in Int32 /\ (2 * x) \div 2^1 = x
  <2>1. 2 * x \in Int32
    BY <1>1
  <2> QED
    BY <2>1, EvenOdd, PowerSmall
<1>6. Wrap(2 * x) = 2 * x
  BY <1>5, WrapSmall
<1>7. tta_prefilter_dec_cmov(u) = x
  <2>1. CASE x > 0
    <3>1. 2 * x - 1 \in Int32 /\ u = 2 * x - 1 /\ (2 * x - 1) + 1 = 2 * x
      BY <1>1, <1>2, <2>1
    <3>2. Wrap(u) = 2 * x - 1 /\ u % 2 = 1
      BY <3>1, WrapSmall, EvenOdd
    <3> QED
      BY <1>4, <1>5, <1>6, <3>1, <3>2 DEF asr32
  <2>2. CASE ~(x > 0)
    <3>1. 2 * (-x) \in Int32 /\ u = 2 * (-x) /\ -(2 * (-x)) = 2 * x /\ -x \in Int
      BY <1>1, <1>2, <2>2
    <3>2. Wrap(u) = 2 * (-x) /\ u % 2 = 0
      BY <3>1, WrapSmall, EvenOdd
    <3> QED
      BY <1>4, <1>5, <1>6, <3>1, <3>2 DEF asr32
  <2> QED
    BY <2>1, <2>2
<1> QED
  BY <1>2, <1>3, <1>7 DEF u

-----------------------------------------------------------------------------
(* The filter on the vector units *)

Signs == {-1, 0, 1}

\* e has the sign of s.
SameSign(e, s) == e \in Int /\ (e = 0 <=> s = 0) /\ (e < 0 <=> s < 0)

\* v is what a lane that holds d adds for the residue e.
Adds(e, d, v) ==
  LET p == IF e = 0 THEN 0 ELSE d
  IN  v = IF e < 0 THEN Wrap(-p) ELSE p

\* A tap of qm moved by dx in the direction of the error.
LEMMA MovedTap ==
  ASSUME NEW q \in Int, NEW d \in Int, NEW s \in Signs, NEW e, SameSign(e, s),
         NEW v \in Int, Adds(e, d, v)
  PROVE  Wrap(q + v) = Wrap(q + d * s)
<1> DEFINE p == IF e = 0 THEN 0 ELSE d
<1>0. v = (IF e < 0 THEN Wrap(-p) ELSE p) /\ e \in Int /\ (e = 0 <=> s = 0) /\ (e < 0 <=> s < 0)
  BY DEF Adds, SameSign
<1>1. CASE s = 0
  <2>1. p = 0 /\ ~(e < 0) /\ d * s = 0
    BY <1>0, <1>1
  <2>2. v = 0
    BY <1>0, <2>1
  <2> QED
    BY <2>1, <2>2
<1>2. CASE s = 1
  <2>1. p = d /\ ~(e < 0) /\ d * s = d
    BY <1>0, <1>2
  <2> QED
    BY <1>0, <2>1
<1>3. CASE s = -1
  <2>1. p = d /\ e < 0 /\ d * s = -d /\ -d \in Int
    BY <1>0, <1>3
  <2>2. Wrap(q + Wrap(-d)) = Wrap(q + (-d))
    BY <2>1, WrapSum
  <2> QED
    BY <1>0, <2>1, <2>2
<1> QED
  BY <1>1, <1>2, <1>3 DEF Signs

\* The register q holds the taps of x that at puts in its lanes.
Holds(q, x, at) == q = [i \in Lanes |-> x[at[i]]]

\* So does v once they moved.
MovedBy(v, qm, dx, s, at) == v = [i \in Lanes |-> Wrap(qm[at[i]] + dx[at[i]] * s)]

MovedRegister(a, m, e) == vadd(a, cneg_izaz_vi32(predictz_vi32(m, vsplat(e)), vsplat(e)))

\* A register of weights is moved by the signs of its differences.
LEMMA MovedIs ==
  ASSUME NEW q, NEW d, NEW s \in Signs, NEW e, SameSign(e, s),
         NEW at \in [Lanes -> Taps], NEW qm \in [Taps -> Int], NEW dx \in [Taps -> Int],
         Holds(q, qm, at), Holds(d, dx, at)
  PROVE  MovedBy(MovedRegister(q, d, e), qm, dx, s, at)
<1> DEFINE p(i) == IF e = 0 THEN 0 ELSE dx[at[i]]
           v(i) == IF e < 0 THEN Wrap(-p(i)) ELSE p(i)
<1>0. q = [i \in Lanes |-> qm[at[i]]] /\ d = [i \in Lanes |-> dx[at[i]]]
  BY DEF Holds
<1>1. predictz_vi32(d, vsplat(e)) = [i \in Lanes |-> p(i)]
  BY <1>0 DEF predictz_vi32, vsplat
<1>2. cneg_izaz_vi32([i \in Lanes |-> p(i)], vsplat(e)) = [i \in Lanes |-> v(i)]
  <2> HIDE DEF p
  <2> QED
    BY DEF cneg_izaz_vi32, vsplat
<1>3. vadd(q, [i \in Lanes |-> v(i)]) = [i \in Lanes |-> Wrap(qm[at[i]] + v(i))]
  <2> HIDE DEF v
  <2> QED
    BY <1>0 DEF vadd
<1>4. \A i \in Lanes : Wrap(qm[at[i]] + v(i)) = Wrap(qm[at[i]] + dx[at[i]] * s)
  <2>1. SUFFICES ASSUME NEW i \in Lanes
                 PROVE  Wrap(qm[at[i]] + v(i)) = Wrap(qm[at[i]] + dx[at[i]] * s)
    OBVIOUS
  <2>2. qm[at[i]] \in Int /\ dx[at[i]] \in Int
    OBVIOUS
  <2> DEFINE b == qm[at[i]]
             c == dx[at[i]]
             vi == v(i)
  <2>3. b \in Int /\ c \in Int /\ Adds(e, c, vi)
    BY <2>2 DEF Adds
  <2>5. vi \in Int
    <3>1. 0 \in Int /\ p(i) \in Int /\ -p(i) \in Int
      BY <2>2
    <3>2. Wrap(-p(i)) \in Int
      BY <3>1, Ints
    <3> QED
      BY <3>1, <3>2
  <2> HIDE DEF b, c, vi
  <2>4. Wrap(b + vi) = Wrap(b + c * s)
    BY <2>3, <2>5, MovedTap
  <2> QED
    BY <2>4 DEF b, c, vi
<1>5. MovedRegister(q, d, e) = [i \in Lanes |-> Wrap(qm[at[i]] + v(i))]
  BY <1>1, <1>2, <1>3 DEF MovedRegister
<1> HIDE DEF v
<1> QED
  BY <1>4, <1>5 DEF MovedBy

\* Which tap is in a lane.
LoAt(arch) == [i \in Lanes |-> IF arch = "arm" THEN 3 - i ELSE i]
HiAt(arch) == [i \in Lanes |-> IF arch = "arm" THEN 7 - i ELSE i + 4]

\* Which taps the lanes hold.
LEMMA LanesAre ==
  ASSUME NEW arch
  PROVE  /\ LoAt(arch) \in [Lanes -> Taps] /\ HiAt(arch) \in [Lanes -> Taps]
         /\ \A x : /\ Lo(arch, x) = [i \in Lanes |-> x[LoAt(arch)[i]]]
                   /\ Hi(arch, x) = [i \in Lanes |-> x[HiAt(arch)[i]]]
<1>1. LoAt(arch) \in [Lanes -> Taps] /\ HiAt(arch) \in [Lanes -> Taps]
  <2>1. \A i \in 0..3 : 3 - i \in 0..7 /\ i \in 0..7 /\ 7 - i \in 0..7 /\ i + 4 \in 0..7
    OBVIOUS
  <2> QED
    BY <2>1 DEF LoAt, HiAt, Lanes, Taps
<1>2. ASSUME NEW x
      PROVE  /\ Lo(arch, x) = [i \in Lanes |-> x[LoAt(arch)[i]]]
             /\ Hi(arch, x) = [i \in Lanes |-> x[HiAt(arch)[i]]]
  BY DEF Lo, Hi, LoAt, HiAt
<1> QED
  BY <1>1, <1>2

\* qm moves in the registers as in the array.
LEMMA MovesA ==
  ASSUME NEW f \in FilterState, NEW arch, NEW e, SameSign(e, f.error)
  PROVE  /\ MovedRegister(Lo(arch, f.qm), Lo(arch, f.dx), e) = Lo(arch, updated_a(f))
         /\ MovedRegister(Hi(arch, f.qm), Hi(arch, f.dx), e) = Hi(arch, updated_a(f))
<1> DEFINE a == updated_a(f)
<1>1. f.qm \in [Taps -> Int] /\ f.dx \in [Taps -> Int] /\ f.error \in Signs
  BY FilterStateIs DEF Signs
<1>2. \A i \in Taps : a[i] = Wrap(f.qm[i] + f.dx[i] * f.error)
  BY DEF updated_a
<1> HIDE DEF a
<1>3. ASSUME NEW at \in [Lanes -> Taps]
      PROVE  MovedRegister([i \in Lanes |-> f.qm[at[i]]], [i \in Lanes |-> f.dx[at[i]]], e)
               = [i \in Lanes |-> a[at[i]]]
  <2>1. MovedRegister([i \in Lanes |-> f.qm[at[i]]], [i \in Lanes |-> f.dx[at[i]]], e)
          = [i \in Lanes |-> Wrap(f.qm[at[i]] + f.dx[at[i]] * f.error)]
    <3> DEFINE q == [i \in Lanes |-> f.qm[at[i]]]
               d == [i \in Lanes |-> f.dx[at[i]]]
               qm == f.qm
               dx == f.dx
               s == f.error
    <3>1. Holds(q, qm, at) /\ Holds(d, dx, at)
          /\ qm \in [Taps -> Int] /\ dx \in [Taps -> Int] /\ s \in Signs /\ SameSign(e, s)
      BY <1>1 DEF Holds
    <3> HIDE DEF q, d, qm, dx, s
    <3>2. MovedBy(MovedRegister(q, d, e), qm, dx, s, at)
      BY <3>1, MovedIs
    <3> QED
      BY <3>2 DEF MovedBy, q, d, qm, dx, s
  <2>2. \A i \in Lanes : a[at[i]] = Wrap(f.qm[at[i]] + f.dx[at[i]] * f.error)
    BY <1>2
  <2> QED
    BY <2>1, <2>2
<1>4. LoAt(arch) \in [Lanes -> Taps] /\ HiAt(arch) \in [Lanes -> Taps]
  BY LanesAre
<1>5. /\ Lo(arch, f.qm) = [i \in Lanes |-> f.qm[LoAt(arch)[i]]]
      /\ Lo(arch, f.dx) = [i \in Lanes |-> f.dx[LoAt(arch)[i]]]
      /\ Lo(arch, a) = [i \in Lanes |-> a[LoAt(arch)[i]]]
      /\ Hi(arch, f.qm) = [i \in Lanes |-> f.qm[HiAt(arch)[i]]]
      /\ Hi(arch, f.dx) = [i \in Lanes |-> f.dx[HiAt(arch)[i]]]
      /\ Hi(arch, a) = [i \in Lanes |-> a[HiAt(arch)[i]]]
  BY LanesAre
<1> QED
  BY <1>3, <1>4, <1>5 DEF a

-----------------------------------------------------------------------------
\* The sum over the lanes of a register.
LEMMA TotalIs ==
  ASSUME NEW x, x[0] \in Int, x[1] \in Int, x[2] \in Int, x[3] \in Int
  PROVE  sum_vi32(x) = Wrap(x[0] + x[1] + x[2] + x[3])
<1> DEFINE h == vadd(x, bsrli(x, 2))
           y == bsrli(x, 2)
           z == bsrli(h, 1)
<1>1. 0 \in Lanes /\ 1 \in Lanes
  BY DEF Lanes
<1>2. y[0] = x[2] /\ y[1] = x[3]
  BY <1>1 DEF bsrli, ext
<1>3. h[0] = Wrap(x[0] + x[2]) /\ h[1] = Wrap(x[1] + x[3])
  BY <1>1, <1>2 DEF vadd
<1> HIDE DEF y
<1>4. z[0] = h[1]
  BY <1>1 DEF bsrli, ext
<1>5. sum_vi32(x) = Wrap(h[0] + h[1])
  BY <1>1, <1>4 DEF sum_vi32, vadd
<1> HIDE DEF h
<1> DEFINE b == x[0] + x[2]
           c == x[1] + x[3]
<1>6. b \in Int /\ c \in Int /\ b + c = x[0] + x[1] + x[2] + x[3]
  OBVIOUS
<1>7. h[0] = Wrap(b) /\ h[1] = Wrap(c)
  BY <1>3
<1> HIDE DEF b, c
<1>8. Wrap(Wrap(b) + Wrap(c)) = Wrap(b + c)
  <2> DEFINE w == Wrap(b)
  <2>1. w \in Int
    BY <1>6, Ints
  <2>2. Wrap(w + c) = Wrap(b + c)
    BY <1>6, WrapSum
  <2> HIDE DEF w
  <2>3. Wrap(w + Wrap(c)) = Wrap(w + c)
    BY <1>6, <2>1, WrapSum
  <2> QED
    BY <2>2, <2>3 DEF w
<1> QED
  BY <1>5, <1>6, <1>7, <1>8

\* The products of the taps of a filter, and what the lanes of a product hold.
Product(f, i) == Wrap(updated_a(f)[i] * f.dl[i])

\* The sums of the lanes add up to the sum of the products.
LEMMA ProductsAre ==
  ASSUME NEW f \in FilterState, NEW arch \in Arch
  PROVE  LET lo == vmul(Lo(arch, updated_a(f)), Lo(arch, f.dl))
             hi == vmul(Hi(arch, updated_a(f)), Hi(arch, f.dl))
         IN  /\ \A i \in Taps : Product(f, i) \in Int
             /\ \A i \in 0..3 : lo[i] \in Int /\ hi[i] \in Int
             /\ lo[0] + lo[1] + lo[2] + lo[3]
                  = Product(f, 0) + Product(f, 1) + Product(f, 2) + Product(f, 3)
             /\ hi[0] + hi[1] + hi[2] + hi[3]
                  = Product(f, 4) + Product(f, 5) + Product(f, 6) + Product(f, 7)
<1> DEFINE a == updated_a(f)
           lo == vmul(Lo(arch, a), Lo(arch, f.dl))
           hi == vmul(Hi(arch, a), Hi(arch, f.dl))
<1>1. a \in [Taps -> Int] /\ f.dl \in [Taps -> Int]
  BY FilterStateIs, UpdatedAType
<1>2. \A i \in Taps : Product(f, i) \in Int
  <2>1. SUFFICES ASSUME NEW i \in Taps PROVE Wrap(a[i] * f.dl[i]) \in Int
    BY DEF Product
  <2>2. a[i] \in Int /\ f.dl[i] \in Int
    BY <1>1
  <2>3. a[i] * f.dl[i] \in Int
    BY <2>2
  <2> QED
    BY <2>3, Ints
<1> HIDE DEF a
<1>3. \A i \in 0..3 : /\ lo[i] = Wrap(Lo(arch, a)[i] * Lo(arch, f.dl)[i])
                      /\ hi[i] = Wrap(Hi(arch, a)[i] * Hi(arch, f.dl)[i])
  BY DEF vmul, Lanes
<1> HIDE DEF lo, hi
<1>4. CASE arch = "arm"
  <2>1. \A i \in 0..3 : /\ Lo(arch, a)[i] = a[3 - i] /\ Lo(arch, f.dl)[i] = f.dl[3 - i]
                        /\ Hi(arch, a)[i] = a[7 - i] /\ Hi(arch, f.dl)[i] = f.dl[7 - i]
    BY <1>4 DEF Lo, Hi, Lanes
  <2>2. \A i \in 0..3 : lo[i] = Product(f, 3 - i) /\ hi[i] = Product(f, 7 - i)
    BY <1>3, <2>1 DEF Product, a
  <2>3. /\ lo[0] = Product(f, 3) /\ lo[1] = Product(f, 2) /\ lo[2] = Product(f, 1) /\ lo[3] = Product(f, 0)
        /\ hi[0] = Product(f, 7) /\ hi[1] = Product(f, 6) /\ hi[2] = Product(f, 5) /\ hi[3] = Product(f, 4)
    BY <2>2
  <2>4. /\ Product(f, 0) \in Int /\ Product(f, 1) \in Int /\ Product(f, 2) \in Int /\ Product(f, 3) \in Int
        /\ Product(f, 4) \in Int /\ Product(f, 5) \in Int /\ Product(f, 6) \in Int /\ Product(f, 7) \in Int
    BY <1>2 DEF Taps
  <2>5. \A i \in 0..3 : lo[i] \in Int /\ hi[i] \in Int
    BY <2>3, <2>4
  <2> QED
    BY <1>2, <2>3, <2>4, <2>5 DEF lo, hi, a
<1>5. CASE arch # "arm"
  <2>1. \A i \in 0..3 : /\ Lo(arch, a)[i] = a[i] /\ Lo(arch, f.dl)[i] = f.dl[i]
                        /\ Hi(arch, a)[i] = a[i + 4] /\ Hi(arch, f.dl)[i] = f.dl[i + 4]
    BY <1>5 DEF Lo, Hi, Lanes
  <2>2. \A i \in 0..3 : lo[i] = Product(f, i) /\ hi[i] = Product(f, i + 4)
    BY <1>3, <2>1 DEF Product, a
  <2>3. /\ lo[0] = Product(f, 0) /\ lo[1] = Product(f, 1) /\ lo[2] = Product(f, 2) /\ lo[3] = Product(f, 3)
        /\ hi[0] = Product(f, 4) /\ hi[1] = Product(f, 5) /\ hi[2] = Product(f, 6) /\ hi[3] = Product(f, 7)
    BY <2>2
  <2>4. /\ Product(f, 0) \in Int /\ Product(f, 1) \in Int /\ Product(f, 2) \in Int /\ Product(f, 3) \in Int
        /\ Product(f, 4) \in Int /\ Product(f, 5) \in Int /\ Product(f, 6) \in Int /\ Product(f, 7) \in Int
    BY <1>2 DEF Taps
  <2>5. \A i \in 0..3 : lo[i] \in Int /\ hi[i] \in Int
    BY <2>3, <2>4
  <2> QED
    BY <1>2, <2>3, <2>4, <2>5 DEF lo, hi, a
<1> QED
  BY <1>4, <1>5

\* The sum the registers give is that of the C code; PowerPC's unless it saturates.
LEMMA SumsAre ==
  ASSUME NEW f \in FilterState, NEW arch \in Arch, arch # "ppc" \/ SumsFit(f),
         NEW e, SameSign(e, f.error), NEW round \in Int
  PROVE  SumUpdateA(arch, Registers(arch, f, e), round)
           = [a_lo |-> Lo(arch, updated_a(f)), a_hi |-> Hi(arch, updated_a(f)),
              sum  |-> filter_sum(updated_a(f), f.dl, round)]
<1> DEFINE a == updated_a(f)
           lo == vmul(Lo(arch, a), Lo(arch, f.dl))
           hi == vmul(Hi(arch, a), Hi(arch, f.dl))
           total(x) == IF arch = "ppc" THEN sum_vi32_ppc(x) ELSE sum_vi32(x)
           l == Product(f, 0) + Product(f, 1) + Product(f, 2) + Product(f, 3)
           h == Product(f, 4) + Product(f, 5) + Product(f, 6) + Product(f, 7)
<1>1. /\ MovedRegister(Lo(arch, f.qm), Lo(arch, f.dx), e) = Lo(arch, a)
      /\ MovedRegister(Hi(arch, f.qm), Hi(arch, f.dx), e) = Hi(arch, a)
  BY MovesA
<1>2. SumUpdateA(arch, Registers(arch, f, e), round)
        = [a_lo |-> Lo(arch, a), a_hi |-> Hi(arch, a), sum |-> Wrap(round + total(lo) + total(hi))]
  BY <1>1 DEF SumUpdateA, Registers, MovedRegister
<1>3. /\ \A i \in Taps : Product(f, i) \in Int
      /\ \A i \in 0..3 : lo[i] \in Int /\ hi[i] \in Int
      /\ lo[0] + lo[1] + lo[2] + lo[3] = l /\ hi[0] + hi[1] + hi[2] + hi[3] = h
  BY ProductsAre
<1>4. filter_sum(a, f.dl, round)
        = Wrap(round + Product(f, 0) + Product(f, 1) + Product(f, 2) + Product(f, 3)
                 + Product(f, 4) + Product(f, 5) + Product(f, 6) + Product(f, 7))
  BY DEF filter_sum, Product
<1>5. /\ Product(f, 0) \in Int /\ Product(f, 1) \in Int /\ Product(f, 2) \in Int /\ Product(f, 3) \in Int
      /\ Product(f, 4) \in Int /\ Product(f, 5) \in Int /\ Product(f, 6) \in Int /\ Product(f, 7) \in Int
  BY <1>3 DEF Taps
<1>6. l \in Int /\ h \in Int /\ filter_sum(a, f.dl, round) = Wrap(round + l + h)
  <2>1. round + Product(f, 0) + Product(f, 1) + Product(f, 2) + Product(f, 3)
          + Product(f, 4) + Product(f, 5) + Product(f, 6) + Product(f, 7) = round + l + h
    BY <1>5
  <2> QED
    BY <1>4, <1>5, <2>1
<1>7. (SumsFit(f) => Clamp(l) = l /\ Clamp(h) = h)
  BY DEF SumsFit, Product
<1>8. \A i \in {0, 1, 2, 3} : lo[i] \in Int /\ hi[i] \in Int
  BY <1>3
<1> HIDE DEF a, lo, hi, l, h
<1>9. Wrap(round + total(lo) + total(hi)) = Wrap(round + l + h)
  <2>1. CASE arch = "ppc"
    <3>1. sum_vi32_ppc(lo) = l /\ sum_vi32_ppc(hi) = h
      BY <1>3, <1>7, <2>1 DEF sum_vi32_ppc
    <3> QED
      BY <2>1, <3>1
  <2>2. CASE arch # "ppc"
    <3>1. total(lo) = Wrap(l) /\ total(hi) = Wrap(h)
      BY <1>3, <1>8, <2>2, TotalIs
    <3>2. Wrap(l) \in Int /\ Wrap(h) \in Int
      BY <1>6, Ints
    <3>3. Wrap(round + Wrap(l) + Wrap(h)) = Wrap(round + Wrap(l) + h)
      <4> DEFINE w == round + Wrap(l)
      <4>1. w \in Int
        BY <3>2
      <4> HIDE DEF w
      <4>2. Wrap(w + Wrap(h)) = Wrap(w + h)
        BY <1>6, <4>1, WrapSum
      <4> QED
        BY <4>2 DEF w
    <3>4. Wrap(round + Wrap(l) + h) = Wrap(round + l + h)
      <4>1. round + Wrap(l) + h = (round + h) + Wrap(l) /\ round + l + h = (round + h) + l
            /\ round + h \in Int
        BY <1>6, <3>2
      <4>2. Wrap((round + h) + Wrap(l)) = Wrap((round + h) + l)
        BY <1>6, <4>1, WrapSum
      <4> QED
        BY <4>1, <4>2
    <3> HIDE DEF total
    <3> QED
      BY <3>1, <3>3, <3>4
  <2> QED
    BY <2>1, <2>2
<1> QED
  BY <1>2, <1>6, <1>9 DEF a

-----------------------------------------------------------------------------
(* The registers after a sample, and every build *)

\* x is a word of four lanes with these values.
FourAre(x, a, b, c, d) == x = [i \in Lanes |-> CASE i = 0 -> a [] i = 1 -> b [] i = 2 -> c [] i = 3 -> d]

\* A register has four lanes.
LEMMA FourIs ==
  ASSUME NEW x, DOMAIN x = Lanes, x = [i \in DOMAIN x |-> x[i]]
  PROVE  FourAre(x, x[0], x[1], x[2], x[3])
BY DEF FourAre, Lanes

\* The lanes by their numbers.
LEMMA LanesHold ==
  ASSUME NEW arch, NEW x
  PROVE  /\ arch = "arm" =>
              /\ FourAre(Lo(arch, x), x[3], x[2], x[1], x[0])
              /\ FourAre(Hi(arch, x), x[7], x[6], x[5], x[4])
         /\ arch # "arm" =>
              /\ FourAre(Lo(arch, x), x[0], x[1], x[2], x[3])
              /\ FourAre(Hi(arch, x), x[4], x[5], x[6], x[7])
<1> DEFINE lo == Lo(arch, x)
           hi == Hi(arch, x)
<1>1. /\ DOMAIN lo = Lanes /\ DOMAIN hi = Lanes
      /\ lo = [i \in DOMAIN lo |-> lo[i]] /\ hi = [i \in DOMAIN hi |-> hi[i]]
  BY DEF Lo, Hi
<1>2. CASE arch = "arm"
  <2>1. /\ lo[0] = x[3] /\ lo[1] = x[2] /\ lo[2] = x[1] /\ lo[3] = x[0]
        /\ hi[0] = x[7] /\ hi[1] = x[6] /\ hi[2] = x[5] /\ hi[3] = x[4]
    BY <1>2 DEF Lo, Hi, Lanes
  <2> HIDE DEF lo, hi
  <2>2. FourAre(lo, lo[0], lo[1], lo[2], lo[3]) /\ FourAre(hi, hi[0], hi[1], hi[2], hi[3])
    BY <1>1, FourIs
  <2> QED
    BY <1>2, <2>1, <2>2 DEF lo, hi
<1>3. CASE arch # "arm"
  <2>1. /\ lo[0] = x[0] /\ lo[1] = x[1] /\ lo[2] = x[2] /\ lo[3] = x[3]
        /\ hi[0] = x[4] /\ hi[1] = x[5] /\ hi[2] = x[6] /\ hi[3] = x[7]
    BY <1>3 DEF Lo, Hi, Lanes
  <2> HIDE DEF lo, hi
  <2>2. FourAre(lo, lo[0], lo[1], lo[2], lo[3]) /\ FourAre(hi, hi[0], hi[1], hi[2], hi[3])
    BY <1>1, FourIs
  <2> QED
    BY <1>3, <2>1, <2>2 DEF lo, hi
<1> QED
  BY <1>2, <1>3

\* Registers with the same lanes are the same.
LEMMA FourSame ==
  ASSUME NEW x, NEW y, NEW a, NEW b, NEW c, NEW d, FourAre(x, a, b, c, d), FourAre(y, a, b, c, d)
  PROVE  x = y
BY DEF FourAre

\* The lanes of a register.
LEMMA FourLanes ==
  ASSUME NEW x, NEW a, NEW b, NEW c, NEW d, FourAre(x, a, b, c, d)
  PROVE  x[0] = a /\ x[1] = b /\ x[2] = c /\ x[3] = d
BY DEF FourAre, Lanes

\* The older half of an array moves by a lane.
LEMMA ShiftedLo ==
  ASSUME NEW arch, NEW x, NEW y,
         \A i \in 0..3 : y[i] = x[i + 1]
  PROVE  update_mb_lo(arch, Hi(arch, x), Lo(arch, x)) = Lo(arch, y)
<1>1. y[0] = x[1] /\ y[1] = x[2] /\ y[2] = x[3] /\ y[3] = x[4]
  OBVIOUS
<1> DEFINE lo == Lo(arch, x)
           hi == Hi(arch, x)
           u == update_mb_lo(arch, hi, lo)
<1>2. CASE arch = "arm"
  <2>1. /\ lo[0] = x[3] /\ lo[1] = x[2] /\ lo[2] = x[1] /\ lo[3] = x[0]
        /\ hi[0] = x[7] /\ hi[1] = x[6] /\ hi[2] = x[5] /\ hi[3] = x[4]
    BY <1>2, LanesHold, FourLanes
  <2> HIDE DEF lo, hi
  <2>2. u = ext(hi, lo, 3)
    BY <1>2 DEF update_mb_lo, update_mb_lo_arm
  <2>3. /\ DOMAIN u = Lanes /\ u = [i \in DOMAIN u |-> u[i]]
        /\ u[0] = hi[3] /\ u[1] = lo[0] /\ u[2] = lo[1] /\ u[3] = lo[2]
    BY <2>2 DEF ext, Lanes
  <2> HIDE DEF u
  <2>4. FourAre(u, u[0], u[1], u[2], u[3])
    BY <2>3, FourIs
  <2>5. FourAre(u, y[3], y[2], y[1], y[0])
    BY <1>1, <2>1, <2>3, <2>4
  <2>6. FourAre(Lo(arch, y), y[3], y[2], y[1], y[0])
    BY <1>2, LanesHold
  <2> QED
    BY <2>5, <2>6, FourSame DEF u, hi, lo
<1>3. CASE arch # "arm"
  <2>1. /\ lo[0] = x[0] /\ lo[1] = x[1] /\ lo[2] = x[2] /\ lo[3] = x[3]
        /\ hi[0] = x[4] /\ hi[1] = x[5] /\ hi[2] = x[6] /\ hi[3] = x[7]
    BY <1>3, LanesHold, FourLanes
  <2> HIDE DEF lo, hi
  <2>2. u = ext(lo, hi, 1)
    BY <1>3 DEF update_mb_lo
  <2>3. /\ DOMAIN u = Lanes /\ u = [i \in DOMAIN u |-> u[i]]
        /\ u[0] = lo[1] /\ u[1] = lo[2] /\ u[2] = lo[3] /\ u[3] = hi[0]
    BY <2>2 DEF ext, Lanes
  <2> HIDE DEF u
  <2>4. FourAre(u, u[0], u[1], u[2], u[3])
    BY <2>3, FourIs
  <2>5. FourAre(u, y[0], y[1], y[2], y[3])
    BY <1>1, <2>1, <2>3, <2>4
  <2>6. FourAre(Lo(arch, y), y[0], y[1], y[2], y[3])
    BY <1>3, LanesHold
  <2> QED
    BY <2>5, <2>6, FourSame DEF u, hi, lo
<1> QED
  BY <1>2, <1>3

\* The newer half of dx is made from that of dl.
LEMMA UpdatedHiM ==
  ASSUME NEW arch, NEW m, NEW b
  PROVE  update_m_hi(arch, Hi(arch, b)) = Hi(arch, updated_dx(m, b))
<1> DEFINE hi == Hi(arch, b)
           u == update_m_hi(arch, hi)
           y == updated_dx(m, b)
<1>1. /\ y[4] = updated_m(b[4], 0) /\ y[5] = updated_m(b[5], 1)
      /\ y[6] = updated_m(b[6], 1) /\ y[7] = updated_m(b[7], 2)
  BY DEF updated_dx, Taps
<1> HIDE DEF y
<1>2. DOMAIN u = Lanes /\ u = [i \in DOMAIN u |-> u[i]]
  BY DEF update_m_hi
<1>3. CASE arch = "arm"
  <2>1. hi[0] = b[7] /\ hi[1] = b[6] /\ hi[2] = b[5] /\ hi[3] = b[4]
    BY <1>3, LanesHold, FourLanes
  <2> HIDE DEF hi
  <2>2. \A i \in Lanes : u[i] = updated_m(hi[i], shifts_arm[i + 1])
    BY <1>3 DEF update_m_hi
  <2>3. shifts_arm[0 + 1] = 2 /\ shifts_arm[1 + 1] = 1 /\ shifts_arm[2 + 1] = 1 /\ shifts_arm[3 + 1] = 0
    BY DEF shifts_arm
  <2>4. 0 \in Lanes /\ 1 \in Lanes /\ 2 \in Lanes /\ 3 \in Lanes
    BY DEF Lanes
  <2>5. u[0] = y[7] /\ u[1] = y[6] /\ u[2] = y[5] /\ u[3] = y[4]
    <3> HIDE DEF u
    <3> QED
      BY <1>1, <2>1, <2>2, <2>3, <2>4
  <2> HIDE DEF u
  <2>6. FourAre(u, y[7], y[6], y[5], y[4])
    BY <1>2, <2>5, FourIs
  <2>7. FourAre(Hi(arch, y), y[7], y[6], y[5], y[4])
    BY <1>3, LanesHold
  <2> QED
    BY <2>6, <2>7, FourSame DEF u, hi, y
<1>4. CASE arch # "arm"
  <2>1. hi[0] = b[4] /\ hi[1] = b[5] /\ hi[2] = b[6] /\ hi[3] = b[7]
    BY <1>4, LanesHold, FourLanes
  <2> HIDE DEF hi
  <2>2. \A i \in Lanes : u[i] = updated_m(hi[i], shifts[i + 1])
    BY <1>4 DEF update_m_hi
  <2>3. shifts[0 + 1] = 0 /\ shifts[1 + 1] = 1 /\ shifts[2 + 1] = 1 /\ shifts[3 + 1] = 2
    BY DEF shifts
  <2>4. 0 \in Lanes /\ 1 \in Lanes /\ 2 \in Lanes /\ 3 \in Lanes
    BY DEF Lanes
  <2>5. u[0] = y[4] /\ u[1] = y[5] /\ u[2] = y[6] /\ u[3] = y[7]
    <3> HIDE DEF u
    <3> QED
      BY <1>1, <2>1, <2>2, <2>3, <2>4
  <2> HIDE DEF u
  <2>6. FourAre(u, y[4], y[5], y[6], y[7])
    BY <1>2, <2>5, FourIs
  <2>7. FourAre(Hi(arch, y), y[4], y[5], y[6], y[7])
    BY <1>4, LanesHold
  <2> QED
    BY <2>6, <2>7, FourSame DEF u, hi, y
<1> QED
  BY <1>3, <1>4

-----------------------------------------------------------------------------
(* The newest differences, and a sample through the registers *)

\* The differences a lane is made of, with what lacks taken as 0.
Difference(value, a, b, c) == Wrap(Wrap(value - a) - Wrap(c + b))

\* The difference of a sample and those before it, step by step.
LEMMA Differences ==
  ASSUME NEW v \in Int32, NEW a \in Int, NEW b \in Int, NEW c \in Int
  PROVE  /\ Difference(v, 0, 0, 0) = v
         /\ Difference(v, a, 0, 0) = Wrap(v - a)
         /\ Difference(v, b, a, 0) = Wrap(Wrap(v - a) - b)
         /\ Difference(v, c, b, a) = Wrap(Wrap(Wrap(v - a) - b) - c)
<1>1. v \in Int /\ v - a \in Int /\ v - b \in Int /\ v - c \in Int /\ v - a - b \in Int /\ a + b \in Int
      /\ Wrap(v) = v /\ Wrap(0) = 0 /\ Wrap(v - a) \in Int
  <2>1. v \in Int /\ 0 \in Int32
    BY IntWords
  <2>2. v - a \in Int /\ v - b \in Int /\ v - c \in Int /\ v - a - b \in Int /\ a + b \in Int
    BY <2>1
  <2>3. Wrap(v) = v /\ Wrap(0) = 0
    BY <2>1, WrapSmall
  <2>4. Wrap(v - a) \in Int
    BY <2>2, Ints
  <2> QED
    BY <2>1, <2>2, <2>3, <2>4
<1>2. Difference(v, 0, 0, 0) = v
  <2>1. v - 0 = v /\ 0 + 0 = 0
    BY <1>1
  <2> QED
    BY <1>1, <2>1 DEF Difference
<1>3. Difference(v, a, 0, 0) = Wrap(v - a)
  <2>1. 0 + 0 = 0 /\ Wrap(v - a) - 0 = Wrap(v - a)
    BY <1>1
  <2>2. Wrap(Wrap(v - a)) = Wrap(v - a)
    BY <1>1, WrapSum
  <2> QED
    BY <1>1, <2>1, <2>2 DEF Difference
<1>4. Difference(v, b, a, 0) = Wrap(Wrap(v - a) - b)
  <2> DEFINE x == v - b
             y == v - a
             w == Wrap(x)
  <2>1. x \in Int /\ y \in Int /\ w \in Int /\ x - a = y - b /\ 0 + a = a
    BY <1>1, Ints
  <2>2. Difference(v, b, a, 0) = Wrap(w - Wrap(a))
    BY <2>1 DEF Difference
  <2> HIDE DEF w, x, y
  <2>3. Wrap(w - Wrap(a)) = Wrap(w - a)
    BY <2>1, WrapSum
  <2>4. Wrap(w - a) = Wrap(x - a)
    BY <2>1, WrapSum DEF w
  <2>5. Wrap(Wrap(y) - b) = Wrap(y - b)
    BY <2>1, WrapSum
  <2> QED
    BY <2>1, <2>2, <2>3, <2>4, <2>5 DEF y
<1>5. Difference(v, c, b, a) = Wrap(Wrap(Wrap(v - a) - b) - c)
  <2> DEFINE x == v - c
             y == v - a
             z == a + b
             t == y - b
             w == Wrap(x)
  <2>1. x \in Int /\ y \in Int /\ z \in Int /\ t \in Int /\ w \in Int /\ x - z = t - c
    BY <1>1, Ints
  <2>2. Difference(v, c, b, a) = Wrap(w - Wrap(z))
    BY DEF Difference
  <2> HIDE DEF w, x, y, z, t
  <2>3. Wrap(w - Wrap(z)) = Wrap(w - z)
    BY <2>1, WrapSum
  <2>4. Wrap(w - z) = Wrap(x - z)
    BY <2>1, WrapSum DEF w
  <2>5. Wrap(Wrap(y) - b) = Wrap(t)
    BY <2>1, WrapSum DEF t
  <2>6. Wrap(Wrap(t) - c) = Wrap(t - c)
    BY <2>1, WrapSum
  <2> QED
    BY <2>1, <2>2, <2>3, <2>4, <2>5, <2>6 DEF y
<1> QED
  BY <1>2, <1>3, <1>4, <1>5

\* The samples before the newest, by order of age, shifted by n lanes.
Shifted(arch, b_hi, n) ==
  CASE arch = "arm" -> in_arm(b_hi, n)
    [] arch = "x86" -> in_x86(b_hi, n)
    [] arch = "ppc" -> in_ppc(b_hi, n)

\* Registers moved by lanes on arm,
LEMMA ShiftedArm ==
  ASSUME NEW arch, arch = "arm", NEW h
  PROVE  /\ FourAre(Shifted(arch, h, 1), 0, h[0], h[1], h[2])
         /\ FourAre(Shifted(arch, h, 2), 0, 0, h[0], h[1])
         /\ FourAre(Shifted(arch, h, 3), 0, 0, 0, h[0])
<1>1. ASSUME NEW n \in 1..3
      PROVE  Shifted(arch, h, n) = [i \in Lanes |-> IF i + (4 - n) < 4 THEN 0 ELSE h[i + (4 - n) - 4]]
  <2>1. Shifted(arch, h, n) = ext(vsplat(0), h, 4 - n)
    BY DEF Shifted, in_arm
  <2>2. \A i \in Lanes : i + (4 - n) < 4 => i + (4 - n) \in Lanes
    BY DEF Lanes
  <2> QED
    BY <2>1, <2>2 DEF ext, vsplat
<1>2. \A i \in Lanes : i = 0 \/ i = 1 \/ i = 2 \/ i = 3
  BY DEF Lanes
<1>3. FourAre(Shifted(arch, h, 1), 0, h[0], h[1], h[2])
  BY <1>1, <1>2 DEF FourAre, Lanes
<1>4. FourAre(Shifted(arch, h, 2), 0, 0, h[0], h[1])
  BY <1>1, <1>2 DEF FourAre, Lanes
<1>5. FourAre(Shifted(arch, h, 3), 0, 0, 0, h[0])
  BY <1>1, <1>2 DEF FourAre, Lanes
<1> QED
  BY <1>3, <1>4, <1>5

\* and on the others, which hold the taps in the other order.
LEMMA ShiftedOthers ==
  ASSUME NEW arch, arch = "x86" \/ arch = "ppc", NEW h
  PROVE  /\ FourAre(Shifted(arch, h, 1), h[1], h[2], h[3], 0)
         /\ FourAre(Shifted(arch, h, 2), h[2], h[3], 0, 0)
         /\ FourAre(Shifted(arch, h, 3), h[3], 0, 0, 0)
<1>1. ASSUME NEW n \in 1..3
      PROVE  Shifted(arch, h, n) = [i \in Lanes |-> IF i + n < 4 THEN h[i + n] ELSE 0]
  <2>1. Shifted(arch, h, n) = ext(h, vsplat(0), n)
    BY DEF Shifted, in_x86, in_ppc, bsrli
  <2>2. \A i \in Lanes : ~(i + n < 4) => i + n - 4 \in Lanes
    BY DEF Lanes
  <2> QED
    BY <2>1, <2>2 DEF ext, vsplat
<1>2. \A i \in Lanes : i = 0 \/ i = 1 \/ i = 2 \/ i = 3
  BY DEF Lanes
<1>3. FourAre(Shifted(arch, h, 1), h[1], h[2], h[3], 0)
  BY <1>1, <1>2 DEF FourAre, Lanes
<1>4. FourAre(Shifted(arch, h, 2), h[2], h[3], 0, 0)
  BY <1>1, <1>2 DEF FourAre, Lanes
<1>5. FourAre(Shifted(arch, h, 3), h[3], 0, 0, 0)
  BY <1>1, <1>2 DEF FourAre, Lanes
<1> QED
  BY <1>3, <1>4, <1>5

\* The newer half of dl.
LEMMA UpdatedHiB ==
  ASSUME NEW arch \in Arch, NEW b \in [Taps -> Int32], NEW value \in Int32
  PROVE  update_b_hi(arch, Hi(arch, b), value) = Hi(arch, updated_dl(b, value))
<1> DEFINE hi == Hi(arch, b)
           u == update_b_hi(arch, hi, value)
           y == updated_dl(b, value)
           in(n) == Shifted(arch, hi, n)
<1>1. b[5] \in Int /\ b[6] \in Int /\ b[7] \in Int
  BY IntWords DEF Taps
<1>2. /\ y[7] = value /\ y[6] = Wrap(value - b[7]) /\ y[5] = Wrap(Wrap(value - b[7]) - b[6])
      /\ y[4] = Wrap(Wrap(Wrap(value - b[7]) - b[6]) - b[5])
  BY DEF updated_dl, Taps
<1>3. /\ y[7] = Difference(value, 0, 0, 0) /\ y[6] = Difference(value, b[7], 0, 0)
      /\ y[5] = Difference(value, b[6], b[7], 0) /\ y[4] = Difference(value, b[5], b[6], b[7])
  <2> HIDE DEF y
  <2> QED
    BY <1>1, <1>2, Differences
<1>4. u = vsub(vsub(vsplat(value), in(1)), vadd(in(3), in(2)))
  BY DEF update_b_hi, Shifted
<1> HIDE DEF in, u
<1>5. /\ \A i \in Lanes : u[i] = Difference(value, in(1)[i], in(2)[i], in(3)[i])
      /\ DOMAIN u = Lanes /\ u = [i \in DOMAIN u |-> u[i]]
  BY <1>4 DEF vsub, vadd, vsplat, Difference
<1>6. 0 \in Lanes /\ 1 \in Lanes /\ 2 \in Lanes /\ 3 \in Lanes
  BY DEF Lanes
<1> HIDE DEF y
<1>7. CASE arch = "arm"
  <2>1. hi[0] = b[7] /\ hi[1] = b[6] /\ hi[2] = b[5] /\ hi[3] = b[4]
    BY <1>7, LanesHold, FourLanes
  <2> HIDE DEF hi
  <2>2. /\ in(1)[0] = 0 /\ in(1)[1] = hi[0] /\ in(1)[2] = hi[1] /\ in(1)[3] = hi[2]
        /\ in(2)[0] = 0 /\ in(2)[1] = 0 /\ in(2)[2] = hi[0] /\ in(2)[3] = hi[1]
        /\ in(3)[0] = 0 /\ in(3)[1] = 0 /\ in(3)[2] = 0 /\ in(3)[3] = hi[0]
    <3>1. /\ FourAre(in(1), 0, hi[0], hi[1], hi[2])
          /\ FourAre(in(2), 0, 0, hi[0], hi[1])
          /\ FourAre(in(3), 0, 0, 0, hi[0])
      BY <1>7, ShiftedArm DEF in
    <3>2. in(1)[0] = 0 /\ in(1)[1] = hi[0] /\ in(1)[2] = hi[1] /\ in(1)[3] = hi[2]
      BY <3>1, FourLanes
    <3>3. in(2)[0] = 0 /\ in(2)[1] = 0 /\ in(2)[2] = hi[0] /\ in(2)[3] = hi[1]
      BY <3>1, FourLanes
    <3>4. in(3)[0] = 0 /\ in(3)[1] = 0 /\ in(3)[2] = 0 /\ in(3)[3] = hi[0]
      BY <3>1, FourLanes
    <3> QED
      BY <3>2, <3>3, <3>4
  <2>3. u[0] = y[7] /\ u[1] = y[6] /\ u[2] = y[5] /\ u[3] = y[4]
    BY <1>3, <1>5, <1>6, <2>1, <2>2
  <2>4. FourAre(u, y[7], y[6], y[5], y[4])
    BY <1>5, <2>3, FourIs
  <2>5. FourAre(Hi(arch, y), y[7], y[6], y[5], y[4])
    BY <1>7, LanesHold
  <2> QED
    BY <2>4, <2>5, FourSame DEF u, hi, y
<1>8. CASE arch # "arm"
  <2>1. hi[0] = b[4] /\ hi[1] = b[5] /\ hi[2] = b[6] /\ hi[3] = b[7]
    BY <1>8, LanesHold, FourLanes
  <2> HIDE DEF hi
  <2>2. /\ in(1)[0] = hi[1] /\ in(1)[1] = hi[2] /\ in(1)[2] = hi[3] /\ in(1)[3] = 0
        /\ in(2)[0] = hi[2] /\ in(2)[1] = hi[3] /\ in(2)[2] = 0 /\ in(2)[3] = 0
        /\ in(3)[0] = hi[3] /\ in(3)[1] = 0 /\ in(3)[2] = 0 /\ in(3)[3] = 0
    <3>1. arch = "x86" \/ arch = "ppc"
      BY <1>8 DEF Arch
    <3>2. /\ FourAre(in(1), hi[1], hi[2], hi[3], 0)
          /\ FourAre(in(2), hi[2], hi[3], 0, 0)
          /\ FourAre(in(3), hi[3], 0, 0, 0)
      BY <3>1, ShiftedOthers DEF in
    <3>3. in(1)[0] = hi[1] /\ in(1)[1] = hi[2] /\ in(1)[2] = hi[3] /\ in(1)[3] = 0
      BY <3>2, FourLanes
    <3>4. in(2)[0] = hi[2] /\ in(2)[1] = hi[3] /\ in(2)[2] = 0 /\ in(2)[3] = 0
      BY <3>2, FourLanes
    <3>5. in(3)[0] = hi[3] /\ in(3)[1] = 0 /\ in(3)[2] = 0 /\ in(3)[3] = 0
      BY <3>2, FourLanes
    <3> QED
      BY <3>3, <3>4, <3>5
  <2>3. u[3] = y[7] /\ u[2] = y[6] /\ u[1] = y[5] /\ u[0] = y[4]
    BY <1>3, <1>5, <1>6, <2>1, <2>2
  <2>4. FourAre(u, y[4], y[5], y[6], y[7])
    BY <1>5, <2>3, FourIs
  <2>5. FourAre(Hi(arch, y), y[4], y[5], y[6], y[7])
    BY <1>8, LanesHold
  <2> QED
    BY <2>4, <2>5, FourSame DEF u, hi, y
<1> QED
  BY <1>7, <1>8

-----------------------------------------------------------------------------
(* Every build *)

\* What the registers hold after a sample is the filter after it.
LEMMA NextIs ==
  ASSUME NEW f \in FilterState, NEW arch \in Arch, NEW e, NEW a, NEW s,
         s.a_lo = Lo(arch, a), s.a_hi = Hi(arch, a),
         NEW input \in Int32, NEW residue
  PROVE  RegistersNext(arch, Registers(arch, f, e), s, input, residue)
           = Registers(arch, FilterNext(f, a, input, residue), residue)
<1> DEFINE m == updated_dx(f.dx, f.dl)
           b == updated_dl(f.dl, input)
<1>1. update_mb_lo(arch, Hi(arch, f.dx), Lo(arch, f.dx)) = Lo(arch, m)
  <2>1. \A i \in 0..3 : m[i] = f.dx[i + 1]
    BY DEF updated_dx, Taps
  <2> HIDE DEF m
  <2> QED
    BY <2>1, ShiftedLo
<1>2. update_mb_lo(arch, Hi(arch, f.dl), Lo(arch, f.dl)) = Lo(arch, b)
  <2>1. \A i \in 0..3 : b[i] = f.dl[i + 1]
    BY DEF updated_dl, Taps
  <2> HIDE DEF b
  <2> QED
    BY <2>1, ShiftedLo
<1>3. update_m_hi(arch, Hi(arch, f.dl)) = Hi(arch, m)
  BY UpdatedHiM
<1>4. update_b_hi(arch, Hi(arch, f.dl), input) = Hi(arch, b)
  <2>1. f.dl \in [Taps -> Int32]
    BY FilterStateIs
  <2> QED
    BY <2>1, UpdatedHiB
<1> HIDE DEF m, b
<1> QED
  BY <1>1, <1>2, <1>3, <1>4 DEF RegistersNext, Registers, FilterNext, m, b

\* A value through the registers, from any residue of the sign the C code keeps.
SimdIs(arch, f, value, error, round, k) ==
  LET enc  == tta_filter_enc(f, value, round, k)
      dec  == tta_filter_dec(f, value, round, k)
      regs == Registers(arch, f, error)
  IN  /\ simd_filter_enc(arch, regs, value, round, k) =
           [regs  |-> Registers(arch, enc.filter, enc.value), value |-> enc.value]
      /\ simd_filter_dec(arch, regs, value, round, k) =
           [regs |-> Registers(arch, dec.filter, value), value |-> dec.value]

\* For every sample and every filter, the vector versions of the filter (sse, neon
\* and altivec) return what the plain C code returns and leave registers that
\* hold the filter it leaves; altivec as long as no sum saturates.
THEOREM SimdHolds ==
  ASSUME NEW f \in FilterState, NEW arch \in Arch, arch # "ppc" \/ SumsFit(f),
         NEW error, SameSign(error, f.error), NEW value \in Int32,
         NEW round \in Int, NEW k \in Nat
  PROVE  SimdIs(arch, f, value, error, round, k)
<1> DEFINE a == updated_a(f)
           t == filter_sum(a, f.dl, round)
           regs == Registers(arch, f, error)
           s == SumUpdateA(arch, regs, round)
           ve == Wrap(value - asr32(t, k))
           vd == Wrap(value + asr32(t, k))
<1>1. s = [a_lo |-> Lo(arch, a), a_hi |-> Hi(arch, a), sum |-> t]
  BY SumsAre
<1> HIDE DEF s
<1>2. s.a_lo = Lo(arch, a) /\ s.a_hi = Hi(arch, a) /\ s.sum = t
  BY <1>1
<1>3. t \in Int
  BY FilterStateIs, UpdatedAType, SumType
<1>4. asr32(t, k) \in Int
  <2> HIDE DEF t
  <2> QED
    BY <1>3, DivInt DEF asr32
<1>5. vd \in Int32 /\ value \in Int
  <2> DEFINE d == asr32(t, k)
  <2>1. d \in Int /\ value \in Int
    BY <1>4, IntWords
  <2> HIDE DEF d
  <2>2. value + d \in Int
    BY <2>1
  <2>3. Wrap(value + d) \in Int32
    BY <2>2, WrapIs
  <2> QED
    BY <2>1, <2>3 DEF d
<1>6. /\ tta_filter_enc(f, value, round, k) = [filter |-> FilterNext(f, a, value, ve), value |-> ve]
      /\ tta_filter_dec(f, value, round, k) = [filter |-> FilterNext(f, a, vd, value), value |-> vd]
  BY DEF tta_filter_enc, tta_filter_dec
<1>7. /\ simd_filter_enc(arch, regs, value, round, k)
           = [regs |-> RegistersNext(arch, regs, s, value, ve), value |-> ve]
      /\ simd_filter_dec(arch, regs, value, round, k)
           = [regs |-> RegistersNext(arch, regs, s, vd, value), value |-> vd]
  <2> HIDE DEF regs, a, t
  <2> QED
    BY <1>2 DEF simd_filter_enc, simd_filter_dec, s, t
<1> HIDE DEF a, t, ve, vd
<1>8. RegistersNext(arch, regs, s, value, ve) = Registers(arch, FilterNext(f, a, value, ve), ve)
  BY <1>2, NextIs
<1>9. RegistersNext(arch, regs, s, vd, value) = Registers(arch, FilterNext(f, a, vd, value), value)
  BY <1>2, <1>5, NextIs
<1> HIDE DEF regs
<1> QED
  BY <1>6, <1>7, <1>8, <1>9 DEF SimdIs, regs

\* For encoder and decoder.
LEMMA SimdAgreesIs ==
  ASSUME NEW f \in FilterState, NEW round \in Int, NEW k \in Nat
  PROVE  SimdAgrees(f, round, k)
<1>1. SUFFICES ASSUME NEW arch \in Arch, arch # "ppc" \/ SumsFit(f),
                      NEW value \in {-300, 7}, NEW error \in {f.error, 300 * f.error}
               PROVE  SimdIs(arch, f, value, error, round, k)
  BY DEF SimdAgrees, SimdIs
<1>2. value \in Int32
  <2>1. value \in -512..511
    OBVIOUS
  <2> QED
    BY <2>1, IntWords
<1>3. SameSign(error, f.error)
  <2> DEFINE s == f.error
  <2>1. s \in {-1, 0, 1} /\ (error = s \/ error = 300 * s)
    BY FilterStateIs
  <2> HIDE DEF s
  <2>2. SameSign(error, s)
    BY <2>1 DEF SameSign
  <2> QED
    BY <2>2 DEF s
<1> QED
  BY <1>1, <1>2, <1>3, SimdHolds

=============================================================================
