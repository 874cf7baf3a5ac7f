--------------------------- MODULE Machine_proofs ---------------------------
(***************************************************************************)
(* Proofs about Machine: for words of any size, programs, page tables and  *)
(* numbers of steps.                                                       *)
(***************************************************************************)
EXTENDS Machine, SequenceTheorems, WellFoundedInduction, TLAPS

-----------------------------------------------------------------------------
(* Induction and recursion, with sets and functions.                       *)

\* Every non-empty set of natural numbers has a least element.
LEMMA LeastNumber ==
  ASSUME NEW T \in SUBSET Nat, T # {}
  PROVE  \E n \in T : \A m \in T : n <= m
<1> DEFINE R == {ss \in Nat \X Nat : ss[1] < ss[2]}
<1>1. IsWellFoundedOn(R, Nat)
  BY NatLessThanWellFounded DEF OpToRel
<1>2. \E x \in T : \A y \in T : ~(<<y, x>> \in R)
  <2> HIDE DEF R
  <2> QED
    BY <1>1, WFMin
<1>3. PICK x \in T : \A y \in T : ~(<<y, x>> \in R)
  BY <1>2
<1>4. ASSUME NEW y \in T PROVE x <= y
  <2>1. ~(<<y, x>> \in R) /\ x \in Nat /\ y \in Nat
    BY <1>3
  <2> QED
    BY <2>1
<1> QED
  BY <1>4

\* A set of natural numbers that holds 0 and the successors of its elements
\* holds them all.
LEMMA Induction ==
  ASSUME NEW P \in SUBSET Nat, 0 \in P, \A n \in P : n + 1 \in P
  PROVE  P = Nat
<1> SUFFICES ASSUME P # Nat PROVE FALSE
  OBVIOUS
<1>1. Nat \ P \in SUBSET Nat /\ Nat \ P # {}
  OBVIOUS
<1>2. PICK n \in Nat \ P : \A m \in Nat \ P : n <= m
  BY <1>1, LeastNumber
<1>3. n # 0 /\ n - 1 \in Nat
  OBVIOUS
<1>4. n - 1 \in P
  BY <1>2, <1>3
<1>5. (n - 1) + 1 \in P
  BY <1>4
<1> QED
  BY <1>5

\* g begins the sequence that starts with x and goes on by S.
Begins(g, n, x, S) ==
  DOMAIN g = 0..n /\ g[0] = x /\ \A k \in 0..(n - 1) : g[k + 1] = S[k][g[k]]

\* Two beginnings agree.
LEMMA BeginningsAgree ==
  ASSUME NEW x, NEW S, NEW m \in Nat, NEW n \in Nat, NEW g, NEW h,
         Begins(g, m, x, S), Begins(h, n, x, S)
  PROVE  \A k \in Nat : k <= m /\ k <= n => g[k] = h[k]
<1> DEFINE P == {k \in Nat : k <= m /\ k <= n => g[k] = h[k]}
<1>1. 0 \in P
  BY DEF Begins
<1>2. ASSUME NEW k \in P PROVE k + 1 \in P
  <2> SUFFICES ASSUME k + 1 <= m, k + 1 <= n PROVE g[k + 1] = h[k + 1]
    OBVIOUS
  <2>1. g[k] = h[k] /\ k \in 0..(m - 1) /\ k \in 0..(n - 1)
    OBVIOUS
  <2> QED
    BY <2>1 DEF Begins
<1> HIDE DEF P
<1>3. P = Nat
  <2>1. P \in SUBSET Nat
    BY DEF P
  <2> QED
    BY <1>1, <1>2, <2>1, Induction
<1> QED
  BY <1>3 DEF P

\* Every sequence can begin.
LEMMA BeginningExists ==
  ASSUME NEW x, NEW S, NEW n \in Nat
  PROVE  \E g : Begins(g, n, x, S)
<1> DEFINE P == {k \in Nat : \E g : Begins(g, k, x, S)}
<1>1. 0 \in P
  <2>1. Begins([k \in 0..0 |-> x], 0, x, S)
    BY DEF Begins
  <2> QED
    BY <2>1
<1>2. ASSUME NEW k \in P PROVE k + 1 \in P
  <2>1. PICK g : Begins(g, k, x, S)
    OBVIOUS
  <2> DEFINE h == [j \in 0..(k + 1) |-> IF j <= k THEN g[j] ELSE S[k][g[k]]]
  <2>2. k \in Nat
    OBVIOUS
  <2>3. DOMAIN h = 0..(k + 1) /\ h[0] = x
    BY <2>1, <2>2 DEF Begins
  <2>4. ASSUME NEW j \in 0..((k + 1) - 1) PROVE h[j + 1] = S[j][h[j]]
    <3>1. j \in 0..k /\ j + 1 \in 0..(k + 1) /\ h[j] = g[j]
      BY <2>2
    <3>2. CASE j = k
      BY <2>2, <3>1, <3>2
    <3>3. CASE j # k
      <4>1. j \in 0..(k - 1) /\ h[j + 1] = g[j + 1]
        BY <2>2, <3>1, <3>3
      <4>2. g[j + 1] = S[j][g[j]]
        BY <2>1, <4>1 DEF Begins
      <4> QED
        BY <3>1, <4>1, <4>2
    <3> QED
      BY <3>2, <3>3
  <2> HIDE DEF h
  <2>5. Begins(h, k + 1, x, S)
    BY <2>3, <2>4 DEF Begins
  <2> QED
    BY <2>2, <2>5
<1> HIDE DEF P
<1>3. P = Nat
  <2>1. P \in SUBSET Nat
    BY DEF P
  <2> QED
    BY <1>1, <1>2, <2>1, Induction
<1> QED
  BY <1>3 DEF P

\* f is the sequence that starts with x and goes on by S.
GoesOn(f, x, S) ==
  f = [n \in Nat |-> f[n]] /\ f[0] = x /\ \A n \in Nat : f[n + 1] = S[n][f[n]]

\* There is one.
LEMMA Recursion ==
  ASSUME NEW x, NEW S
  PROVE  \E f : GoesOn(f, x, S)
<1> DEFINE G(n) == CHOOSE g : Begins(g, n, x, S)
           f == [n \in Nat |-> G(n)[n]]
<1>1. \A n \in Nat : Begins(G(n), n, x, S)
  BY BeginningExists
<1> HIDE DEF G
<1>2. f[0] = x
  BY <1>1 DEF Begins
<1>3. ASSUME NEW n \in Nat PROVE f[n + 1] = S[n][f[n]]
  <2>1. n + 1 \in Nat /\ n \in 0..((n + 1) - 1) /\ n <= n + 1 /\ n <= n
    OBVIOUS
  <2>2. G(n + 1)[n + 1] = S[n][G(n + 1)[n]]
    BY <1>1, <2>1 DEF Begins
  <2>3. G(n + 1)[n] = G(n)[n]
    <3>1. Begins(G(n + 1), n + 1, x, S) /\ Begins(G(n), n, x, S)
      BY <1>1, <2>1
    <3> QED
      BY <2>1, <3>1, BeginningsAgree
  <2> QED
    BY <2>1, <2>2, <2>3
<1> HIDE DEF f
<1>4. f = [n \in Nat |-> f[n]]
  BY DEF f
<1>5. GoesOn(f, x, S)
  BY <1>2, <1>3, <1>4 DEF GoesOn
<1> QED
  BY <1>5

-----------------------------------------------------------------------------
(* Powers of two.                                                          *)

\* Pow2 is the function that its definition describes.
LEMMA Pow2Def ==
  /\ Pow2[0] = 1
  /\ \A n \in Nat : Pow2[n + 1] = 2 * Pow2[n]
<1> DEFINE Q(p) == p = [n \in Nat |-> IF n = 0 THEN 1 ELSE 2 * p[n - 1]]
           S == [n \in Nat |-> [y \in Int |-> 2 * y]]
<1>0. PICK f : GoesOn(f, 1, S)
  <2> HIDE DEF S
  <2> QED
    BY Recursion
<1>1. f = [n \in Nat |-> f[n]] /\ f[0] = 1 /\ \A n \in Nat : f[n + 1] = S[n][f[n]]
  BY <1>0 DEF GoesOn
<1>2. \A n \in Nat : f[n] \in Int
  <2> DEFINE P == {n \in Nat : f[n] \in Int}
  <2>1. P \in SUBSET Nat /\ 0 \in P
    BY <1>1
  <2>2. ASSUME NEW n \in P PROVE n + 1 \in P
    <3>1. f[n + 1] = S[n][f[n]] /\ S[n][f[n]] = 2 * f[n]
      BY <1>1
    <3> QED
      BY <3>1
  <2> HIDE DEF P
  <2>3. P = Nat
    BY <2>1, <2>2, Induction
  <2> QED
    BY <2>3 DEF P
<1>3. \A n \in Nat : f[n + 1] = 2 * f[n]
  BY <1>1, <1>2
<1>4. ASSUME NEW n \in Nat PROVE f[n] = IF n = 0 THEN 1 ELSE 2 * f[n - 1]
  <2>1. CASE n = 0
    BY <1>1, <2>1
  <2>2. CASE n # 0
    <3>1. n - 1 \in Nat /\ (n - 1) + 1 = n
      BY <2>2
    <3>2. f[(n - 1) + 1] = 2 * f[n - 1]
      BY <1>3, <3>1
    <3> QED
      BY <2>2, <3>1, <3>2
  <2> QED
    BY <2>1, <2>2
<1>5. Q(f)
  BY <1>1, <1>4
<1> HIDE DEF S
<1>6. Pow2 = CHOOSE p : Q(p)
  BY DEF Pow2
<1>7. Q(Pow2)
  <2> HIDE DEF Q
  <2> QED
    BY <1>5, <1>6
<1>8. \A n \in Nat : Pow2[n] = IF n = 0 THEN 1 ELSE 2 * Pow2[n - 1]
  BY <1>7
<1>9. ASSUME NEW n \in Nat PROVE Pow2[n + 1] = 2 * Pow2[n]
  <2>1. n + 1 \in Nat /\ n + 1 # 0 /\ (n + 1) - 1 = n
    OBVIOUS
  <2> QED
    BY <1>8, <2>1
<1> QED
  BY <1>8, <1>9

\* Powers of two are positive, and they multiply by adding the exponents.
LEMMA Pow2Facts ==
  /\ \A n \in Nat : Pow2[n] \in Nat \ {0}
  /\ \A m, n \in Nat : Pow2[m + n] = Pow2[m] * Pow2[n]
<1>1. \A n \in Nat : Pow2[n] \in Nat \ {0}
  <2> DEFINE P == {n \in Nat : Pow2[n] \in Nat \ {0}}
  <2>1. P \in SUBSET Nat /\ 0 \in P
    BY Pow2Def
  <2>2. ASSUME NEW n \in P PROVE n + 1 \in P
    BY Pow2Def
  <2> HIDE DEF P
  <2>3. P = Nat
    BY <2>1, <2>2, Induction
  <2> QED
    BY <2>3 DEF P
<1>2. ASSUME NEW m \in Nat PROVE \A n \in Nat : Pow2[m + n] = Pow2[m] * Pow2[n]
  <2> DEFINE P == {n \in Nat : Pow2[m + n] = Pow2[m] * Pow2[n]}
  <2>1. P \in SUBSET Nat /\ 0 \in P
    <3>1. Pow2[m] \in Nat /\ m + 0 = m
      BY <1>1
    <3> QED
      BY <3>1, Pow2Def
  <2>2. ASSUME NEW n \in P PROVE n + 1 \in P
    <3>1. m + (n + 1) = (m + n) + 1 /\ m + n \in Nat /\ n \in Nat
      OBVIOUS
    <3>2. Pow2[(m + n) + 1] = 2 * Pow2[m + n] /\ Pow2[n + 1] = 2 * Pow2[n]
      BY <3>1, Pow2Def
    <3>3. Pow2[m + n] = Pow2[m] * Pow2[n]
      OBVIOUS
    <3>4. Pow2[m] \in Nat /\ Pow2[n] \in Nat
      BY <1>1, <3>1
    <3>5. \A x, y \in Nat : 2 * (x * y) = x * (2 * y)
      OBVIOUS
    <3>6. 2 * (Pow2[m] * Pow2[n]) = Pow2[m] * (2 * Pow2[n])
      BY <3>4, <3>5
    <3>7. Pow2[m + (n + 1)] = Pow2[m] * Pow2[n + 1]
      BY <3>1, <3>2, <3>3, <3>6
    <3> QED
      BY <3>7
  <2> HIDE DEF P
  <2>3. P = Nat
    BY <2>1, <2>2, Induction
  <2> QED
    BY <2>3 DEF P
<1> QED
  BY <1>1, <1>2

\* f is the run of N steps by S from x through T.
RunsOn(f, N, T, x, S) ==
  /\ f \in [0..N -> T] /\ f[0] = x
  /\ \A n \in 1..N : f[n] = S[n - 1][f[n - 1]]

\* There is one, when the steps stay in T.
LEMMA FiniteRecursion ==
  ASSUME NEW N \in Nat, NEW T, NEW x \in T, NEW S,
         \A n \in 0..(N - 1) : \A y \in T : S[n][y] \in T
  PROVE  \E f : RunsOn(f, N, T, x, S)
<1>1. PICK g : GoesOn(g, x, S)
  BY Recursion
<1>2. g[0] = x /\ \A n \in Nat : g[n + 1] = S[n][g[n]]
  BY <1>1 DEF GoesOn
<1>3. \A n \in Nat : n <= N => g[n] \in T
  <2> DEFINE P == {n \in Nat : n <= N => g[n] \in T}
  <2>1. P \in SUBSET Nat /\ 0 \in P
    BY <1>2
  <2>2. ASSUME NEW n \in P PROVE n + 1 \in P
    <3> SUFFICES ASSUME n + 1 <= N PROVE g[n + 1] \in T
      OBVIOUS
    <3>1. n \in 0..(N - 1) /\ g[n] \in T
      OBVIOUS
    <3> QED
      BY <1>2, <3>1
  <2> HIDE DEF P
  <2>3. P = Nat
    BY <2>1, <2>2, Induction
  <2> QED
    BY <2>3 DEF P
<1> DEFINE f == [n \in 0..N |-> g[n]]
<1>4. f \in [0..N -> T] /\ f[0] = x
  BY <1>2, <1>3
<1>5. ASSUME NEW n \in 1..N PROVE f[n] = S[n - 1][f[n - 1]]
  <2>1. n - 1 \in Nat /\ (n - 1) + 1 = n /\ n - 1 \in 0..N /\ n \in 0..N
    OBVIOUS
  <2>2. g[(n - 1) + 1] = S[n - 1][g[n - 1]]
    BY <1>2, <2>1
  <2> QED
    BY <2>1, <2>2
<1> HIDE DEF f
<1>6. RunsOn(f, N, T, x, S)
  BY <1>4, <1>5 DEF RunsOn
<1> QED
  BY <1>6

-----------------------------------------------------------------------------
(* Division.                                                               *)

\* What the remainder and the quotient of a division are.
LEMMA Division ==
  ASSUME NEW a \in Int, NEW n \in Nat \ {0}
  PROVE  a % n \in 0..(n - 1) /\ a \div n \in Int /\ a = n * (a \div n) + (a % n)
OBVIOUS

\* They are the only numbers of that kind.
LEMMA DivisionUnique ==
  ASSUME NEW a \in Int, NEW n \in Nat \ {0}, NEW q \in Int, NEW r \in 0..(n - 1),
         a = n * q + r
  PROVE  a % n = r /\ a \div n = q
OBVIOUS

-----------------------------------------------------------------------------
(* Words.                                                                  *)

\* The sizes of bytes, half words and words.
LEMMA Sizes ==
  /\ W \in Nat /\ W >= 4
  /\ SignBit \in Nat \ {0} /\ Modulus = 2 * SignBit /\ Modulus \in Nat \ {0}
  /\ \A k \in Nat : Bytes(k) \in Nat \ {0}
  /\ \A j, k \in Nat : Bytes(j + k) = Bytes(j) * Bytes(k)
  /\ Bytes(0) = 1 /\ Bytes(4) = Modulus
<1>1. ByteBits \in Nat \ {0}
  BY MachineAssumption
<1>2. W \in Nat /\ W >= 4 /\ W - 1 \in Nat /\ (W - 1) + 1 = W
  BY <1>1 DEF W
<1>3. SignBit \in Nat \ {0} /\ Modulus = 2 * SignBit
  BY <1>2, Pow2Def, Pow2Facts DEF SignBit, Modulus
<1>4. \A k \in Nat : k * ByteBits \in Nat
  BY <1>1
<1>5. \A k \in Nat : Bytes(k) \in Nat \ {0}
  BY <1>4, Pow2Facts DEF Bytes
<1>6. ASSUME NEW j \in Nat, NEW k \in Nat PROVE Bytes(j + k) = Bytes(j) * Bytes(k)
  <2>1. (j + k) * ByteBits = j * ByteBits + k * ByteBits
    BY <1>1
  <2> QED
    BY <1>4, <2>1, Pow2Facts DEF Bytes
<1>7. Bytes(0) = 1
  <2>1. 0 * ByteBits = 0
    BY <1>1
  <2> QED
    BY <2>1, Pow2Def DEF Bytes
<1>8. Bytes(4) = Modulus
  BY DEF Bytes, Modulus, W
<1>9. Modulus \in Nat \ {0}
  BY <1>3
<1> QED
  BY <1>2, <1>3, <1>5, <1>6, <1>7, <1>8, <1>9

\* The products of the sizes that the model uses.
LEMMA SizeProducts ==
  /\ Modulus = Bytes(1) * Bytes(3) /\ Modulus = Bytes(2) * Bytes(2)
  /\ Modulus = Bytes(3) * Bytes(1) /\ Modulus = Bytes(0) * Bytes(4)
  /\ Bytes(2) = Bytes(1) * Bytes(1) /\ Bytes(3) = Bytes(1) * (Bytes(1) * Bytes(1))
  /\ Bytes(1) % 2 = 0 /\ Bytes(2) % 2 = 0 /\ Modulus % 4 = 0 /\ Modulus >= 16
<1>1. Bytes(1 + 3) = Bytes(1) * Bytes(3) /\ Bytes(2 + 2) = Bytes(2) * Bytes(2)
      /\ Bytes(3 + 1) = Bytes(3) * Bytes(1) /\ Bytes(1 + 1) = Bytes(1) * Bytes(1)
      /\ Bytes(1 + 2) = Bytes(1) * Bytes(2) /\ Bytes(0 + 4) = Bytes(0) * Bytes(4)
  BY Sizes
<1>2. Modulus = Bytes(1) * Bytes(3) /\ Modulus = Bytes(2) * Bytes(2)
      /\ Modulus = Bytes(3) * Bytes(1) /\ Modulus = Bytes(0) * Bytes(4)
      /\ Bytes(2) = Bytes(1) * Bytes(1) /\ Bytes(3) = Bytes(1) * (Bytes(1) * Bytes(1))
  BY <1>1, Sizes
<1>3. PICK k \in Nat : Bytes(1) = 2 * k
  <2>1. ByteBits \in Nat \ {0} /\ ByteBits - 1 \in Nat /\ (ByteBits - 1) + 1 = 1 * ByteBits
    BY MachineAssumption
  <2>2. Pow2[(ByteBits - 1) + 1] = 2 * Pow2[ByteBits - 1] /\ Pow2[ByteBits - 1] \in Nat
    BY <2>1, Pow2Def, Pow2Facts
  <2> QED
    BY <2>1, <2>2 DEF Bytes
<1>4. Bytes(2) = 2 * (k * (2 * k)) /\ k * (2 * k) \in Nat /\ k # 0
  BY <1>2, <1>3, Sizes
<1>5. k * k \in Nat /\ k * k >= 1
  BY <1>4
<1>6. Modulus = 16 * ((k * k) * (k * k))
  BY <1>2, <1>3
<1>7. (k * k) * (k * k) \in Nat /\ (k * k) * (k * k) >= 1
  BY <1>5
<1> QED
  BY <1>2, <1>3, <1>4, <1>6, <1>7

\* The operations on words yield words.
LEMMA WordFacts ==
  /\ \A x \in Int : Wrap(x) \in Word
  /\ \A x \in Word : /\ x \in Nat /\ Wrap(x) = x /\ Complement(x) \in Word
                     /\ Signed(x) \in (-SignBit)..(SignBit - 1)
                     /\ Sign(x) \in {0, 1} /\ (Sign(x) = 1 <=> x >= SignBit)
  /\ 0 \in Word /\ 1 \in Word
<1>1. SignBit \in Nat \ {0} /\ Modulus = 2 * SignBit /\ Modulus \in Nat \ {0}
  BY Sizes
<1>2. \A x \in Int : Wrap(x) \in Word
  BY <1>1, Division DEF Wrap, Word
<1>3. ASSUME NEW x \in Word
      PROVE  /\ x \in Nat /\ Wrap(x) = x /\ Complement(x) \in Word
             /\ Signed(x) \in (-SignBit)..(SignBit - 1)
  <2>1. x \in 0..(Modulus - 1) /\ x \in Int
    BY <1>1 DEF Word
  <2>2. x % Modulus = x
    BY <1>1, <2>1
  <2> QED
    BY <1>1, <2>1, <2>2 DEF Word, Wrap, Complement, Signed
<1>4. ASSUME NEW x \in Word PROVE Sign(x) \in {0, 1} /\ (Sign(x) = 1 <=> x >= SignBit)
  <2>1. x \in 0..(Modulus - 1) /\ x \in Int
    BY <1>1 DEF Word
  <2>2. CASE x >= SignBit
    <3>1. x = SignBit * 1 + (x - SignBit) /\ x - SignBit \in 0..(SignBit - 1)
      BY <1>1, <2>1, <2>2
    <3>2. x \div SignBit = 1
      BY <1>1, <2>1, <3>1, DivisionUnique
    <3> QED
      BY <2>2, <3>2 DEF Sign
  <2>3. CASE ~(x >= SignBit)
    <3>1. x = SignBit * 0 + x /\ x \in 0..(SignBit - 1)
      BY <1>1, <2>1, <2>3
    <3>2. x \div SignBit = 0
      BY <1>1, <2>1, <3>1, DivisionUnique
    <3> QED
      BY <2>3, <3>2 DEF Sign
  <2> QED
    BY <2>2, <2>3
<1> QED
  BY <1>1, <1>2, <1>3, <1>4 DEF Word

\* The same, one by one.
LEMMA WordNat == \A x \in Word : x \in Nat /\ x \in Int
BY WordFacts

LEMMA WrapWord == \A x \in Int : Wrap(x) \in Word
BY WordFacts

LEMMA SmallWords == 0 \in Word /\ 1 \in Word
BY WordFacts

LEMMA ComplementWord == \A x \in Word : Complement(x) \in Word
BY WordFacts

LEMMA SignedInt == \A x \in Word : Signed(x) \in Int
BY WordFacts, Sizes

LEMMA SignBits == \A x \in Word : Sign(x) \in {0, 1} /\ Sign(x) \in Int
BY WordFacts

\* A number with W bits is a word.
LEMMA FromBitsWord ==
  ASSUME NEW bits, \A k \in 0..(W - 1) : bits[k] \in {0, 1}
  PROVE  FromBits(bits) \in Word
<1> DEFINE Q(p) == p = [n \in 0..W |-> IF n = 0 THEN 0 ELSE p[n - 1] + bits[n - 1] * Pow2[n - 1]]
           S == [n \in Nat |-> [y \in Int |-> y + bits[n] * Pow2[n]]]
<1>1. W \in Nat
  BY Sizes
<1>2. ASSUME NEW n \in 0..(W - 1)
      PROVE  n \in Nat /\ bits[n] * Pow2[n] \in 0..Pow2[n] /\ Pow2[n] \in Nat
  <2>1. n \in Nat /\ Pow2[n] \in Nat
    BY <1>1, Pow2Facts
  <2>2. \A x \in Nat : 0 * x = 0 /\ 1 * x = x
    OBVIOUS
  <2>3. bits[n] * Pow2[n] = 0 \/ bits[n] * Pow2[n] = Pow2[n]
    BY <2>1, <2>2
  <2> QED
    BY <2>1, <2>3
<1>3. PICK f : RunsOn(f, W, Int, 0, S)
  <2>1. \A n \in 0..(W - 1) : \A y \in Int : S[n][y] \in Int
    BY <1>2
  <2>2. 0 \in Int
    OBVIOUS
  <2> HIDE DEF S
  <2> QED
    BY <1>1, <2>1, <2>2, FiniteRecursion
<1>4. f \in [0..W -> Int] /\ f[0] = 0 /\ \A n \in 1..W : f[n] = f[n - 1] + bits[n - 1] * Pow2[n - 1]
  <2>1. f \in [0..W -> Int] /\ f[0] = 0 /\ \A n \in 1..W : f[n] = S[n - 1][f[n - 1]]
    BY <1>3 DEF RunsOn
  <2>2. ASSUME NEW n \in 1..W PROVE f[n] = f[n - 1] + bits[n - 1] * Pow2[n - 1]
    <3>1. n - 1 \in Nat /\ n - 1 \in 0..W
      BY <1>1
    <3>2. f[n - 1] \in Int
      BY <2>1, <3>1
    <3> QED
      BY <2>1, <3>1, <3>2
  <2> QED
    BY <2>1, <2>2
<1> HIDE DEF S
<1>5. Q(f)
  <2>1. ASSUME NEW n \in 0..W
        PROVE  f[n] = IF n = 0 THEN 0 ELSE f[n - 1] + bits[n - 1] * Pow2[n - 1]
    BY <1>1, <1>4
  <2> QED
    BY <1>4, <2>1
<1>6. FromBits(bits) = (CHOOSE p : Q(p))[W]
  BY DEF FromBits
<1>7. PICK g : Q(g) /\ FromBits(bits) = g[W]
  <2> HIDE DEF Q
  <2> QED
    BY <1>5, <1>6
<1>8. \A n \in 0..W : g[n] = IF n = 0 THEN 0 ELSE g[n - 1] + bits[n - 1] * Pow2[n - 1]
  BY <1>7
<1>9. \A n \in Nat : n <= W => g[n] \in 0..(Pow2[n] - 1)
  <2> DEFINE P == {n \in Nat : n <= W => g[n] \in 0..(Pow2[n] - 1)}
  <2>1. P \in SUBSET Nat /\ 0 \in P
    BY <1>1, <1>8, Pow2Def
  <2>2. ASSUME NEW n \in P PROVE n + 1 \in P
    <3> SUFFICES ASSUME n + 1 <= W PROVE g[n + 1] \in 0..(Pow2[n + 1] - 1)
      OBVIOUS
    <3>1. n \in Nat /\ n \in 0..(W - 1) /\ n + 1 \in 0..W /\ n + 1 # 0 /\ (n + 1) - 1 = n
      BY <1>1
    <3>2. g[n] \in 0..(Pow2[n] - 1)
      BY <1>1, <3>1
    <3>3. g[n + 1] = g[n] + bits[n] * Pow2[n]
      BY <1>8, <3>1
    <3>4. Pow2[n + 1] = 2 * Pow2[n]
      BY <3>1, Pow2Def
    <3>5. Pow2[n] \in Nat /\ bits[n] * Pow2[n] \in 0..Pow2[n]
      BY <1>2, <3>1
    <3> QED
      BY <3>2, <3>3, <3>4, <3>5
  <2> HIDE DEF P
  <2>3. P = Nat
    BY <2>1, <2>2, Induction
  <2> QED
    BY <2>3 DEF P
<1> QED
  BY <1>1, <1>7, <1>9 DEF Word, Modulus

\* The operations on bits yield words.
LEMMA BitsWord ==
  ASSUME NEW x \in Word, NEW y \in Word
  PROVE  BitAnd(x, y) \in Word /\ BitOr(x, y) \in Word /\ BitXor(x, y) \in Word
<1>1. W \in Nat /\ x \in Int /\ y \in Int
  BY Sizes, WordNat
<1>2. ASSUME NEW k \in 0..(W - 1) PROVE Bit(x, k) \in {0, 1} /\ Bit(y, k) \in {0, 1}
  <2>1. Pow2[k] \in Nat \ {0}
    BY <1>1, Pow2Facts
  <2>2. x \div Pow2[k] \in Int /\ y \div Pow2[k] \in Int
    BY <1>1, <2>1
  <2> QED
    BY <2>2 DEF Bit
<1>3. ASSUME NEW k \in 0..(W - 1)
      PROVE  /\ Bit(x, k) * Bit(y, k) \in {0, 1} /\ (Bit(x, k) + Bit(y, k)) % 2 \in {0, 1}
             /\ Truth(Bit(x, k) + Bit(y, k) > 0) \in {0, 1}
  BY <1>2 DEF Truth
<1>4. BitAnd(x, y) \in Word
  BY <1>3, FromBitsWord DEF BitAnd
<1>5. BitOr(x, y) \in Word
  BY <1>3, FromBitsWord DEF BitOr
<1>6. BitXor(x, y) \in Word
  BY <1>3, FromBitsWord DEF BitXor
<1> QED
  BY <1>4, <1>5, <1>6

-----------------------------------------------------------------------------
(* Multiplication.                                                         *)

LoopState == [a : Word, lo : Word, hi : Word, bLo : Word, bHi : Word]

\* One turn of the loop of Mult stays among these states.
LEMMA MultStepType ==
  ASSUME NEW s \in LoopState
  PROVE  MultStep(s) \in LoopState
<1>1. /\ s.a \in Word /\ s.lo \in Word /\ s.hi \in Word /\ s.bLo \in Word /\ s.bHi \in Word
  BY DEF LoopState
<1>2. /\ s.lo \in Int /\ s.hi \in Int /\ s.bLo \in Int /\ s.bHi \in Int /\ Sign(s.bLo) \in Int
      /\ Signed(s.a) \in Int
  BY <1>1, WordNat, SignBits, SignedInt
<1>3. Pow2[1] = 2
  BY Pow2Def
<1>4. ShiftRight(s.a, 1) \in Word
  BY <1>2, <1>3, WrapWord DEF ShiftRight
<1> DEFINE lo == IF s.a % 2 = 1 THEN Wrap(s.lo + s.bLo) ELSE s.lo
           hi == IF s.a % 2 = 1 THEN Wrap(s.hi + s.bHi + Truth(lo < s.bLo)) ELSE s.hi
<1>5. lo \in Word
  BY <1>1, <1>2, WrapWord
<1>6. hi \in Word
  <2>1. Truth(lo < s.bLo) \in Int
    BY DEF Truth
  <2>2. s.hi + s.bHi + Truth(lo < s.bLo) \in Int
    BY <1>2, <2>1
  <2> QED
    BY <1>1, <2>2, WrapWord
<1>7. Wrap(2 * s.bLo) \in Word /\ Wrap(2 * s.bHi + Sign(s.bLo)) \in Word
  BY <1>2, WrapWord
<1>8. MultStep(s) = [a |-> ShiftRight(s.a, 1), lo |-> lo, hi |-> hi,
                     bLo |-> Wrap(2 * s.bLo), bHi |-> Wrap(2 * s.bHi + Sign(s.bLo))]
  BY DEF MultStep
<1> HIDE DEF lo, hi
<1> QED
  BY <1>4, <1>5, <1>6, <1>7, <1>8 DEF LoopState

\* A number that fits is the signed value of its word.
LEMMA SignedWrap ==
  ASSUME NEW x \in (-SignBit)..(SignBit - 1)
  PROVE  Signed(Wrap(x)) = x /\ Wrap(x) = (IF x >= 0 THEN x ELSE x + Modulus)
<1>1. SignBit \in Nat \ {0} /\ Modulus = 2 * SignBit /\ Modulus \in Nat \ {0} /\ x \in Int
  BY Sizes
<1>2. CASE x >= 0
  <2>1. x = Modulus * 0 + x /\ x \in 0..(Modulus - 1) /\ 0 \in Int
    BY <1>1, <1>2
  <2>2. x % Modulus = x
    BY <1>1, <2>1, DivisionUnique
  <2> QED
    BY <1>1, <1>2, <2>2 DEF Wrap, Signed
<1>3. CASE ~(x >= 0)
  <2>1. x = Modulus * (-1) + (x + Modulus) /\ x + Modulus \in 0..(Modulus - 1) /\ -1 \in Int
    BY <1>1, <1>3
  <2>2. x % Modulus = x + Modulus
    BY <1>1, <2>1, DivisionUnique
  <2> QED
    BY <1>1, <1>3, <2>2 DEF Wrap, Signed
<1> QED
  BY <1>2, <1>3

\* The signed value of a word is the word or less by the modulus.
LEMMA SignedIs ==
  ASSUME NEW x \in Word
  PROVE  /\ Signed(x) \in (-SignBit)..(SignBit - 1)
         /\ Signed(x) = x \/ Signed(x) = x - Modulus
         /\ Wrap(Signed(x)) = x
<1>1. SignBit \in Nat \ {0} /\ Modulus = 2 * SignBit /\ Modulus \in Nat \ {0}
  BY Sizes
<1>2. Signed(x) \in (-SignBit)..(SignBit - 1) /\ x \in 0..(Modulus - 1)
  BY WordFacts DEF Word
<1>3. Wrap(Signed(x)) = IF Signed(x) >= 0 THEN Signed(x) ELSE Signed(x) + Modulus
  BY <1>2, SignedWrap
<1> QED
  BY <1>1, <1>2, <1>3 DEF Signed

\* Halving a signed number, and its lowest bit.
LEMMA Halve ==
  ASSUME NEW A \in Int, NEW P \in Nat \ {0}
  PROVE  /\ (A \div P) % 2 \in {0, 1}
         /\ A \div (2 * P) = (A \div P) \div 2
         /\ A % (2 * P) = (A % P) + P * ((A \div P) % 2)
<1> DEFINE q == A \div P
           r == A % P
           h == q \div 2
           t == q % 2
<1>1. r \in 0..(P - 1) /\ q \in Int /\ A = P * q + r
  BY Division
<1> HIDE DEF q, r
<1>2. t \in 0..(2 - 1) /\ h \in Int /\ q = 2 * h + t
  BY <1>1, Division
<1> HIDE DEF h, t
<1>3. t \in {0, 1}
  BY <1>2
<1>4. r + P * t \in 0..(2 * P - 1)
  <2>1. CASE t = 0
    BY <1>1, <2>1
  <2>2. CASE t = 1
    BY <1>1, <2>2
  <2> QED
    BY <1>3, <2>1, <2>2
<1>5. A = (2 * P) * h + (r + P * t)
  BY <1>1, <1>2
<1>6. 2 * P \in Nat \ {0}
  OBVIOUS
<1>7. A % (2 * P) = r + P * t /\ A \div (2 * P) = h
  BY <1>2, <1>4, <1>5, <1>6, DivisionUnique
<1> QED
  BY <1>3, <1>7 DEF q, r, h, t

\* The carry of a sum of words.
LEMMA Carry ==
  ASSUME NEW x \in Word, NEW y \in Word
  PROVE  /\ Truth(Wrap(x + y) < y) \in {0, 1}
         /\ Wrap(x + y) + Modulus * Truth(Wrap(x + y) < y) = x + y
<1>1. Modulus \in Nat \ {0}
  BY Sizes
<1>2. x \in 0..(Modulus - 1) /\ y \in 0..(Modulus - 1) /\ x + y \in Int
  BY <1>1 DEF Word
<1>3. CASE x + y < Modulus
  <2>1. x + y = Modulus * 0 + (x + y) /\ x + y \in 0..(Modulus - 1)
    BY <1>1, <1>2, <1>3
  <2>2. (x + y) % Modulus = x + y
    BY <1>1, <1>2, <2>1, DivisionUnique
  <2> QED
    BY <1>1, <1>2, <2>2 DEF Wrap, Truth
<1>4. CASE ~(x + y < Modulus)
  <2> PICK r : r = x + y + (-Modulus)
    OBVIOUS
  <2>1. x + y = Modulus * 1 + r /\ r \in 0..(Modulus - 1)
    BY <1>1, <1>2, <1>4
  <2>2. (x + y) % Modulus = r
    <3>1. x + y \in Int /\ 1 \in Int
      BY <1>2
    <3> QED
      BY <1>1, <2>1, <3>1, DivisionUnique
  <2> QED
    BY <1>1, <1>2, <2>2 DEF Wrap, Truth
<1> QED
  BY <1>3, <1>4

\* The bit that leaves a word when it is doubled.
LEMMA Double ==
  ASSUME NEW x \in Word
  PROVE  Wrap(2 * x) + Modulus * Sign(x) = 2 * x
<1>1. SignBit \in Nat \ {0} /\ Modulus = 2 * SignBit /\ Modulus \in Nat \ {0}
  BY Sizes
<1>2. x \in 0..(Modulus - 1) /\ 2 * x \in Int
  BY <1>1 DEF Word
<1>3. Sign(x) \in {0, 1} /\ (Sign(x) = 1 <=> x >= SignBit)
  BY WordFacts
<1>4. CASE Sign(x) = 0
  <2>1. 2 * x = Modulus * 0 + 2 * x /\ 2 * x \in 0..(Modulus - 1)
    BY <1>1, <1>2, <1>3, <1>4
  <2>2. (2 * x) % Modulus = 2 * x
    BY <1>1, <1>2, <2>1, DivisionUnique
  <2> QED
    BY <1>1, <1>2, <1>4, <2>2 DEF Wrap
<1>5. CASE Sign(x) = 1
  <2>1. 2 * x = Modulus * 1 + (2 * x + (-Modulus)) /\ 2 * x + (-Modulus) \in 0..(Modulus - 1)
    BY <1>1, <1>2, <1>3, <1>5
  <2>2. (2 * x) % Modulus = 2 * x + (-Modulus)
    BY <1>1, <1>2, <2>1, DivisionUnique
  <2> QED
    BY <1>1, <1>2, <1>5, <2>2 DEF Wrap
<1> QED
  BY <1>3, <1>4, <1>5

\* The high word of a number that fits in two words is not cut off.
LEMMA HighFits ==
  ASSUME NEW h \in Int, NEW l \in Word, h >= 0, h * Modulus + l < Modulus * Modulus
  PROVE  Wrap(h) = h
<1>1. Modulus \in Nat \ {0} /\ l \in Nat
  BY Sizes, WordNat
<1>2. h < Modulus
  <2> SUFFICES ASSUME h >= Modulus PROVE FALSE
    BY <1>1
  <2>1. h * Modulus >= Modulus * Modulus
    BY <1>1
  <2>2. h * Modulus \in Int /\ Modulus * Modulus \in Int
    BY <1>1
  <2> QED
    BY <1>1, <2>1, <2>2
<1>3. h \in 0..(Modulus - 1)
  BY <1>1, <1>2
<1> QED
  BY <1>3, WordFacts DEF Word

\* What the loop of Mult has done after n turns: the lowest n bits of a are
\* multiplied.  A is the signed value of the first factor.
LoopInv(s, n, A, b) ==
  /\ s \in LoopState
  /\ Signed(s.a) = A \div Pow2[n]
  /\ s.hi * Modulus + s.lo = (A % Pow2[n]) * b
  /\ s.bHi * Modulus + s.bLo = b * Pow2[n]

\* The lowest bit of a word is that of its signed value.
LEMMA LowestBit ==
  ASSUME NEW x \in Word
  PROVE  x % 2 = Signed(x) % 2
<1>1. SignBit \in Nat \ {0} /\ Modulus = 2 * SignBit /\ x \in Nat /\ Signed(x) \in Int
  BY Sizes, WordNat, SignedInt
<1>2. Signed(x) = x \/ Signed(x) = x - 2 * SignBit
  BY <1>1, SignedIs
<1> QED
  BY <1>1, <1>2

\* One turn.
LEMMA MultStepRight ==
  ASSUME NEW s, NEW n \in 0..(W - 1), NEW A \in Int, NEW b \in Word, LoopInv(s, n, A, b)
  PROVE  LoopInv(MultStep(s), n + 1, A, b)
<1> DEFINE P == Pow2[n]
           q == A \div P
           r == A % P
           t == s.a % 2
           lo == IF t = 1 THEN Wrap(s.lo + s.bLo) ELSE s.lo
           c == Truth(lo < s.bLo)
           hi == IF t = 1 THEN Wrap(s.hi + s.bHi + c) ELSE s.hi
           bLo == Wrap(2 * s.bLo)
           bHi == Wrap(2 * s.bHi + Sign(s.bLo))
<1>1. s \in LoopState /\ MultStep(s) \in LoopState
  BY MultStepType DEF LoopInv
<1>2. s.a \in Word /\ s.lo \in Word /\ s.hi \in Word /\ s.bLo \in Word /\ s.bHi \in Word
  BY <1>1 DEF LoopState
<1>3. s.a \in Nat /\ s.lo \in Nat /\ s.hi \in Nat /\ s.bLo \in Nat /\ s.bHi \in Nat /\ b \in Nat
  BY <1>2, WordNat
<1>4. W \in Nat /\ n \in Nat /\ n + 1 <= W
  BY Sizes
<1>5. P \in Nat \ {0} /\ Pow2[n + 1] = 2 * P /\ Modulus \in Nat \ {0}
  BY <1>4, Pow2Def, Pow2Facts, Sizes
<1>6. 2 * P <= Modulus
  <2>1. W - (n + 1) \in Nat /\ (n + 1) + (W - (n + 1)) = W
    BY <1>4
  <2>2. Pow2[W] = Pow2[n + 1] * Pow2[W - (n + 1)] /\ Pow2[W - (n + 1)] \in Nat \ {0}
    BY <1>4, <2>1, Pow2Facts
  <2>3. \A x \in Nat, y \in Nat \ {0} : x <= x * y
    OBVIOUS
  <2>4. 2 * P \in Nat
    BY <1>5
  <2> QED
    BY <1>5, <2>2, <2>3, <2>4 DEF Modulus
<1>7. Signed(s.a) = q /\ s.hi * Modulus + s.lo = r * b /\ s.bHi * Modulus + s.bLo = b * P
  BY DEF LoopInv
<1>8. q \in Int /\ r \in 0..(P - 1) /\ r \in Nat
  <2> HIDE DEF P
  <2>1. q \in Int /\ r \in 0..(P - 1)
    BY <1>5, Division
  <2> QED
    BY <1>5, <2>1
<1>9. q % 2 \in {0, 1} /\ A \div (2 * P) = q \div 2 /\ A % (2 * P) = r + P * (q % 2)
  BY <1>5, Halve
<1>10. t = q % 2
  BY <1>2, <1>7, LowestBit
<1>11. MultStep(s) = [a |-> ShiftRight(s.a, 1), lo |-> lo, hi |-> hi, bLo |-> bLo, bHi |-> bHi]
  BY DEF MultStep
<1>12. Signed(ShiftRight(s.a, 1)) = A \div (2 * P)
  <2>1. Pow2[1] = 2 /\ SignBit \in Nat
    <3>1. Pow2[0 + 1] = 2 * Pow2[0] /\ Pow2[0] = 1
      BY Pow2Def
    <3> QED
      BY <3>1, Sizes
  <2>2. q \in (-SignBit)..(SignBit - 1)
    BY <1>2, <1>7, SignedIs
  <2>3. q \div 2 \in (-SignBit)..(SignBit - 1)
    BY <1>8, <2>1, <2>2
  <2>4. ShiftRight(s.a, 1) = Wrap(q \div 2)
    BY <1>7, <2>1 DEF ShiftRight
  <2> QED
    BY <1>9, <2>3, <2>4, SignedWrap
<1> HIDE DEF P, q, r, t
<1>13. b \in 0..(Modulus - 1)
  BY DEF Word
<1>14. \A x \in Nat : x <= 2 * P => b * x < Modulus * Modulus
  <2> SUFFICES ASSUME NEW x \in Nat, x <= 2 * P PROVE b * x < Modulus * Modulus
    OBVIOUS
  <2>1. x <= Modulus
    BY <1>5, <1>6
  <2>2. b * x <= b * Modulus
    BY <1>3, <1>5, <2>1
  <2>3. b * Modulus < Modulus * Modulus
    BY <1>5, <1>13
  <2>4. b * x \in Int /\ b * Modulus \in Int /\ Modulus * Modulus \in Int
    BY <1>3, <1>5
  <2> QED
    BY <2>2, <2>3, <2>4
<1>15. hi * Modulus + lo = (A % (2 * P)) * b
  <2>1. CASE t = 0
    <3>1. hi = s.hi /\ lo = s.lo
      BY <2>1
    <3>2. A % (2 * P) = r
      BY <1>5, <1>8, <1>9, <1>10, <2>1
    <3> QED
      BY <1>7, <3>1, <3>2
  <2>2. CASE t = 1
    <3>1. lo = Wrap(s.lo + s.bLo) /\ hi = Wrap(s.hi + s.bHi + c)
      BY <2>2
    <3>2. c \in {0, 1} /\ lo + Modulus * c = s.lo + s.bLo /\ lo \in Word
      <4>1. s.lo + s.bLo \in Int
        BY <1>3
      <4> QED
        BY <1>2, <3>1, <4>1, Carry, WrapWord
    <3> HIDE DEF lo, hi, c
    <3>3. A % (2 * P) = r + P
      BY <1>5, <1>8, <1>9, <1>10, <2>2
    <3>4. lo \in Nat /\ c \in Nat
      BY <3>2, WordNat
    <3>5. (s.hi + s.bHi + c) * Modulus + lo = r * b + b * P
      <4>1. (s.hi + s.bHi + c) * Modulus = s.hi * Modulus + s.bHi * Modulus + Modulus * c
        <5>1. \A x, y, z, m \in Int : (x + y + z) * m = x * m + y * m + m * z
          OBVIOUS
        <5>2. s.hi \in Int /\ s.bHi \in Int /\ c \in Int /\ Modulus \in Int
          BY <1>3, <1>5, <3>4
        <5> QED
          BY <5>1, <5>2
      <4>2. /\ s.hi * Modulus \in Int /\ s.bHi * Modulus \in Int /\ Modulus * c \in Int
            /\ r * b \in Int /\ b * P \in Int
        BY <1>3, <1>5, <1>8, <3>4
      <4>3. \A x, y, z, k, l, m, u, v \in Int :
              x + l = u /\ y + m = v /\ k + z = l + m => (x + y + z) + k = u + v
        OBVIOUS
      <4>4. s.lo \in Int /\ s.bLo \in Int /\ lo \in Int
        BY <1>3, <3>4
      <4>5. (s.hi * Modulus + s.bHi * Modulus + Modulus * c) + lo = r * b + b * P
        BY <1>7, <3>2, <4>2, <4>3, <4>4
      <4> QED
        BY <4>1, <4>5
    <3>6. r * b + b * P = b * (r + P) /\ (r + P) * b = b * (r + P)
      BY <1>3, <1>5, <1>8
    <3>7. b * (r + P) < Modulus * Modulus
      BY <1>5, <1>8, <1>14
    <3>8. s.hi + s.bHi + c \in Int /\ s.hi + s.bHi + c >= 0
      BY <1>3, <3>4
    <3>9. Wrap(s.hi + s.bHi + c) = s.hi + s.bHi + c
      BY <3>2, <3>5, <3>6, <3>7, <3>8, HighFits
    <3> QED
      BY <3>1, <3>3, <3>5, <3>6, <3>9
  <2>3. t \in {0, 1}
    BY <1>9, <1>10
  <2> QED
    BY <2>1, <2>2, <2>3
<1>16. bHi * Modulus + bLo = b * (2 * P)
  <2>1. bLo + Modulus * Sign(s.bLo) = 2 * s.bLo /\ bLo \in Word /\ Sign(s.bLo) \in {0, 1}
    <3>1. 2 * s.bLo \in Int
      BY <1>3
    <3> QED
      BY <1>2, <3>1, Double, WrapWord, SignBits
  <2>2. bLo \in Nat
    BY <2>1, WordNat
  <2> HIDE DEF bLo
  <2>3. (2 * s.bHi + Sign(s.bLo)) * Modulus + bLo = b * (2 * P)
    <3>1. Sign(s.bLo) \in Nat
      BY <2>1
    <3>2. /\ (2 * s.bHi + Sign(s.bLo)) * Modulus = 2 * (s.bHi * Modulus) + Modulus * Sign(s.bLo)
          /\ b * (2 * P) = 2 * (b * P)
      BY <1>3, <1>5, <3>1
    <3>3. s.bHi * Modulus \in Int /\ Modulus * Sign(s.bLo) \in Int /\ b * P \in Int
      BY <1>3, <1>5, <3>1
    <3> QED
      BY <1>3, <1>7, <2>1, <2>2, <3>2, <3>3
  <2>4. b * (2 * P) < Modulus * Modulus
    BY <1>5, <1>14
  <2>5. 2 * s.bHi + Sign(s.bLo) \in Int /\ 2 * s.bHi + Sign(s.bLo) >= 0
    BY <1>3, <2>1
  <2>6. bHi = 2 * s.bHi + Sign(s.bLo)
    BY <2>1, <2>3, <2>4, <2>5, HighFits
  <2> QED
    BY <2>3, <2>6
<1> HIDE DEF lo, hi, bLo, bHi
<1>17. /\ MultStep(s).a = ShiftRight(s.a, 1) /\ MultStep(s).lo = lo /\ MultStep(s).hi = hi
       /\ MultStep(s).bLo = bLo /\ MultStep(s).bHi = bHi
  BY <1>11
<1> QED
  BY <1>1, <1>5, <1>12, <1>15, <1>16, <1>17 DEF LoopInv

\* The loop of Mult multiplies.
LEMMA MultLoopRight ==
  ASSUME NEW a \in Word, NEW b \in Word
  PROVE  /\ MultLoop(a, b).hi \in Word /\ MultLoop(a, b).lo \in Word
         /\ MultLoop(a, b).hi * Modulus + MultLoop(a, b).lo = a * b
<1> DEFINE x == [a |-> a, lo |-> 0, hi |-> 0, bLo |-> b, bHi |-> 0]
           Q(p) == p = [n \in 0..W |-> IF n = 0 THEN [a |-> a, lo |-> 0, hi |-> 0, bLo |-> b, bHi |-> 0]
                                       ELSE MultStep(p[n - 1])]
           S == [n \in Nat |-> [y \in LoopState |-> MultStep(y)]]
           A == Signed(a)
<1>1. W \in Nat
  BY Sizes
<1>2. x \in LoopState
  BY SmallWords DEF LoopState
<1>3. PICK f : RunsOn(f, W, LoopState, x, S)
  <2>1. \A n \in 0..(W - 1) : \A y \in LoopState : S[n][y] \in LoopState
    BY <1>1, MultStepType
  <2> HIDE DEF S, x
  <2> QED
    BY <1>1, <1>2, <2>1, FiniteRecursion
<1>4. f \in [0..W -> LoopState] /\ f[0] = x /\ \A n \in 1..W : f[n] = MultStep(f[n - 1])
  <2>1. f \in [0..W -> LoopState] /\ f[0] = x /\ \A n \in 1..W : f[n] = S[n - 1][f[n - 1]]
    BY <1>3 DEF RunsOn
  <2>2. ASSUME NEW n \in 1..W PROVE f[n] = MultStep(f[n - 1])
    <3>1. n - 1 \in Nat /\ n - 1 \in 0..W
      BY <1>1
    <3>2. f[n - 1] \in LoopState
      BY <2>1, <3>1
    <3>3. S[n - 1][f[n - 1]] = MultStep(f[n - 1])
      BY <3>1, <3>2
    <3> QED
      BY <2>1, <3>3
  <2> QED
    BY <2>1, <2>2
<1> HIDE DEF S
<1>5. Q(f)
  <2>1. ASSUME NEW n \in 0..W PROVE f[n] = IF n = 0 THEN x ELSE MultStep(f[n - 1])
    BY <1>1, <1>4
  <2> HIDE DEF x
  <2>2. f = [n \in 0..W |-> IF n = 0 THEN x ELSE MultStep(f[n - 1])]
    BY <1>4, <2>1
  <2> QED
    BY <2>2 DEF x
<1>6. MultLoop(a, b) = (CHOOSE p : Q(p))[W]
  BY DEF MultLoop
<1>7. PICK g : Q(g) /\ MultLoop(a, b) = g[W]
  <2> HIDE DEF Q
  <2> QED
    BY <1>5, <1>6
<1>8. \A n \in 0..W : g[n] = IF n = 0 THEN x ELSE MultStep(g[n - 1])
  BY <1>7
<1>9. A \in Int /\ b \in Nat /\ Modulus \in Nat \ {0} /\ a \in Nat
  BY SignedInt, WordNat, Sizes
<1>10. LoopInv(x, 0, A, b)
  <2>1. Pow2[0] = 1 /\ A \div 1 = A /\ A % 1 = 0
    BY <1>9, Pow2Def
  <2>2. x.a = a /\ x.lo = 0 /\ x.hi = 0 /\ x.bLo = b /\ x.bHi = 0
    OBVIOUS
  <2> HIDE DEF x
  <2> QED
    BY <1>2, <1>9, <2>1, <2>2 DEF LoopInv
<1> HIDE DEF x, Q, A
<1>11. \A n \in Nat : n <= W => LoopInv(g[n], n, A, b)
  <2> DEFINE N == {n \in Nat : n <= W => LoopInv(g[n], n, A, b)}
  <2>1. N \in SUBSET Nat /\ 0 \in N
    BY <1>1, <1>8, <1>10
  <2>2. ASSUME NEW n \in N PROVE n + 1 \in N
    <3> SUFFICES ASSUME n + 1 <= W PROVE LoopInv(g[n + 1], n + 1, A, b)
      OBVIOUS
    <3>1. n \in Nat /\ n \in 0..(W - 1) /\ n + 1 \in 0..W /\ n + 1 # 0 /\ (n + 1) - 1 = n
      BY <1>1
    <3>2. LoopInv(g[n], n, A, b)
      BY <1>1, <3>1
    <3>3. g[n + 1] = MultStep(g[n])
      BY <1>8, <3>1
    <3> QED
      BY <1>9, <3>1, <3>2, <3>3, MultStepRight
  <2> HIDE DEF N
  <2>3. N = Nat
    BY <2>1, <2>2, Induction
  <2> QED
    BY <2>3 DEF N
<1>12. LoopInv(g[W], W, A, b)
  BY <1>1, <1>11
<1>13. A % Modulus = a
  BY SignedIs DEF A, Wrap
<1> QED
  BY <1>7, <1>12, <1>13 DEF LoopInv, LoopState, Modulus

\* The factor that the loop is given for a signed one.
LEMMA NegatedWord ==
  ASSUME NEW x \in Word, Sign(x) = 1
  PROVE  Wrap(-x) = -Signed(x) /\ Wrap(-x) \in Word /\ Wrap(-x) <= SignBit
<1>1. SignBit \in Nat \ {0} /\ Modulus = 2 * SignBit /\ Modulus \in Nat \ {0}
  BY Sizes
<1>2. x \in 0..(Modulus - 1) /\ x >= SignBit /\ -x \in Int
  BY <1>1, WordFacts DEF Word
<1>3. -x = Modulus * (-1) + (Modulus - x) /\ Modulus - x \in 0..(Modulus - 1) /\ -1 \in Int
  BY <1>1, <1>2
<1>4. (-x) % Modulus = Modulus - x
  BY <1>1, <1>2, <1>3, DivisionUnique
<1> QED
  BY <1>1, <1>2, <1>3, <1>4 DEF Wrap, Signed, Word

LEMMA UnsignedSign ==
  ASSUME NEW x \in Word, Sign(x) = 0
  PROVE  Signed(x) = x /\ x <= SignBit
<1>1. SignBit \in Nat \ {0} /\ x \in Nat /\ ~(x >= SignBit)
  BY Sizes, WordFacts
<1> QED
  BY <1>1 DEF Signed

\* A product of two words, unsigned.
IsProduct(r, p) == r[1] \in Word /\ r[2] \in Word /\ r[1] * Modulus + r[2] = p

\* A product of two words, signed.
IsSignedProduct(r, p) == r[1] \in Word /\ r[2] \in Word /\ Signed(r[1]) * Modulus + r[2] = p

\* The two words of a product, negated.
Negated(r) ==
  LET lo == Wrap(Complement(r[2]) + 1)
  IN  <<Wrap(Complement(r[1]) + Truth(lo = 0)), lo>>

\* A product of two numbers of a word's magnitude has a free sign bit.
LEMMA ProductFits ==
  ASSUME NEW x \in 0..SignBit, NEW y \in 0..SignBit, NEW h \in Word, NEW l \in Word,
         h * Modulus + l = x * y
  PROVE  h < SignBit
<1>1. SignBit \in Nat \ {0} /\ Modulus = 2 * SignBit /\ h \in Nat /\ l \in Nat
      /\ x \in Nat /\ y \in Nat
  BY Sizes, WordNat
<1> SUFFICES ASSUME h >= SignBit PROVE FALSE
  BY <1>1
<1>2. x * y <= SignBit * y
  BY <1>1
<1>3. SignBit * y <= SignBit * SignBit
  BY <1>1
<1>4. h * Modulus >= SignBit * Modulus
  BY <1>1
<1>5. SignBit * Modulus = 2 * (SignBit * SignBit) /\ SignBit * SignBit > 0
  BY <1>1
<1>6. /\ x * y \in Int /\ SignBit * y \in Int /\ SignBit * SignBit \in Int
      /\ h * Modulus \in Int /\ SignBit * Modulus \in Int
  BY <1>1
<1> QED
  BY <1>1, <1>2, <1>3, <1>4, <1>5, <1>6

LEMMA NegatedRight ==
  ASSUME NEW h \in Word, NEW l \in Word, h < SignBit, h # 0 \/ l # 0
  PROVE  IsSignedProduct(Negated(<<h, l>>), -(h * Modulus + l))
<1> DEFINE lo == Wrap(Complement(l) + 1)
           hi == Wrap(Complement(h) + Truth(lo = 0))
<1>1. SignBit \in Nat \ {0} /\ Modulus = 2 * SignBit /\ Modulus \in Nat \ {0}
  BY Sizes
<1>2. h \in 0..(Modulus - 1) /\ l \in 0..(Modulus - 1) /\ h \in Nat /\ l \in Nat
  BY <1>1 DEF Word
<1>3. Complement(l) + 1 = Modulus - l /\ Complement(h) = (Modulus - 1) - h
  BY <1>1, <1>2 DEF Complement
<1>4. CASE l = 0
  <2>1. Modulus - l = Modulus * 1 + 0 /\ 0 \in 0..(Modulus - 1) /\ Modulus - l \in Int
    BY <1>1, <1>4
  <2>2. lo = 0
    BY <1>1, <1>3, <2>1, DivisionUnique DEF Wrap
  <2> HIDE DEF lo
  <2>3. Complement(h) + Truth(lo = 0) = Modulus - h
    BY <1>1, <1>2, <1>3, <2>2 DEF Truth
  <2>4. Modulus - h \in Word /\ Modulus - h >= SignBit
    BY <1>1, <1>2, <1>4 DEF Word
  <2>5. hi = Modulus - h
    BY <2>3, <2>4, WordFacts
  <2> HIDE DEF hi
  <2>6. Signed(hi) = -h
    BY <1>1, <1>2, <2>4, <2>5 DEF Signed
  <2>7. Signed(hi) * Modulus + lo = -(h * Modulus + l)
    BY <1>1, <1>2, <1>4, <2>2, <2>6
  <2> QED
    BY <2>2, <2>4, <2>5, <2>7, SmallWords DEF IsSignedProduct, Negated, lo, hi
<1>5. CASE l # 0
  <2>1. Modulus - l \in Word /\ Modulus - l # 0
    BY <1>1, <1>2, <1>5 DEF Word
  <2>2. lo = Modulus - l
    BY <1>3, <2>1, WordFacts
  <2> HIDE DEF lo
  <2>3. Complement(h) + Truth(lo = 0) = (Modulus - 1) - h
    BY <1>1, <1>2, <1>3, <2>1, <2>2 DEF Truth
  <2>4. (Modulus - 1) - h \in Word /\ (Modulus - 1) - h >= SignBit
    BY <1>1, <1>2 DEF Word
  <2>5. hi = (Modulus - 1) - h
    BY <2>3, <2>4, WordFacts
  <2> HIDE DEF hi
  <2>6. Signed(hi) = (-1) - h
    BY <1>1, <1>2, <2>4, <2>5 DEF Signed
  <2>7. Signed(hi) * Modulus + lo = -(h * Modulus + l)
    BY <1>1, <1>2, <2>2, <2>6
  <2> QED
    BY <2>1, <2>2, <2>4, <2>5, <2>7 DEF IsSignedProduct, Negated, lo, hi
<1> QED
  BY <1>4, <1>5

\* The parts of a pair.
LEMMA PairParts ==
  ASSUME NEW p, NEW u, NEW v, p = <<u, v>>
  PROVE  p[1] = u /\ p[2] = v
OBVIOUS

\* Mult without signs.
LEMMA MultUnsigned ==
  ASSUME NEW a \in Word, NEW b \in Word
  PROVE  IsProduct(Mult(a, b, FALSE), a * b)
<1>1. a \in Nat /\ b \in Nat /\ Modulus \in Nat
  BY WordNat, Sizes
<1>2. CASE a = 0 \/ b = 0
  <2>1. Mult(a, b, FALSE) = <<0, 0>>
    BY <1>2 DEF Mult
  <2>2. a * b = 0 /\ 0 * Modulus + 0 = 0
    BY <1>1, <1>2
  <2>3. Mult(a, b, FALSE)[1] = 0 /\ Mult(a, b, FALSE)[2] = 0
    BY <2>1, PairParts, Zenon
  <2> QED
    BY <2>2, <2>3, SmallWords DEF IsProduct
<1>3. CASE a # 0 /\ b # 0
  <2>1. Mult(a, b, FALSE) = <<MultLoop(a, b).hi, MultLoop(a, b).lo>>
    BY <1>3 DEF Mult
  <2>2. /\ MultLoop(a, b).hi \in Word /\ MultLoop(a, b).lo \in Word
        /\ MultLoop(a, b).hi * Modulus + MultLoop(a, b).lo = a * b
    BY MultLoopRight
  <2>3. Mult(a, b, FALSE)[1] = MultLoop(a, b).hi /\ Mult(a, b, FALSE)[2] = MultLoop(a, b).lo
    BY <2>1, PairParts, Zenon
  <2> QED
    BY <2>2, <2>3 DEF IsProduct
<1> QED
  BY <1>2, <1>3

\* Mult with signs.
LEMMA MultSigned ==
  ASSUME NEW a \in Word, NEW b \in Word
  PROVE  IsSignedProduct(Mult(a, b, TRUE), Signed(a) * Signed(b))
<1> DEFINE x == IF Sign(a) = 1 THEN Wrap(-a) ELSE a
           y == IF Sign(b) = 1 THEN Wrap(-b) ELSE b
           h == MultLoop(x, y).hi
           l == MultLoop(x, y).lo
<1>1. a \in Nat /\ b \in Nat /\ Modulus \in Nat /\ SignBit \in Nat \ {0}
      /\ Signed(a) \in Int /\ Signed(b) \in Int
  BY WordNat, Sizes, SignedInt
<1>2. Sign(a) \in {0, 1} /\ Sign(b) \in {0, 1}
  BY SignBits
<1>3. x \in Word /\ x <= SignBit /\ x = IF Sign(a) = 1 THEN -Signed(a) ELSE Signed(a)
  BY <1>2, NegatedWord, UnsignedSign
<1>4. y \in Word /\ y <= SignBit /\ y = IF Sign(b) = 1 THEN -Signed(b) ELSE Signed(b)
  BY <1>2, NegatedWord, UnsignedSign
<1>5. x \in 0..SignBit /\ y \in 0..SignBit
  BY <1>1, <1>3, <1>4, WordNat
<1>6. (a = 0 => Signed(a) = 0) /\ (b = 0 => Signed(b) = 0)
  BY <1>1 DEF Signed
<1>7. CASE a = 0 \/ b = 0
  <2>1. Mult(a, b, TRUE) = <<0, 0>>
    BY <1>7 DEF Mult
  <2>2. Signed(a) * Signed(b) = 0 /\ Signed(0) = 0 /\ 0 * Modulus + 0 = 0
    BY <1>1, <1>6, <1>7 DEF Signed
  <2>3. Mult(a, b, TRUE)[1] = 0 /\ Mult(a, b, TRUE)[2] = 0
    BY <2>1, PairParts, Zenon
  <2> QED
    BY <2>2, <2>3, SmallWords DEF IsSignedProduct
<1>8. CASE a # 0 /\ b # 0
  <2>1. Sign(a) = Sign(b) => Mult(a, b, TRUE) = <<h, l>>
    BY <1>8 DEF Mult
  <2>2. Sign(a) # Sign(b) => Mult(a, b, TRUE) = Negated(<<h, l>>)
    BY <1>8 DEF Mult, Negated
  <2> HIDE DEF x, y
  <2>3. h \in Word /\ l \in Word /\ h * Modulus + l = x * y
    BY <1>3, <1>4, MultLoopRight
  <2> HIDE DEF h, l
  <2>4. h < SignBit /\ h \in Nat /\ l \in Nat
    BY <1>5, <2>3, ProductFits, WordNat
  <2>5. CASE Sign(a) = Sign(b)
    <3>1. x * y = Signed(a) * Signed(b)
      BY <1>1, <1>2, <1>3, <1>4, <2>5
    <3>2. Signed(h) = h
      BY <1>1, <2>4 DEF Signed
    <3>3. Mult(a, b, TRUE)[1] = h /\ Mult(a, b, TRUE)[2] = l
      BY <2>1, <2>5, PairParts, Zenon
    <3> QED
      BY <2>3, <3>1, <3>2, <3>3 DEF IsSignedProduct
  <2>6. CASE Sign(a) # Sign(b)
    <3>1. -(x * y) = Signed(a) * Signed(b)
      BY <1>1, <1>2, <1>3, <1>4, <2>6
    <3>2. x # 0 /\ y # 0
      <4>1. Signed(a) # 0 /\ Signed(b) # 0
        <5>1. a \in 0..(Modulus - 1) /\ b \in 0..(Modulus - 1)
          BY DEF Word
        <5> QED
          BY <1>1, <1>8, <5>1 DEF Signed
      <4> QED
        BY <1>1, <1>3, <1>4, <4>1
    <3>3. h # 0 \/ l # 0
      <4>1. x * y # 0
        BY <1>5, <3>2
      <4> QED
        BY <1>1, <2>3, <4>1
    <3> QED
      BY <2>2, <2>3, <2>4, <2>6, <3>1, <3>3, NegatedRight
  <2> QED
    BY <2>5, <2>6
<1> QED
  BY <1>7, <1>8

-----------------------------------------------------------------------------
(* Division of words.                                                      *)

\* The quotient that C computes, its remainder, and their sizes.
LEMMA QuotientRight ==
  ASSUME NEW s \in Nat \ {0}, NEW n \in (-s)..(s - 1), NEW d \in (-s)..(s - 1), d # 0,
         ~(n = -s /\ d = -1)
  PROVE  /\ Quotient(n, d) \in (-s)..(s - 1)
         /\ n - Quotient(n, d) * d \in (-s)..(s - 1)
         /\ (n - Quotient(n, d) * d) * n >= 0
         /\ (n - Quotient(n, d) * d) * (n - Quotient(n, d) * d) < d * d
<1> DEFINE A == IF n < 0 THEN -n ELSE n
           D == IF d < 0 THEN -d ELSE d
           q == A \div D
           r == A % D
           m == IF n < 0 THEN -r ELSE r
<1>1. n \in Int /\ d \in Int /\ A \in 0..s /\ D \in 1..s /\ A \in Int /\ D \in Nat \ {0}
  OBVIOUS
<1>2. Quotient(n, d) = IF (n < 0) = (d < 0) THEN q ELSE -q
  BY DEF Quotient
<1> HIDE DEF A, D
<1>3. r \in 0..(D - 1) /\ q \in Int /\ A = D * q + r
  BY <1>1, Division
<1> HIDE DEF q, r
<1>4. q >= 0 /\ q <= A /\ (D >= 2 => 2 * q <= A)
  <2>1. q >= 0
    <3> SUFFICES ASSUME q <= -1 PROVE FALSE
      BY <1>3
    <3>1. D * q <= -D
      BY <1>1, <1>3
    <3>2. D * q \in Int
      BY <1>1, <1>3
    <3> QED
      BY <1>1, <1>3, <3>1, <3>2
  <2>2. D * q >= q
    BY <1>1, <1>3, <2>1
  <2>3. D >= 2 => D * q >= 2 * q
    BY <1>1, <1>3, <2>1
  <2>4. D * q \in Int
    BY <1>1, <1>3
  <2> QED
    BY <1>1, <1>3, <2>1, <2>2, <2>3, <2>4
<1>5. Quotient(n, d) \in (-s)..(s - 1)
  <2>1. CASE (n < 0) # (d < 0)
    BY <1>1, <1>2, <1>3, <1>4, <2>1
  <2>2. CASE n >= 0 /\ d >= 0
    BY <1>1, <1>2, <1>3, <1>4, <2>2 DEF A
  <2>3. CASE n < 0 /\ d < 0
    <3>1. q <= s - 1
      BY <1>1, <1>3, <1>4, <2>3 DEF A, D
    <3> QED
      BY <1>1, <1>2, <1>3, <1>4, <2>3, <3>1
  <2> QED
    BY <1>1, <2>1, <2>2, <2>3
<1>6. n - Quotient(n, d) * d = m
  BY <1>1, <1>2, <1>3 DEF A, D
<1>7. m \in (-s)..(s - 1) /\ m * n >= 0 /\ m \in Int
  BY <1>1, <1>3
<1>8. m * m < d * d
  <2>1. m * m = r * r /\ d * d = D * D
    BY <1>1, <1>3 DEF D
  <2>2. r * r < D * D
    BY <1>1, <1>3
  <2> QED
    BY <2>1, <2>2
<1> HIDE DEF m
<1> QED
  BY <1>5, <1>6, <1>7, <1>8

-----------------------------------------------------------------------------
(* Instructions and registers.                                             *)

\* The numbers of the registers.
LEMMA RegNumbers ==
  /\ GPRegs = 0..3 /\ HiReg = 4 /\ LoReg = 5 /\ PCReg = 6 /\ NextPCReg = 7 /\ PrevPCReg = 8
  /\ LoadReg = 9 /\ LoadValueReg = 10 /\ BadVAddrReg = 11 /\ R31 = 3
BY DEF GPRegs, NumGPRegs, HiReg, LoReg, PCReg, NextPCReg, PrevPCReg, LoadReg, LoadValueReg,
       BadVAddrReg, R31

\* Values of the registers.
RegsOK(regs) ==
  regs \in [0..BadVAddrReg -> Word] /\ regs[LoadReg] \in GPRegs

\* What is in a register.
LEMMA RegWord ==
  ASSUME NEW regs, RegsOK(regs)
  PROVE  /\ \A r \in GPRegs : regs[r] \in Word
         /\ regs[HiReg] \in Word /\ regs[LoReg] \in Word /\ regs[PCReg] \in Word
         /\ regs[NextPCReg] \in Word /\ regs[PrevPCReg] \in Word /\ regs[LoadValueReg] \in Word
BY RegNumbers DEF RegsOK

\* What Decode yields.
NoRt == {"BLTZ", "BGEZ", "BLTZAL", "BGEZAL", "UNIMP"}

IsInstr(i) ==
  /\ i.rs \in GPRegs /\ i.rd \in GPRegs /\ (i.op \notin NoRt => i.rt \in GPRegs)
  /\ i.extra \in Word
  /\ i.op \in JFmt => i.extra \in 0..(Pow2[TargetBits] - 1)

LEMMA DecodeInstr ==
  ASSUME NEW w \in Program
  PROVE  IsInstr(Decode(w))
<1> DEFINE i == Decode(w)
<1>1. /\ w.rs \in GPRegs /\ w.rd \in GPRegs /\ (w.op # "BCOND" => w.rt \in GPRegs)
      /\ w.shamt \in 0..(W - 1) /\ w.imm \in 0..(Bytes(2) - 1)
      /\ w.target \in 0..(Pow2[TargetBits] - 1)
      /\ w.op = "SPECIAL" => w.funct \in RFmt
  BY MachineAssumption
<1>2. i.rs = w.rs /\ i.rd = w.rd /\ i.rt = w.rt
  BY DEF Decode
<1>3. i.op = CASE w.op = "SPECIAL" -> w.funct [] w.op = "BCOND" -> BCond(w.rt) [] OTHER -> w.op
  BY DEF Decode
<1>4. i.extra = CASE w.op = "SPECIAL" -> w.shamt
                  [] w.op \in JFmt -> w.target
                  [] OTHER -> IF w.imm >= Bytes(2) \div 2
                              THEN w.imm + (Modulus - Bytes(2)) ELSE w.imm
  BY DEF Decode
<1> HIDE DEF i
<1>5. BCond(w.rt) \in NoRt
  BY DEF BCond, NoRt
<1>6. i.op \notin NoRt => i.rt \in GPRegs
  <2>1. w.op = "BCOND" => i.op \in NoRt
    BY <1>3, <1>5
  <2> QED
    BY <1>1, <1>2, <2>1
<1>7. i.op \in JFmt => w.op \in JFmt
  <2>1. w.op = "BCOND" => i.op = BCond(w.rt)
    BY <1>3
  <2>2. w.op = "SPECIAL" => i.op \in RFmt
    BY <1>1, <1>3
  <2>3. w.op # "SPECIAL" /\ w.op # "BCOND" => i.op = w.op
    BY <1>3
  <2> QED
    BY <1>5, <2>1, <2>2, <2>3 DEF JFmt, RFmt, NoRt
<1>8. w.op \in JFmt => i.extra = w.target
  BY <1>4 DEF JFmt
<1>9. i.extra \in Word
  <2>1. W \in Nat /\ Bytes(2) \in Nat \ {0} /\ Modulus \in Nat \ {0} /\ Bytes(2) <= Modulus
        /\ TargetBits \in Nat /\ TargetBits <= W - 2
    <3>1. Modulus = Bytes(2) * Bytes(2) /\ Bytes(2) \in Nat \ {0} /\ W \in Nat
          /\ Modulus \in Nat \ {0}
      BY Sizes, SizeProducts
    <3>2. \A x \in Nat \ {0} : x <= x * x
      OBVIOUS
    <3>3. Bytes(2) <= Modulus
      BY <3>1, <3>2
    <3> QED
      BY <3>1, <3>3, MachineAssumption
  <2>2. Pow2[TargetBits] <= Modulus /\ W - 1 < Modulus
    <3>1. W - TargetBits \in Nat /\ TargetBits + (W - TargetBits) = W
      BY <2>1
    <3>2. Pow2[W] = Pow2[TargetBits] * Pow2[W - TargetBits]
          /\ Pow2[TargetBits] \in Nat /\ Pow2[W - TargetBits] \in Nat \ {0}
      BY <2>1, <3>1, Pow2Facts
    <3>3. \A x \in Nat, y \in Nat \ {0} : x <= x * y
      OBVIOUS
    <3>4. Pow2[TargetBits] <= Modulus
      BY <3>2, <3>3 DEF Modulus
    <3>5. \A n \in Nat : n < Pow2[n]
      <4> DEFINE P == {n \in Nat : n < Pow2[n]}
      <4>1. P \in SUBSET Nat /\ 0 \in P
        BY Pow2Def
      <4>2. ASSUME NEW n \in P PROVE n + 1 \in P
        <5>1. n \in Nat /\ n < Pow2[n] /\ Pow2[n] \in Nat /\ Pow2[n + 1] = 2 * Pow2[n]
          BY Pow2Def, Pow2Facts
        <5> QED
          BY <5>1
      <4> HIDE DEF P
      <4>3. P = Nat
        BY <4>1, <4>2, Induction
      <4> QED
        BY <4>3 DEF P
    <3>6. W < Modulus
      BY <2>1, <3>5 DEF Modulus
    <3> QED
      BY <2>1, <3>4, <3>6
  <2>3. Pow2[TargetBits] \in Nat
    BY <2>1, Pow2Facts
  <2>4. CASE w.op = "SPECIAL"
    <3>1. i.extra = w.shamt
      BY <1>4, <2>4 DEF JFmt
    <3> QED
      BY <1>1, <2>1, <2>2, <3>1 DEF Word
  <2>5. CASE w.op \in JFmt
    BY <1>1, <1>8, <2>1, <2>2, <2>3, <2>5 DEF Word
  <2>6. CASE w.op # "SPECIAL" /\ w.op \notin JFmt
    <3>1. i.extra = w.imm + (Modulus - Bytes(2)) \/ i.extra = w.imm
      BY <1>4, <2>6
    <3> QED
      BY <1>1, <2>1, <3>1 DEF Word
  <2> QED
    BY <2>4, <2>5, <2>6
<1> QED
  BY <1>1, <1>2, <1>6, <1>7, <1>8, <1>9 DEF IsInstr, i

\* Shifts yield words.
LEMMA ShiftWord ==
  ASSUME NEW x \in Word, NEW n \in Nat
  PROVE  ShiftLeft(x, n) \in Word /\ ShiftRight(x, n) \in Word
<1>1. x \in Int /\ Signed(x) \in Int /\ Pow2[n] \in Nat \ {0}
  BY WordNat, SignedInt, Pow2Facts
<1>2. x * Pow2[n] \in Int /\ Signed(x) \div Pow2[n] \in Int
  BY <1>1
<1> QED
  BY <1>2, WrapWord DEF ShiftLeft, ShiftRight

\* What an instruction computes is a word.
LEMMA ValueWord ==
  ASSUME RegsOK(registers), NEW i, IsInstr(i), i.op \in ToRd \cup ToRt
  PROVE  Value(i) \in Word
<1>1. Rs(i) \in Word /\ Rt(i) \in Word /\ i.extra \in Word
  <2>1. i.rs \in GPRegs /\ i.rt \in GPRegs /\ i.extra \in Word
    BY DEF IsInstr, NoRt, ToRd, ToRt
  <2> QED
    BY <2>1, RegWord DEF Rs, Rt
<1>2. Rs(i) \in Int /\ Rt(i) \in Int /\ i.extra \in Nat
  BY <1>1, WordNat
<1>3. CASE i.op \in {"ADD", "ADDU"}
  BY <1>2, <1>3, WrapWord DEF Value
<1>4. CASE i.op \in {"ADDI", "ADDIU"}
  BY <1>2, <1>4, WrapWord DEF Value
<1>5. CASE i.op \in {"SUB", "SUBU"}
  BY <1>2, <1>5, WrapWord DEF Value
<1>6. LowHalf(i.extra) \in Word
  <2>1. Bytes(2) \in Nat \ {0} /\ Modulus = Bytes(2) * Bytes(2)
    BY Sizes, SizeProducts
  <2>2. \A x \in Nat \ {0} : x <= x * x
    OBVIOUS
  <2>3. Bytes(2) <= Modulus /\ Modulus \in Nat
    BY <2>1, <2>2, Sizes
  <2>4. LowHalf(i.extra) \in 0..(Bytes(2) - 1)
    <3>1. i.extra \in Int
      BY <1>2
    <3>2. i.extra % Bytes(2) \in 0..(Bytes(2) - 1)
      BY <2>1, <3>1, Division
    <3> QED
      BY <3>2 DEF LowHalf
  <2> QED
    BY <2>1, <2>3, <2>4 DEF Word
<1>7. CASE i.op \in {"AND", "ANDI", "OR", "ORI", "XOR", "XORI"}
  <2>1. /\ BitAnd(Rs(i), Rt(i)) \in Word /\ BitOr(Rs(i), Rt(i)) \in Word
        /\ BitXor(Rs(i), Rt(i)) \in Word
    BY <1>1, BitsWord
  <2>2. /\ BitAnd(Rs(i), LowHalf(i.extra)) \in Word /\ BitOr(Rs(i), LowHalf(i.extra)) \in Word
        /\ BitXor(Rs(i), LowHalf(i.extra)) \in Word
    BY <1>1, <1>6, BitsWord
  <2>3. i.op \in {"AND", "OR", "XOR"} => Value(i) \in Word
    BY <2>1 DEF Value
  <2>4. i.op \in {"ANDI", "ORI", "XORI"} => Value(i) \in Word
    BY <2>2 DEF Value
  <2> QED
    BY <1>7, <2>3, <2>4
<1>8. CASE i.op = "NOR"
  <2>1. Value(i) = Complement(BitOr(Rs(i), Rt(i)))
    BY <1>8 DEF Value
  <2>2. BitOr(Rs(i), Rt(i)) \in Word
    BY <1>1, BitsWord
  <2> QED
    BY <2>1, <2>2, ComplementWord
<1>9. CASE i.op = "LUI"
  <2>1. Value(i) = ShiftLeft(i.extra, 2 * ByteBits) /\ 2 * ByteBits \in Nat
    BY <1>9, MachineAssumption DEF Value
  <2> QED
    BY <1>1, <2>1, ShiftWord
<1>10. CASE i.op \in {"MFHI", "MFLO"}
  BY <1>10, RegWord DEF Value
<1>11. CASE i.op \in {"SLL", "SRA", "SRL"}
  BY <1>1, <1>2, <1>11, ShiftWord DEF Value
<1>12. CASE i.op \in {"SLLV", "SRAV", "SRLV"}
  <2>1. Rs(i) % W \in Nat
    <3>1. W \in Nat \ {0}
      BY Sizes
    <3> QED
      BY <1>2, <3>1
  <2> QED
    BY <1>1, <1>12, <2>1, ShiftWord DEF Value
<1>13. CASE i.op \in {"SLT", "SLTI", "SLTU", "SLTIU"}
  <2>1. Value(i) \in {0, 1}
    BY <1>13 DEF Value, Truth
  <2> QED
    BY <2>1, SmallWords
<1> QED
  BY <1>3, <1>4, <1>5, <1>7, <1>8, <1>9, <1>10, <1>11, <1>12, <1>13
     DEF ToRd, ToRt

\* What goes to the registers of multiplication and division.
LEMMA HiLoWord ==
  ASSUME RegsOK(registers), NEW i, IsInstr(i), ~HostFault(i),
         i.op \in {"DIV", "DIVU", "MULT", "MULTU", "MTHI", "MTLO"}
  PROVE  HiLo(i)[1] \in Word /\ HiLo(i)[2] \in Word
<1>1. Rs(i) \in Word /\ Rt(i) \in Word
  <2>1. i.rs \in GPRegs /\ i.rt \in GPRegs
    BY DEF IsInstr, NoRt
  <2> QED
    BY <2>1, RegWord DEF Rs, Rt
<1>2. Rs(i) \in Nat /\ Rt(i) \in Nat
  BY <1>1, WordNat
<1>3. CASE i.op \in {"DIV", "DIVU"} /\ Rt(i) = 0
  <2>1. HiLo(i) = <<0, 0>>
    BY <1>3 DEF HiLo
  <2> QED
    BY <2>1, SmallWords
<1>4. CASE i.op = "DIV" /\ Rt(i) # 0
  <2> DEFINE n == Signed(Rs(i))
             d == Signed(Rt(i))
             q == Quotient(n, d)
  <2>1. HiLo(i) = <<Wrap(n - q * d), Wrap(q)>>
    BY <1>4 DEF HiLo
  <2>2. n \in Int /\ d \in Int /\ d # 0
    <3>1. Rt(i) \in 0..(Modulus - 1) /\ Modulus \in Nat /\ SignBit \in Nat
      BY <1>1, Sizes DEF Word
    <3> QED
      BY <1>1, <1>4, <3>1, SignedInt DEF Signed
  <2>3. q \in Int
    <3> HIDE DEF n, d
    <3>1. \A a \in Nat, b \in Nat \ {0} : a \div b \in Int
      OBVIOUS
    <3> QED
      BY <2>2, <3>1 DEF Quotient
  <2> HIDE DEF n, d, q
  <2>4. n - q * d \in Int
    BY <2>2, <2>3
  <2> QED
    BY <2>1, <2>3, <2>4, WrapWord
<1>5. CASE i.op = "DIVU" /\ Rt(i) # 0
  <2>1. HiLo(i) = <<Rs(i) % Rt(i), Rs(i) \div Rt(i)>>
    BY <1>5 DEF HiLo
  <2>2. \A a \in Nat, b \in Nat \ {0} : a % b \in 0..(b - 1) /\ a \div b \in 0..a
    OBVIOUS
  <2>3. Rs(i) % Rt(i) \in 0..(Rt(i) - 1) /\ Rs(i) \div Rt(i) \in 0..Rs(i)
    BY <1>2, <1>5, <2>2
  <2>4. Rs(i) \in 0..(Modulus - 1) /\ Rt(i) \in 0..(Modulus - 1) /\ Modulus \in Nat
    BY <1>1, Sizes DEF Word
  <2>5. Rs(i) % Rt(i) \in Word /\ Rs(i) \div Rt(i) \in Word
    BY <2>3, <2>4 DEF Word
  <2> QED
    BY <2>1, <2>5
<1>6. CASE i.op = "MULT"
  <2>1. HiLo(i) = Mult(Rs(i), Rt(i), TRUE)
    BY <1>6 DEF HiLo
  <2> QED
    BY <1>1, <2>1, MultSigned, Zenon DEF IsSignedProduct
<1>7. CASE i.op = "MULTU"
  <2>1. HiLo(i) = Mult(Rs(i), Rt(i), FALSE)
    BY <1>7 DEF HiLo
  <2> QED
    BY <1>1, <2>1, MultUnsigned, Zenon DEF IsProduct
<1>8. CASE i.op = "MTHI"
  <2>1. HiLo(i) = <<Rs(i), registers[LoReg]>>
    BY <1>8 DEF HiLo
  <2> QED
    BY <1>1, <2>1, RegWord
<1>9. CASE i.op = "MTLO"
  <2>1. HiLo(i) = <<registers[HiReg], Rs(i)>>
    BY <1>9 DEF HiLo
  <2> QED
    BY <1>1, <2>1, RegWord
<1> QED
  BY <1>3, <1>4, <1>5, <1>6, <1>7, <1>8, <1>9

\* The instruction after the next one.
LEMMA PcAfterWord ==
  ASSUME RegsOK(registers)
  PROVE  PcAfter \in Word
<1>1. registers[NextPCReg] \in Int
  BY RegWord, WordNat
<1> QED
  BY <1>1, WrapWord DEF PcAfter

\* Changing a general register.
LEMMA SetRegister ==
  ASSUME NEW regs, RegsOK(regs), NEW r \in GPRegs, NEW v \in Word
  PROVE  RegsOK([regs EXCEPT ![r] = v])
BY RegNumbers DEF RegsOK

\* The registers after the return address was written.
LEMMA LinkedOK ==
  ASSUME RegsOK(registers), NEW i, IsInstr(i)
  PROVE  RegsOK(Linked(i)) /\ \A r \in 4..11 : Linked(i)[r] = registers[r]
<1>1. PcAfter \in Word /\ i.rd \in GPRegs /\ R31 \in GPRegs
  BY PcAfterWord, RegNumbers DEF IsInstr
<1>2. /\ Linked(i) \in {registers, [registers EXCEPT ![R31] = PcAfter],
                        [registers EXCEPT ![i.rd] = PcAfter]}
  BY DEF Linked
<1>3. /\ RegsOK([registers EXCEPT ![R31] = PcAfter]) /\ RegsOK([registers EXCEPT ![i.rd] = PcAfter])
  BY <1>1, SetRegister
<1>4. \A r \in 4..11 : /\ [registers EXCEPT ![R31] = PcAfter][r] = registers[r]
                       /\ [registers EXCEPT ![i.rd] = PcAfter][r] = registers[r]
  BY <1>1, RegNumbers DEF RegsOK
<1> QED
  BY <1>2, <1>3, <1>4

\* The target of a branch or jump is a word.
LEMMA TargetWord ==
  ASSUME RegsOK(registers), NEW i, IsInstr(i), i.op \in Branches \cup Jumps
  PROVE  Target(i) \in Word
<1>1. PcAfter \in Word /\ PcAfter \in Nat /\ i.extra \in Nat /\ registers[NextPCReg] \in Nat
      /\ i.rs \in GPRegs
  BY PcAfterWord, WordNat, RegWord DEF IsInstr
<1>2. CASE i.op \in Branches
  <2>1. Target(i) \in {Wrap(registers[NextPCReg] + 4 * i.extra), PcAfter}
    <3>1. CASE Taken(i)
      BY <1>2, <3>1 DEF Target, Branches
    <3>2. CASE ~Taken(i)
      BY <1>2, <3>2 DEF Target, Branches
    <3> QED
      BY <3>1, <3>2
  <2>2. Wrap(registers[NextPCReg] + 4 * i.extra) \in Word
    BY <1>1, WrapWord
  <2> QED
    BY <1>1, <2>1, <2>2
<1>3. CASE i.op \in {"J", "JAL"}
  <2> DEFINE P == Pow2[TargetBits + 2]
             R == Pow2[W - (TargetBits + 2)]
             q == PcAfter \div P
  <2>1. Target(i) = (PcAfter \div P) * P + 4 * i.extra
    BY <1>3 DEF Target, Branches
  <2>2. TargetBits \in Nat /\ W \in Nat /\ W - (TargetBits + 2) \in Nat
        /\ (TargetBits + 2) + (W - (TargetBits + 2)) = W
    BY MachineAssumption, Sizes
  <2>3. P \in Nat \ {0} /\ R \in Nat \ {0} /\ Modulus = P * R
    BY <2>2, Pow2Facts DEF Modulus
  <2>4. P = 4 * Pow2[TargetBits]
    <3>1. TargetBits + 1 \in Nat /\ (TargetBits + 1) + 1 = TargetBits + 2
      BY <2>2
    <3>2. Pow2[TargetBits + 1] = 2 * Pow2[TargetBits] /\ P = 2 * Pow2[TargetBits + 1]
      BY <2>2, <3>1, Pow2Def
    <3>3. Pow2[TargetBits] \in Nat
      BY <2>2, Pow2Facts
    <3> QED
      BY <3>2, <3>3
  <2>5. i.extra \in 0..(Pow2[TargetBits] - 1) /\ Pow2[TargetBits] \in Nat
    BY <1>3, <2>2, Pow2Facts DEF IsInstr, JFmt
  <2>6. 4 * i.extra \in 0..(P - 1)
    BY <2>4, <2>5
  <2>7. PcAfter \in 0..((P * R) - 1)
    BY <1>1, <2>3 DEF Word
  <2> HIDE DEF P, R
  <2>8. q \in 0..(R - 1)
    BY <2>3, <2>7
  <2> HIDE DEF q
  <2>9. q * P + P <= P * R /\ q * P >= 0 /\ q * P \in Int /\ P * R \in Int
    BY <2>3, <2>8
  <2>10. q * P + 4 * i.extra \in 0..((P * R) - 1)
    BY <2>3, <2>6, <2>9
  <2> QED
    BY <2>1, <2>3, <2>10 DEF Word, q
<1>4. CASE i.op \in {"JR", "JALR"}
  <2>1. Target(i) = Linked(i)[i.rs]
    BY <1>4 DEF Target, Branches
  <2> QED
    BY <1>1, <2>1, LinkedOK, RegWord
<1> QED
  BY <1>2, <1>3, <1>4 DEF Jumps

-----------------------------------------------------------------------------
(* Translation and memory.                                                 *)

\* The page table is the one that was loaded, but for the use and dirty bits.
TableOf(table) ==
  /\ table \in Seq(Entry) /\ Len(table) = Len(PageTable)
  /\ \A v \in 1..Len(PageTable) :
       /\ table[v].physicalPage = PageTable[v].physicalPage /\ table[v].valid = PageTable[v].valid
       /\ table[v].readOnly = PageTable[v].readOnly

Page(addr) == addr \div PageSize + 1

\* Translate finds the page of an address in the table.
Maps(addr, size) ==
  /\ addr % size = 0 /\ Page(addr) \in 1..Len(PageTable)
  /\ PageTable[Page(addr)].valid /\ PageTable[Page(addr)].physicalPage < NumPhysPages

\* What Translate promises.
LEMMA Translates ==
  ASSUME NEW addr \in Nat, NEW size \in {1, 2, 4}, NEW writing \in BOOLEAN, TableOf(pageTable)
  PROVE  /\ Exception(addr, size, writing) \in Faults \cup {"NoException"}
         /\ Exception(addr, size, writing) = "NoException" =>
              Maps(addr, size) /\ (writing => ~PageTable[Page(addr)].readOnly)
<1> DEFINE vpn == addr \div PageSize
           entry == pageTable[vpn + 1]
<1>1. PageSize \in Nat \ {0} /\ vpn \in Nat /\ NumPhysPages \in Nat
  BY MachineAssumption
<1>2. CASE ~Aligned(addr, size) \/ vpn >= Len(pageTable)
  <2>1. Exception(addr, size, writing) = "AddressErrorException"
    BY <1>2 DEF Exception
  <2> QED
    BY <2>1 DEF Faults
<1>3. CASE ~(~Aligned(addr, size) \/ vpn >= Len(pageTable))
  <2>1. Exception(addr, size, writing) =
          CASE ~entry.valid -> "PageFaultException"
            [] entry.valid /\ entry.readOnly /\ writing -> "ReadOnlyException"
            [] entry.valid /\ ~(entry.readOnly /\ writing)
                 /\ entry.physicalPage >= NumPhysPages -> "BusErrorException"
            [] OTHER -> "NoException"
    BY <1>3, Zenon DEF Exception
  <2>2. addr % size = 0 /\ vpn < Len(PageTable) /\ Len(PageTable) \in Nat
    <3>1. Len(pageTable) = Len(PageTable) /\ Len(PageTable) \in Nat
      BY MachineAssumption DEF TableOf
    <3> QED
      BY <1>1, <1>3, <3>1 DEF Aligned
  <2>3. vpn + 1 \in 1..Len(PageTable)
    BY <1>1, <2>2
  <2>4. /\ entry.physicalPage = PageTable[vpn + 1].physicalPage
        /\ entry.valid = PageTable[vpn + 1].valid /\ entry.readOnly = PageTable[vpn + 1].readOnly
    BY <2>3 DEF TableOf
  <2>5. entry.valid \in BOOLEAN /\ entry.readOnly \in BOOLEAN /\ entry.physicalPage \in Nat
    <3>1. PageTable[vpn + 1] \in Entry
      BY <2>3, MachineAssumption
    <3> QED
      BY <2>4, <3>1 DEF Entry
  <2> HIDE DEF entry
  <2>6. Exception(addr, size, writing) \in Faults \cup {"NoException"}
    BY <2>1, <2>5 DEF Faults
  <2>7. Exception(addr, size, writing) = "NoException" =>
          entry.valid /\ ~(entry.readOnly /\ writing) /\ ~(entry.physicalPage >= NumPhysPages)
    BY <2>1, <2>5
  <2> HIDE DEF vpn
  <2>8. Page(addr) = vpn + 1
    BY DEF Page, vpn
  <2> QED
    BY <1>1, <2>2, <2>3, <2>4, <2>5, <2>6, <2>7, <2>8 DEF Maps
<1> QED
  BY <1>2, <1>3

\* An aligned access does not cross the end of a page.
LEMMA OffsetFits ==
  ASSUME NEW addr \in Nat, NEW size \in {1, 2, 4}, addr % size = 0
  PROVE  addr % PageSize \in Nat /\ (addr % PageSize) + size <= PageSize
         /\ (addr % PageSize) % size = 0
<1> DEFINE o == addr % PageSize
           q == addr \div PageSize
<1>1. PageSize \in Nat \ {0} /\ PageSize % 4 = 0
  BY MachineAssumption
<1>2. PICK p \in Nat : PageSize = size * p
  <2>1. PICK k \in Nat : PageSize = 4 * k
    <3>1. PageSize = 4 * (PageSize \div 4) + (PageSize % 4) /\ PageSize \div 4 \in Nat
      BY <1>1
    <3> QED
      BY <1>1, <3>1
  <2>2. CASE size = 4
    BY <2>1, <2>2
  <2>3. CASE size = 2
    <3>1. PageSize = 2 * (2 * k) /\ 2 * k \in Nat
      BY <2>1
    <3> QED
      BY <2>3, <3>1
  <2>4. CASE size = 1
    BY <1>1, <2>4
  <2> QED
    BY <2>2, <2>3, <2>4
<1>3. o \in 0..(PageSize - 1) /\ q \in Int /\ addr = PageSize * q + o
  BY <1>1, Division
<1>4. PICK c \in Int : addr = size * c
  <2>1. addr = size * (addr \div size) + (addr % size) /\ addr \div size \in Int
    BY Division
  <2>2. \A x, y, z \in Int : x = y * z + 0 => x = y * z
    OBVIOUS
  <2>3. addr = size * (addr \div size)
    BY <2>1, <2>2
  <2> QED
    BY <2>1, <2>3
<1> HIDE DEF o, q
<1>5. o = size * (c - p * q) /\ c - p * q \in Int
  <2>1. size * c = (size * p) * q + o
    BY <1>2, <1>3, <1>4
  <2>2. (size * p) * q = size * (p * q) /\ size * (c - p * q) = size * c - size * (p * q)
    <3>1. \A x, y, z, u \in Int :
            (x * y) * z = x * (y * z) /\ x * (u - y * z) = x * u - x * (y * z)
      OBVIOUS
    <3>2. size \in Int /\ p \in Int /\ q \in Int /\ c \in Int
      BY <1>2, <1>3, <1>4
    <3> QED
      BY <3>1, <3>2
  <2>3. p * q \in Int /\ size * (p * q) \in Int /\ size * c \in Int /\ o \in Int
    BY <1>2, <1>3, <1>4
  <2> QED
    BY <1>4, <2>1, <2>2, <2>3
<1>6. PICK m \in Int : o = size * m
  BY <1>5
<1>7. m < p
  <2> SUFFICES ASSUME m >= p PROVE FALSE
    BY <1>2, <1>6
  <2>1. size * m >= size * p
    BY <1>2, <1>6
  <2> QED
    BY <1>1, <1>2, <1>3, <1>6, <2>1
<1>8. size * m + size <= size * p
  BY <1>2, <1>6, <1>7
<1>9. o % size = 0
  BY <1>6
<1> QED
  BY <1>1, <1>2, <1>3, <1>6, <1>8, <1>9 DEF o

\* The bytes of physical memory.
MemOK(mem) == mem \in [0..(NumPhysPages * PageSize - 1) -> 0..(Bytes(1) - 1)]

Frame(addr) == PageTable[Page(addr)].physicalPage

\* Where Translate puts an address.
LEMMA PhysAddrIs ==
  ASSUME TableOf(pageTable), NEW addr \in Nat, Page(addr) \in 1..Len(PageTable)
  PROVE  PhysAddr(addr) = Frame(addr) * PageSize + (addr % PageSize)
BY DEF PhysAddr, TableOf, Frame, Page

\* The bytes of an access are in the page's frame, and in memory.
LEMMA AccessFits ==
  ASSUME TableOf(pageTable), NEW addr \in Nat, NEW size \in {1, 2, 4}, Maps(addr, size)
  PROVE  /\ PhysAddr(addr) \in Nat /\ Frame(addr) \in Nat
         /\ \A k \in 0..(size - 1) :
              /\ PhysAddr(addr) + k \in
                   (Frame(addr) * PageSize)..((Frame(addr) * PageSize + PageSize) - 1)
              /\ PhysAddr(addr) + k \in 0..(NumPhysPages * PageSize - 1)
<1> DEFINE f == Frame(addr)
           o == addr % PageSize
<1>1. PhysAddr(addr) = f * PageSize + o
  BY PhysAddrIs DEF Maps
<1>2. PageSize \in Nat \ {0} /\ NumPhysPages \in Nat
  BY MachineAssumption
<1>3. f \in Nat /\ f < NumPhysPages
  <2>1. Page(addr) \in 1..Len(PageTable) /\ PageTable \in Seq(Entry)
    BY MachineAssumption DEF Maps
  <2>2. PageTable[Page(addr)] \in Entry
    BY <2>1
  <2> QED
    BY <2>2 DEF Maps, Frame, Entry
<1>4. o \in Nat /\ o + size <= PageSize
  BY OffsetFits DEF Maps
<1> HIDE DEF f, o
<1>5. f * PageSize \in Nat /\ NumPhysPages * PageSize \in Nat
  BY <1>2, <1>3
<1>6. f * PageSize + PageSize <= NumPhysPages * PageSize
  BY <1>2, <1>3
<1>7. PhysAddr(addr) \in Nat
  BY <1>1, <1>4, <1>5
<1>8. ASSUME NEW k \in 0..(size - 1)
      PROVE  /\ PhysAddr(addr) + k \in (f * PageSize)..((f * PageSize + PageSize) - 1)
             /\ PhysAddr(addr) + k \in 0..(NumPhysPages * PageSize - 1)
  BY <1>1, <1>2, <1>4, <1>5, <1>6
<1> QED
  BY <1>3, <1>7, <1>8 DEF f

\* A digit more.
LEMMA AddDigit ==
  ASSUME NEW B \in Nat \ {0}, NEW X \in Nat \ {0}, NEW x \in 0..(X - 1), NEW d \in 0..(B - 1)
  PROVE  x + d * X \in 0..(B * X - 1) /\ d * X \in Nat /\ B * X \in Nat \ {0}
<1>1. d * X \in Nat /\ B * X \in Nat \ {0}
  OBVIOUS
<1>2. d * X + X <= B * X
  <2>1. B - 1 - d \in Nat
    OBVIOUS
  <2>2. (d + 1) * X <= B * X /\ (d + 1) * X = d * X + X
    OBVIOUS
  <2> QED
    BY <2>2
<1> QED
  BY <1>1, <1>2

\* Four bytes make a word.
Join(d0, d1, d2, d3) == d0 * Bytes(0) + d1 * Bytes(1) + d2 * Bytes(2) + d3 * Bytes(3)

Byte == 0..(Bytes(1) - 1)

LEMMA JoinRange ==
  ASSUME NEW d0 \in Byte, NEW d1 \in Byte, NEW d2 \in Byte, NEW d3 \in Byte
  PROVE  /\ d0 * Bytes(0) = d0 /\ d0 \in Nat
         /\ d1 * Bytes(1) \in Nat /\ d2 * Bytes(2) \in Nat /\ d3 * Bytes(3) \in Nat
         /\ d0 + d1 * Bytes(1) \in 0..(Bytes(2) - 1)
         /\ (d0 + d1 * Bytes(1)) + d2 * Bytes(2) \in 0..(Bytes(3) - 1)
         /\ Join(d0, d1, d2, d3) = ((d0 + d1 * Bytes(1)) + d2 * Bytes(2)) + d3 * Bytes(3)
         /\ Join(d0, d1, d2, d3) \in 0..(Bytes(4) - 1)
<1> DEFINE B == Bytes(1)
<1>1. B \in Nat \ {0} /\ Bytes(0) = 1 /\ Bytes(2) \in Nat \ {0} /\ Bytes(3) \in Nat \ {0}
      /\ Bytes(4) = Modulus
  BY Sizes
<1>2. Bytes(2) = B * B /\ Bytes(3) = B * Bytes(2) /\ Bytes(4) = B * Bytes(3)
  BY <1>1, SizeProducts
<1>3. /\ d0 \in 0..(B - 1) /\ d1 \in 0..(B - 1) /\ d2 \in 0..(B - 1) /\ d3 \in 0..(B - 1)
  BY DEF Byte
<1> HIDE DEF B
<1>4. d0 * Bytes(0) = d0 /\ d0 \in Nat
  BY <1>1, <1>3
<1>5. d0 + d1 * B \in 0..(Bytes(2) - 1) /\ d1 * B \in Nat
  BY <1>1, <1>2, <1>3, AddDigit
<1>6. (d0 + d1 * B) + d2 * Bytes(2) \in 0..(Bytes(3) - 1) /\ d2 * Bytes(2) \in Nat
  BY <1>1, <1>2, <1>3, <1>5, AddDigit
<1>7. ((d0 + d1 * B) + d2 * Bytes(2)) + d3 * Bytes(3) \in 0..(Bytes(4) - 1) /\ d3 * Bytes(3) \in Nat
  BY <1>1, <1>2, <1>3, <1>6, AddDigit
<1> QED
  BY <1>4, <1>5, <1>6, <1>7 DEF Join, B

\* What ReadMem reads.
LEMMA ReadMemIs ==
  ASSUME NEW mem, NEW addr
  PROVE  /\ ReadMem(mem, addr, 1) = Join(mem[PhysAddr(addr) + 0], 0, 0, 0)
         /\ ReadMem(mem, addr, 2) = Join(mem[PhysAddr(addr) + 0], mem[PhysAddr(addr) + 1], 0, 0)
         /\ ReadMem(mem, addr, 4) = Join(mem[PhysAddr(addr) + 0], mem[PhysAddr(addr) + 1],
                                         mem[PhysAddr(addr) + 2], mem[PhysAddr(addr) + 3])
<1>1. /\ Bytes(0) \in Nat /\ Bytes(1) \in Nat /\ Bytes(2) \in Nat /\ Bytes(3) \in Nat
  BY Sizes
<1>2. /\ 0 * Bytes(1) = 0 /\ 0 * Bytes(2) = 0 /\ 0 * Bytes(3) = 0
  BY <1>1
<1> QED
  BY <1>2 DEF ReadMem, Join

LEMMA ReadMemRange ==
  ASSUME TableOf(pageTable), NEW mem, MemOK(mem), NEW addr \in Nat, NEW size \in {1, 2, 4},
         Maps(addr, size)
  PROVE  ReadMem(mem, addr, size) \in 0..(Bytes(size) - 1) /\ ReadMem(mem, addr, size) \in Word
<1>1. /\ Bytes(1) \in Nat \ {0} /\ Bytes(2) \in Nat \ {0} /\ Bytes(3) \in Nat \ {0}
      /\ Bytes(4) = Modulus /\ Modulus \in Nat
  BY Sizes
<1>2. \A k \in 0..(size - 1) : mem[PhysAddr(addr) + k] \in Byte
  BY AccessFits DEF MemOK, Byte
<1>3. 0 \in Byte
  BY <1>1 DEF Byte
<1>4. CASE size = 1
  <2> DEFINE d0 == mem[PhysAddr(addr) + 0]
  <2>1. d0 \in Byte
    BY <1>2, <1>4
  <2>2. ReadMem(mem, addr, 1) = Join(d0, 0, 0, 0)
    BY ReadMemIs
  <2> HIDE DEF d0
  <2>3. Join(d0, 0, 0, 0) \in 0..(Bytes(4) - 1) /\ Join(d0, 0, 0, 0) = d0
    <3>1. 0 * Bytes(1) = 0 /\ 0 * Bytes(2) = 0 /\ 0 * Bytes(3) = 0
      BY <1>1
    <3>2. /\ Join(d0, 0, 0, 0) = ((d0 + 0 * Bytes(1)) + 0 * Bytes(2)) + 0 * Bytes(3)
          /\ Join(d0, 0, 0, 0) \in 0..(Bytes(4) - 1) /\ d0 \in Nat
      BY <1>3, <2>1, JoinRange
    <3> QED
      BY <3>1, <3>2
  <2> QED
    BY <1>1, <1>4, <2>1, <2>2, <2>3 DEF Byte, Word
<1>5. CASE size = 2
  <2> DEFINE d0 == mem[PhysAddr(addr) + 0]
             d1 == mem[PhysAddr(addr) + 1]
  <2>1. d0 \in Byte /\ d1 \in Byte
    BY <1>2, <1>5
  <2>2. ReadMem(mem, addr, 2) = Join(d0, d1, 0, 0)
    BY ReadMemIs
  <2> HIDE DEF d0, d1
  <2>3. Join(d0, d1, 0, 0) \in 0..(Bytes(4) - 1) /\ Join(d0, d1, 0, 0) \in 0..(Bytes(2) - 1)
    <3>1. 0 * Bytes(2) = 0 /\ 0 * Bytes(3) = 0
      BY <1>1
    <3>2. /\ Join(d0, d1, 0, 0) = ((d0 + d1 * Bytes(1)) + 0 * Bytes(2)) + 0 * Bytes(3)
          /\ Join(d0, d1, 0, 0) \in 0..(Bytes(4) - 1) /\ d0 + d1 * Bytes(1) \in 0..(Bytes(2) - 1)
      BY <1>3, <2>1, JoinRange
    <3> QED
      BY <3>1, <3>2
  <2> QED
    BY <1>1, <1>5, <2>2, <2>3 DEF Word
<1>6. CASE size = 4
  <2> DEFINE d0 == mem[PhysAddr(addr) + 0]
             d1 == mem[PhysAddr(addr) + 1]
             d2 == mem[PhysAddr(addr) + 2]
             d3 == mem[PhysAddr(addr) + 3]
  <2>1. d0 \in Byte /\ d1 \in Byte /\ d2 \in Byte /\ d3 \in Byte
    BY <1>2, <1>6
  <2>2. ReadMem(mem, addr, 4) = Join(d0, d1, d2, d3)
    BY ReadMemIs
  <2> HIDE DEF d0, d1, d2, d3
  <2>3. Join(d0, d1, d2, d3) \in 0..(Bytes(4) - 1)
    BY <2>1, JoinRange
  <2> QED
    BY <1>1, <1>6, <2>2, <2>3 DEF Word
<1> QED
  BY <1>4, <1>5, <1>6

\* What WriteMem writes.
LEMMA WriteMemOK ==
  ASSUME TableOf(pageTable), MemOK(mainMemory), NEW addr \in Nat, NEW size \in {1, 2, 4},
         Maps(addr, size), NEW value \in Int
  PROVE  /\ MemOK(WriteMem(addr, size, value))
         /\ \A a \in 0..(NumPhysPages * PageSize - 1) :
              /\ a \in (Frame(addr) * PageSize)..((Frame(addr) * PageSize + PageSize) - 1)
                   \/ WriteMem(addr, size, value)[a] = mainMemory[a]
              /\ ~(a \in PhysAddr(addr)..(PhysAddr(addr) + size - 1))
                   => WriteMem(addr, size, value)[a] = mainMemory[a]
         /\ \A k \in 0..(size - 1) :
              WriteMem(addr, size, value)[PhysAddr(addr) + k] = (value \div Bytes(k)) % Bytes(1)
<1> DEFINE D == 0..(NumPhysPages * PageSize - 1)
           p == PhysAddr(addr)
           m == WriteMem(addr, size, value)
<1>1. DOMAIN mainMemory = D /\ \A a \in D : mainMemory[a] \in 0..(Bytes(1) - 1)
  BY DEF MemOK
<1>2. /\ p \in Nat
      /\ \A k \in 0..(size - 1) :
           /\ p + k \in (Frame(addr) * PageSize)..((Frame(addr) * PageSize + PageSize) - 1)
           /\ p + k \in D
  BY AccessFits
<1>3. m = [a \in D |-> IF a \in p..(p + size - 1)
                       THEN (value \div Bytes(a - p)) % Bytes(1) ELSE mainMemory[a]]
  BY <1>1 DEF WriteMem
<1> HIDE DEF p, m, D
<1>4. ASSUME NEW k \in 0..(size - 1)
      PROVE  m[p + k] = (value \div Bytes(k)) % Bytes(1)
  <2>1. p + k \in D
    BY <1>2
  <2>2. p \in Nat
    BY <1>2
  <2>3. p + k \in p..(p + size - 1) /\ (p + k) - p = k
    BY <2>2
  <2> QED
    BY <1>3, <2>1, <2>3
<1>5. ASSUME NEW k \in 0..(size - 1)
      PROVE  m[p + k] \in 0..(Bytes(1) - 1)
  <2>1. Bytes(1) \in Nat \ {0} /\ Bytes(k) \in Nat \ {0}
    <3>1. k \in Nat
      OBVIOUS
    <3> QED
      BY <3>1, Sizes
  <2>2. value \div Bytes(k) \in Int
    BY <2>1
  <2>3. (value \div Bytes(k)) % Bytes(1) \in 0..(Bytes(1) - 1)
    BY <2>1, <2>2, Division
  <2> QED
    BY <1>4, <2>3
<1>6. \A a \in D : a \in Int
  BY DEF D
<1>7. ASSUME NEW a \in D, a \in p..(p + size - 1)
      PROVE  \E k \in 0..(size - 1) : a = p + k
  <2>1. a - p \in 0..(size - 1) /\ a = p + (a - p)
    BY <1>2, <1>6, <1>7
  <2> QED
    BY <2>1
<1>8. \A a \in D : ~(a \in p..(p + size - 1)) => m[a] = mainMemory[a]
  BY <1>3
<1>9. ASSUME NEW a \in D PROVE m[a] \in 0..(Bytes(1) - 1)
  <2>1. CASE a \in p..(p + size - 1)
    BY <1>5, <1>7, <2>1
  <2>2. CASE ~(a \in p..(p + size - 1))
    BY <1>1, <1>8, <2>2
  <2> QED
    BY <2>1, <2>2
<1>10. m \in [D -> 0..(Bytes(1) - 1)]
  BY <1>3, <1>9
<1>11. ASSUME NEW a \in D
       PROVE  a \in (Frame(addr) * PageSize)..((Frame(addr) * PageSize + PageSize) - 1)
                \/ m[a] = mainMemory[a]
  BY <1>2, <1>7, <1>8
<1> QED
  BY <1>4, <1>8, <1>10, <1>11 DEF MemOK, D, p, m

-----------------------------------------------------------------------------
(* Loads and stores.                                                       *)

\* The high part of a number.
LEMMA HighPart ==
  ASSUME NEW X \in Nat \ {0}, NEW Z \in Nat \ {0}, NEW p \in 0..(X * Z - 1)
  PROVE  p \div Z \in 0..(X - 1) /\ (p \div Z) * Z \in Nat /\ (p \div Z) * Z + Z <= X * Z
<1> DEFINE q == p \div Z
           r == p % Z
<1>1. r \in 0..(Z - 1) /\ q \in Int /\ p = Z * q + r /\ p \in Int /\ X * Z \in Int
  BY Division
<1> HIDE DEF q, r
<1>2. q >= 0
  <2> SUFFICES ASSUME q <= -1 PROVE FALSE
    BY <1>1
  <2>1. Z * q <= -Z /\ Z * q \in Int
    BY <1>1
  <2> QED
    BY <1>1, <2>1
<1>3. q < X
  <2> SUFFICES ASSUME q >= X PROVE FALSE
    BY <1>1
  <2>1. Z * q >= X * Z /\ Z * q \in Int
    BY <1>1
  <2> QED
    BY <1>1, <2>1
<1>4. q * Z \in Nat /\ (q + 1) * Z <= X * Z /\ (q + 1) * Z = q * Z + Z
  BY <1>1, <1>2, <1>3
<1> QED
  BY <1>1, <1>2, <1>3, <1>4 DEF q

\* A shift to the left keeps the low part.
LEMMA ShiftMod ==
  ASSUME NEW X \in Nat \ {0}, NEW Y \in Nat \ {0}, NEW v \in Nat
  PROVE  (v * Y) % (X * Y) = (v % X) * Y
<1> DEFINE q == v \div X
           r == v % X
<1>1. r \in 0..(X - 1) /\ q \in Int /\ v = X * q + r
  BY Division
<1> HIDE DEF q, r
<1>2. v * Y = (X * Y) * q + r * Y
  BY <1>1
<1>3. r * Y \in 0..((X * Y) - 1) /\ X * Y \in Nat \ {0} /\ v * Y \in Int
  <2>1. X * Y \in Nat \ {0} /\ v * Y \in Int /\ r * Y \in Nat
    BY <1>1
  <2>2. (r + 1) * Y <= X * Y /\ (r + 1) * Y = r * Y + Y
    BY <1>1
  <2> QED
    BY <2>1, <2>2
<1>4. (v * Y) % (X * Y) = r * Y
  BY <1>1, <1>2, <1>3, DivisionUnique
<1> QED
  BY <1>4 DEF r

\* The bytes of a word before and after one of them.
LEMMA Splits ==
  ASSUME NEW k \in 0..3
  PROVE  /\ k \in Nat /\ k + 1 \in Nat /\ 3 - k \in Nat /\ 4 - k \in Nat
         /\ Bytes(k) \in Nat \ {0} /\ Bytes(k + 1) \in Nat \ {0}
         /\ Bytes(3 - k) \in Nat \ {0} /\ Bytes(4 - k) \in Nat \ {0}
         /\ Modulus = Bytes(k) * Bytes(4 - k) /\ Modulus = Bytes(k + 1) * Bytes(3 - k)
         /\ Modulus = Bytes(4 - k) * Bytes(k) /\ Modulus = Bytes(3 - k) * Bytes(k + 1)
<1>1. k \in Nat /\ k + 1 \in Nat /\ 3 - k \in Nat /\ 4 - k \in Nat
  OBVIOUS
<1>2. k + (4 - k) = 4 /\ (k + 1) + (3 - k) = 4 /\ (4 - k) + k = 4 /\ (3 - k) + (k + 1) = 4
  OBVIOUS
<1>3. Bytes(4) = Modulus /\ \A i, j \in Nat : Bytes(i + j) = Bytes(i) * Bytes(j)
  BY Sizes
<1>4. \A j \in Nat : Bytes(j) \in Nat \ {0}
  BY Sizes
<1>5. /\ Bytes(k + (4 - k)) = Bytes(k) * Bytes(4 - k)
      /\ Bytes((k + 1) + (3 - k)) = Bytes(k + 1) * Bytes(3 - k)
      /\ Bytes((4 - k) + k) = Bytes(4 - k) * Bytes(k)
      /\ Bytes((3 - k) + (k + 1)) = Bytes(3 - k) * Bytes(k + 1)
  BY <1>1, <1>3
<1> QED
  BY <1>1, <1>2, <1>3, <1>4, <1>5

\* The addresses of loads and stores.
LEMMA AddressFacts ==
  ASSUME RegsOK(registers), NEW i, IsInstr(i)
  PROVE  /\ Address(i) \in Word /\ ByteOf(i) \in 0..3 /\ Accessed(i) \in Word
         /\ Accessed(i) \in Nat
<1>1. Rs(i) \in Int /\ i.extra \in Int
  BY RegWord, WordNat DEF IsInstr, Rs
<1>2. Address(i) \in Word
  BY <1>1, WrapWord DEF Address
<1>3. Address(i) \in 0..(Modulus - 1) /\ Modulus \in Nat
  BY <1>2, Sizes DEF Word
<1>4. ByteOf(i) \in 0..3 /\ ByteOf(i) <= Address(i)
  BY <1>3 DEF ByteOf
<1>5. Accessed(i) \in 0..(Modulus - 1)
  BY <1>3, <1>4 DEF Accessed
<1> QED
  BY <1>2, <1>3, <1>4, <1>5 DEF Word

\* What a load merges with.
LEMMA PendingWord ==
  ASSUME RegsOK(registers), NEW i, i.rt \in GPRegs
  PROVE  Pending(i) \in Word
BY RegWord DEF Pending, Rt

\* The word that LWL makes of the word in memory and the register.
LEMMA LeftMerge ==
  ASSUME NEW k \in 0..3, NEW v \in Word, NEW p \in Word
  PROVE  /\ Wrap(v * Bytes(3 - k)) = (v % Bytes(k + 1)) * Bytes(3 - k)
         /\ Wrap(v * Bytes(3 - k)) + (p % Bytes(3 - k)) \in Word
<1> DEFINE X == Bytes(k + 1)
           Y == Bytes(3 - k)
           r == v % X
           s == p % Y
<1>1. X \in Nat \ {0} /\ Y \in Nat \ {0} /\ Modulus = X * Y /\ v \in Nat /\ p \in Nat
  BY Splits, WordNat
<1> HIDE DEF X, Y
<1>2. Wrap(v * Y) = r * Y
  BY <1>1, ShiftMod DEF Wrap
<1>3. r \in 0..(X - 1) /\ s \in 0..(Y - 1)
  BY <1>1
<1> HIDE DEF r, s
<1>4. s + r * Y \in 0..(X * Y - 1) /\ r * Y \in Nat
  BY <1>1, <1>3, AddDigit
<1>5. r * Y + s = s + r * Y
  BY <1>3, <1>4
<1> QED
  BY <1>1, <1>2, <1>4, <1>5 DEF Word, X, Y, r, s

\* The word that LWR makes of them.
LEMMA RightMerge ==
  ASSUME NEW k \in 0..3, NEW v \in Word, NEW p \in Word
  PROVE  /\ v \div Bytes(k) \in 0..(Bytes(4 - k) - 1)
         /\ (p \div Bytes(4 - k)) * Bytes(4 - k) \in Nat
         /\ (p \div Bytes(4 - k)) * Bytes(4 - k) + v \div Bytes(k) \in Word
<1> DEFINE X == Bytes(k)
           Z == Bytes(4 - k)
           h == p \div Z
           l == v \div X
<1>1. X \in Nat \ {0} /\ Z \in Nat \ {0} /\ Modulus = X * Z /\ Modulus = Z * X
  BY Splits
<1> HIDE DEF X, Z
<1>2. p \in 0..((X * Z) - 1) /\ v \in 0..((Z * X) - 1)
  BY <1>1 DEF Word
<1>3. h * Z \in Nat /\ h * Z + Z <= X * Z
  BY <1>1, <1>2, HighPart
<1>4. l \in 0..(Z - 1)
  BY <1>1, <1>2, HighPart
<1> HIDE DEF h, l
<1>5. h * Z + l \in 0..((X * Z) - 1)
  <2>1. X * Z \in Int
    BY <1>1
  <2> QED
    BY <1>1, <1>3, <1>4, <2>1
<1> QED
  BY <1>1, <1>3, <1>4, <1>5 DEF Word, X, Z, h, l

\* What is loaded is a word.
LEMMA LoadValueWord ==
  ASSUME RegsOK(registers), NEW i, IsInstr(i), i.op \in Loads,
         NEW v \in 0..(Bytes(SizeOf(i.op)) - 1), v \in Word
  PROVE  LoadValue(i, v) \in Word
<1>1. ByteOf(i) \in 0..3
  BY AddressFacts
<1>2. Pending(i) \in Word
  BY PendingWord DEF IsInstr, NoRt, Loads
<1>3. CASE i.op = "LWL"
  <2>1. LoadValue(i, v) = Wrap(v * Bytes(3 - ByteOf(i))) + (Pending(i) % Bytes(3 - ByteOf(i)))
    BY <1>3 DEF LoadValue
  <2> QED
    BY <1>1, <1>2, <2>1, LeftMerge
<1>4. CASE i.op = "LWR"
  <2>1. LoadValue(i, v) = (Pending(i) \div Bytes(4 - ByteOf(i))) * Bytes(4 - ByteOf(i))
                            + v \div Bytes(ByteOf(i))
    BY <1>4 DEF LoadValue
  <2> QED
    BY <1>1, <1>2, <2>1, RightMerge
<1>5. CASE i.op \in {"LB", "LH"}
  <2>1. LoadValue(i, v) \in {v, v + (Modulus - Bytes(SizeOf(i.op)))}
    BY <1>5 DEF LoadValue, SizeOf
  <2>2. SizeOf(i.op) \in {1, 2}
    BY <1>5 DEF SizeOf
  <2>3. /\ Modulus = Bytes(1) * Bytes(3) /\ Modulus = Bytes(2) * Bytes(2)
        /\ Bytes(1) \in Nat \ {0} /\ Bytes(2) \in Nat \ {0} /\ Bytes(3) \in Nat \ {0}
        /\ Modulus \in Nat
    BY Sizes, SizeProducts
  <2>4. \A x, y \in Nat \ {0} : x <= x * y
    OBVIOUS
  <2>5. Bytes(SizeOf(i.op)) <= Modulus /\ Bytes(SizeOf(i.op)) \in Nat
    BY <2>2, <2>3, <2>4
  <2> QED
    BY <2>1, <2>3, <2>5 DEF Word
<1>6. CASE i.op \in {"LBU", "LHU", "LW"}
  <2>1. LoadValue(i, v) = v
    BY <1>6 DEF LoadValue
  <2> QED
    BY <2>1
<1> QED
  BY <1>3, <1>4, <1>5, <1>6 DEF Loads

\* What is stored is a number.
LEMMA StoreValueInt ==
  ASSUME RegsOK(registers), NEW i, IsInstr(i), i.op \in Stores, NEW v \in Nat
  PROVE  StoreValue(i, v) \in Int
<1>1. ByteOf(i) \in 0..3
  BY AddressFacts
<1>2. Rt(i) \in Nat /\ Rt(i) \in Word
  BY RegWord, WordNat DEF IsInstr, NoRt, Stores, Rt
<1> DEFINE k == ByteOf(i)
<1>3. Bytes(k) \in Nat \ {0} /\ Bytes(k + 1) \in Nat \ {0} /\ Bytes(3 - k) \in Nat \ {0}
  BY <1>1, Splits
<1> HIDE DEF k
<1>4. (v \div Bytes(k + 1)) * Bytes(k + 1) + Rt(i) \div Bytes(3 - k) \in Int
  <2>1. v \div Bytes(k + 1) \in Int /\ Rt(i) \div Bytes(3 - k) \in Int
    BY <1>2, <1>3
  <2> QED
    BY <1>3, <2>1
<1>5. (v % Bytes(k)) + Wrap(Rt(i) * Bytes(k)) \in Int
  <2>1. Rt(i) * Bytes(k) \in Int /\ v % Bytes(k) \in Int
    BY <1>2, <1>3
  <2>2. Wrap(Rt(i) * Bytes(k)) \in Int
    BY <2>1, WrapWord, WordNat
  <2> QED
    BY <2>1, <2>2
<1>6. CASE i.op = "SWL"
  BY <1>4, <1>6 DEF StoreValue, k
<1>7. CASE i.op = "SWR"
  BY <1>5, <1>7 DEF StoreValue, k
<1>8. CASE i.op \in {"SB", "SH", "SW"}
  BY <1>2, <1>8 DEF StoreValue
<1> QED
  BY <1>6, <1>7, <1>8 DEF Stores

-----------------------------------------------------------------------------
(* The end of an instruction.                                              *)

\* last holds at most two steps.
LastOK(s) == s = <<>> \/ (\E a : s = <<a>>) \/ (\E a, b : s = <<a, b>>)

RecordOf(i) == [instr |-> i, registers |-> registers, mainMemory |-> mainMemory, trap |-> trap']

\* The step is the last one, and the one before it is what was the last one.
Recorded(i) ==
  /\ steps' = steps + 1
  /\ LastOK(last') /\ last' # <<>> /\ Len(last') <= 2 /\ Done' = RecordOf(i)
  /\ Len(last') = 2 => last # <<>> /\ last'[1] = Done /\ last'[2] = RecordOf(i)

LEMMA TwoSteps ==
  ASSUME NEW a, NEW b
  PROVE  <<a>> \o <<b>> = <<a, b>>
<1> DEFINE S == {a, b}
           s == <<a>> \o <<b>>
<1>1. <<a>> \in Seq(S) /\ <<b>> \in Seq(S) /\ Len(<<a>>) = 1 /\ Len(<<b>>) = 1
  OBVIOUS
<1>2. s \in Seq(S) /\ Len(s) = 2 /\ s[1] = a /\ s[2] = b
  BY <1>1
<1> DEFINE t == <<a, b>>
<1>3. t \in Seq(S) /\ Len(t) = 2 /\ t[1] = a /\ t[2] = b
  OBVIOUS
<1> HIDE DEF s, t, S
<1>4. Len(s) = Len(t) /\ \A k \in 1..Len(s) : s[k] = t[k]
  BY <1>2, <1>3
<1>5. s = t
  BY <1>2, <1>3, <1>4, SeqEqual
<1> QED
  BY <1>5 DEF s, t

LEMMA RecordStep ==
  ASSUME LastOK(last), NEW i, Record(i)
  PROVE  Recorded(i)
<1> DEFINE r == RecordOf(i)
<1>1. /\ steps' = steps + 1
      /\ last' = (IF Len(last) = 2 THEN <<last[2]>> ELSE last) \o <<r>>
  BY DEF Record, RecordOf
<1> HIDE DEF r
<1>2. CASE last = <<>>
  <2>1. last' = <<r>>
    BY <1>1, <1>2
  <2> QED
    BY <1>1, <2>1 DEF Recorded, LastOK, Done, r
<1>3. ASSUME NEW a, last = <<a>> PROVE Recorded(i)
  <2>1. last' = <<a, r>>
    <3>1. Len(last) = 1
      BY <1>3
    <3>2. last' = <<a>> \o <<r>>
      BY <1>1, <1>3, <3>1
    <3> QED
      BY <3>2, TwoSteps
  <2>2. LastOK(last')
    BY <2>1, Zenon DEF LastOK
  <2>3. last' # <<>> /\ Len(last') = 2 /\ last'[1] = a /\ last'[2] = r
    BY <2>1
  <2>4. last # <<>> /\ Done = a
    BY <1>3 DEF Done
  <2>5. Done' = r
    BY <2>3 DEF Done
  <2> QED
    BY <1>1, <2>2, <2>3, <2>4, <2>5 DEF Recorded, r
<1>4. ASSUME NEW a, NEW b, last = <<a, b>> PROVE Recorded(i)
  <2>1. last' = <<b, r>>
    <3>1. Len(last) = 2 /\ last[2] = b
      BY <1>4
    <3>2. last' = <<b>> \o <<r>>
      BY <1>1, <3>1
    <3> QED
      BY <3>2, TwoSteps
  <2>2. LastOK(last')
    BY <2>1, Zenon DEF LastOK
  <2>3. last' # <<>> /\ Len(last') = 2 /\ last'[1] = b /\ last'[2] = r
    BY <2>1
  <2>4. last # <<>> /\ Done = b
    BY <1>4 DEF Done
  <2>5. Done' = r
    BY <2>3 DEF Done
  <2> QED
    BY <1>1, <2>2, <2>3, <2>4, <2>5 DEF Recorded, r
<1> QED
  BY <1>2, <1>3, <1>4 DEF LastOK

\* The general registers after a delayed load.
Arrived(new, regs) ==
  /\ new[0] = 0
  /\ \A r \in GPRegs \ {0} : new[r] = IF r = regs[LoadReg] THEN regs[LoadValueReg] ELSE regs[r]

LEMMA DelayedLoadFacts ==
  ASSUME NEW regs, RegsOK(regs), NEW l \in GPRegs, NEW v \in Word
  PROVE  /\ RegsOK(DelayedLoad(regs, l, v)) /\ Arrived(DelayedLoad(regs, l, v), regs)
         /\ DelayedLoad(regs, l, v)[LoadReg] = l /\ DelayedLoad(regs, l, v)[LoadValueReg] = v
         /\ \A r \in {4, 5, 6, 7, 8, 11} : DelayedLoad(regs, l, v)[r] = regs[r]
<1> DEFINE d == [regs EXCEPT ![regs[LoadReg]] = regs[LoadValueReg]]
           e == DelayedLoad(regs, l, v)
<1>1. e = [d EXCEPT ![9] = l, ![10] = v, ![0] = 0]
  BY RegNumbers DEF DelayedLoad
<1>2. regs \in [0..11 -> Word] /\ regs[9] \in 0..3 /\ regs[10] \in Word /\ l \in 0..3 /\ l \in Word
      /\ 0 \in Word
  <2>1. 0..3 \subseteq Word
    BY Sizes, SizeProducts DEF Word
  <2> QED
    BY <2>1, RegNumbers DEF RegsOK
<1>3. d \in [0..11 -> Word] /\ \A r \in 0..11 : d[r] = IF r = regs[9] THEN regs[10] ELSE regs[r]
  BY <1>2, RegNumbers
<1> HIDE DEF d, e
<1>4. e \in [0..11 -> Word] /\ e[9] = l /\ e[10] = v /\ e[0] = 0
      /\ \A r \in 0..11 : r # 9 /\ r # 10 /\ r # 0 => e[r] = d[r]
  BY <1>1, <1>2, <1>3
<1>5. \A r \in (0..3) \ {0} : e[r] = IF r = regs[9] THEN regs[10] ELSE regs[r]
  BY <1>3, <1>4
<1>6. \A r \in {4, 5, 6, 7, 8, 11} : e[r] = regs[r]
  BY <1>2, <1>3, <1>4
<1> QED
  BY <1>2, <1>4, <1>5, <1>6, RegNumbers DEF RegsOK, Arrived, e

\* The registers after an instruction that succeeded.
Completed(new, regs, l, v, pc) ==
  /\ RegsOK(new) /\ Arrived(new, regs)
  /\ new[LoadReg] = l /\ new[LoadValueReg] = v /\ new[HiReg] = regs[HiReg] /\ new[LoReg] = regs[LoReg]
  /\ new[PCReg] = regs[NextPCReg] /\ new[NextPCReg] = pc

LEMMA CompleteFacts ==
  ASSUME LastOK(last), NEW i, NEW regs, RegsOK(regs), NEW load, load[1] \in GPRegs, load[2] \in Word,
         NEW pc \in Word, Complete(i, regs, load, pc)
  PROVE  /\ Completed(registers', regs, load[1], load[2], pc)
         /\ trap' = "NoException" /\ Recorded(i)
<1> DEFINE d == DelayedLoad(regs, load[1], load[2])
<1>1. /\ registers' = [d EXCEPT ![8] = d[6], ![6] = d[7], ![7] = pc]
      /\ trap' = "NoException" /\ Record(i)
  BY RegNumbers DEF Complete
<1>2. /\ RegsOK(d) /\ Arrived(d, regs) /\ d[LoadReg] = load[1] /\ d[LoadValueReg] = load[2]
      /\ \A r \in {4, 5, 6, 7, 8, 11} : d[r] = regs[r]
  BY DelayedLoadFacts
<1> HIDE DEF d
<1>3. d \in [0..11 -> Word] /\ d[9] = load[1] /\ d[9] \in 0..3 /\ d[10] = load[2]
  BY <1>2, RegNumbers DEF RegsOK
<1>4. /\ registers' \in [0..11 -> Word] /\ registers'[6] = d[7] /\ registers'[7] = pc
      /\ \A r \in 0..11 : r # 6 /\ r # 7 /\ r # 8 => registers'[r] = d[r]
  BY <1>1, <1>3
<1>5. RegsOK(registers')
  BY <1>3, <1>4, RegNumbers DEF RegsOK
<1>6. Arrived(registers', regs)
  <2>1. \A r \in 0..3 : registers'[r] = d[r]
    BY <1>4
  <2> QED
    BY <1>2, <2>1, RegNumbers DEF Arrived
<1>7. Completed(registers', regs, load[1], load[2], pc)
  <2>1. registers'[9] = d[9] /\ registers'[10] = d[10] /\ registers'[4] = d[4] /\ registers'[5] = d[5]
    BY <1>4
  <2> QED
    BY <1>2, <1>3, <1>4, <1>5, <1>6, <2>1, RegNumbers DEF Completed
<1> QED
  BY <1>1, <1>7, RecordStep

\* The registers after one that raised an exception.
Raised(new, regs) ==
  /\ RegsOK(new) /\ Arrived(new, regs) /\ new[LoadReg] = 0
  /\ \A r \in {4, 5, 6, 7} : new[r] = regs[r]

LEMMA RaisedFacts ==
  ASSUME RegsOK(registers), NEW bad \in Word
  PROVE  /\ Raised(DelayedLoad([registers EXCEPT ![BadVAddrReg] = bad], 0, 0), registers)
<1> DEFINE b == [registers EXCEPT ![11] = bad]
           d == DelayedLoad(b, 0, 0)
<1>1. d = DelayedLoad([registers EXCEPT ![BadVAddrReg] = bad], 0, 0)
  BY RegNumbers
<1>2. registers \in [0..11 -> Word] /\ registers[9] \in 0..3
  BY RegNumbers DEF RegsOK
<1>3. b \in [0..11 -> Word] /\ \A r \in 0..10 : b[r] = registers[r]
  BY <1>2
<1> HIDE DEF b
<1>4. RegsOK(b)
  BY <1>2, <1>3, RegNumbers DEF RegsOK
<1>5. 0 \in GPRegs /\ 0 \in Word
  BY RegNumbers, SmallWords
<1>6. /\ RegsOK(d) /\ Arrived(d, b) /\ d[LoadReg] = 0
      /\ \A r \in {4, 5, 6, 7, 8, 11} : d[r] = b[r]
  BY <1>4, <1>5, DelayedLoadFacts
<1> HIDE DEF d
<1>7. Arrived(d, registers)
  BY <1>3, <1>6, RegNumbers DEF Arrived
<1>8. \A r \in {4, 5, 6, 7} : d[r] = registers[r]
  BY <1>3, <1>6
<1> QED
  BY <1>1, <1>6, <1>7, <1>8 DEF Raised

LEMMA RaiseFacts ==
  ASSUME RegsOK(registers), LastOK(last), NEW i, NEW which, NEW bad \in Word,
         RaiseException(i, which, bad)
  PROVE  Raised(registers', registers) /\ trap' = which /\ Recorded(i)
BY RaisedFacts, RecordStep DEF RaiseException

\* The registers after a system call.
Returned(new, regs) ==
  /\ RegsOK(new) /\ new[0] = 0 /\ new[LoadReg] = 0
  /\ \A r \in GPRegs \ {0, 2} : new[r] = IF r = regs[LoadReg] THEN regs[LoadValueReg] ELSE regs[r]

LEMMA SystemCallFacts ==
  ASSUME RegsOK(registers), LastOK(last), NEW i, SystemCall(i)
  PROVE  Returned(registers', registers) /\ trap' = "SyscallException" /\ Recorded(i)
<1> DEFINE d == DelayedLoad([registers EXCEPT ![BadVAddrReg] = 0], 0, 0)
<1>1. PICK result \in Results : registers' = IncreasePC([d EXCEPT ![2] = result])
  BY DEF SystemCall
<1>2. Raised(d, registers) /\ result \in Word
  BY SmallWords, RaisedFacts, MachineAssumption
<1> DEFINE e == [d EXCEPT ![2] = result]
<1> HIDE DEF d
<1>3. d \in [0..11 -> Word] /\ d[9] = 0 /\ d[0] = 0
  BY <1>2, RegNumbers DEF Raised, RegsOK, Arrived
<1>4. e \in [0..11 -> Word] /\ \A r \in 0..11 : r # 2 => e[r] = d[r]
  BY <1>2, <1>3
<1> HIDE DEF e
<1>5. registers' = [e EXCEPT ![8] = e[6], ![6] = Wrap(e[6] + 4), ![7] = Wrap(e[6] + 8)]
  BY <1>1, RegNumbers DEF IncreasePC, e
<1>6. Wrap(e[6] + 4) \in Word /\ Wrap(e[6] + 8) \in Word /\ e[6] \in Word
  <2>1. e[6] \in Word
    BY <1>4
  <2>2. e[6] \in Int
    BY <2>1, WordNat
  <2> QED
    BY <2>1, <2>2, WrapWord
<1>7. /\ registers' \in [0..11 -> Word]
      /\ \A r \in 0..11 : r # 6 /\ r # 7 /\ r # 8 => registers'[r] = e[r]
  BY <1>4, <1>5, <1>6
<1>8. RegsOK(registers') /\ registers'[0] = 0 /\ registers'[LoadReg] = 0
  BY <1>3, <1>4, <1>7, RegNumbers DEF RegsOK
<1>9. \A r \in GPRegs \ {0, 2} :
        registers'[r] = IF r = registers[LoadReg] THEN registers[LoadValueReg] ELSE registers[r]
  <2>1. \A r \in GPRegs \ {0, 2} : registers'[r] = d[r]
    BY <1>4, <1>7, RegNumbers
  <2> QED
    BY <1>2, <2>1 DEF Raised, Arrived
<1> QED
  BY <1>8, <1>9, RecordStep DEF SystemCall, Returned

-----------------------------------------------------------------------------
(* The page table.                                                         *)

\* The dirty bit of a page is set only when it was written, and it may be.
BitsOK(table) ==
  \A v \in 1..Len(PageTable) : table[v].dirty => table[v].use /\ ~PageTable[v].readOnly

\* A page that is not dirty is as it was.
ContentOK(table, mem) ==
  \A v \in 1..Len(PageTable) :
    PageTable[v].valid /\ PageTable[v].physicalPage < NumPhysPages /\ ~table[v].dirty =>
      \A o \in 0..(PageSize - 1) :
        mem[PageTable[v].physicalPage * PageSize + o]
          = FirstByte(PageTable[v].physicalPage * PageSize + o)

\* Dirty bits are never cleared.
Grows(table, new) ==
  /\ TableOf(new) /\ BitsOK(new)
  /\ \A v \in 1..Len(PageTable) : table[v].dirty => new[v].dirty

\* Setting the bits of an entry.
Marked(e, w) == [[e EXCEPT !.use = TRUE] EXCEPT !.dirty = e.dirty \/ w]

LEMMA MarkedEntry ==
  ASSUME NEW e \in Entry, NEW w \in BOOLEAN, NEW f, f = Marked(e, w)
  PROVE  /\ f \in Entry /\ f.physicalPage = e.physicalPage /\ f.valid = e.valid
         /\ f.readOnly = e.readOnly /\ f.use /\ (f.dirty <=> e.dirty \/ w)
<1>1. e = [physicalPage |-> e.physicalPage, valid |-> e.valid, readOnly |-> e.readOnly,
           use |-> e.use, dirty |-> e.dirty]
      /\ e.physicalPage \in Nat /\ e.valid \in BOOLEAN /\ e.readOnly \in BOOLEAN
      /\ e.use \in BOOLEAN /\ e.dirty \in BOOLEAN
  BY Zenon DEF Entry
<1>2. f = [physicalPage |-> e.physicalPage, valid |-> e.valid, readOnly |-> e.readOnly,
           use |-> TRUE, dirty |-> e.dirty \/ w]
  BY <1>1 DEF Marked
<1>3. (e.dirty \/ w) \in BOOLEAN /\ TRUE \in BOOLEAN
  BY <1>1
<1>4. f \in Entry
  BY <1>1, <1>2, <1>3 DEF Entry
<1>5. /\ f.physicalPage = e.physicalPage /\ f.valid = e.valid
      /\ f.readOnly = e.readOnly /\ f.use /\ (f.dirty <=> e.dirty \/ w)
  BY <1>1, <1>2
<1> QED
  BY <1>4, <1>5

LEMMA UsedFacts ==
  ASSUME NEW table, TableOf(table), NEW addr, Page(addr) \in 1..Len(PageTable), NEW w \in BOOLEAN
  PROVE  /\ TableOf(Used(table, addr, w))
         /\ \A v \in 1..Len(PageTable) :
              /\ v # Page(addr) => Used(table, addr, w)[v] = table[v]
              /\ v = Page(addr) => /\ Used(table, addr, w)[v].use
                                   /\ (Used(table, addr, w)[v].dirty <=> table[v].dirty \/ w)
<1> DEFINE k == Page(addr)
           n == Used(table, addr, w)
           e == table[k]
           f == Marked(e, w)
<1>1. table \in Seq(Entry) /\ Len(table) = Len(PageTable) /\ Len(PageTable) \in Nat
  BY MachineAssumption DEF TableOf
<1>2. e \in Entry /\ DOMAIN table = 1..Len(PageTable)
  BY <1>1
<1>3. n = [table EXCEPT ![k] = f]
  <2>1. n = [table EXCEPT ![k].use = TRUE, ![k].dirty = @ \/ w]
    BY DEF Used, Page
  <2>2. [table EXCEPT ![k].use = TRUE][k] = [e EXCEPT !.use = TRUE]
    BY <1>2
  <2>3. [e EXCEPT !.use = TRUE].dirty = e.dirty
    BY <1>2 DEF Entry
  <2> QED
    BY <1>2, <2>1, <2>2, <2>3 DEF Marked
<1>4. /\ f \in Entry /\ f.physicalPage = e.physicalPage /\ f.valid = e.valid
      /\ f.readOnly = e.readOnly /\ f.use /\ (f.dirty <=> e.dirty \/ w)
  <2>1. f = Marked(e, w)
    OBVIOUS
  <2> HIDE DEF f, e
  <2> QED
    BY <1>2, <2>1, MarkedEntry, Zenon
<1> HIDE DEF f, n, k
<1>5. n \in Seq(Entry) /\ Len(n) = Len(PageTable)
      /\ \A v \in 1..Len(PageTable) : n[v] = IF v = k THEN f ELSE table[v]
  <2>1. k \in 1..Len(PageTable)
    BY DEF k
  <2> QED
    BY <1>1, <1>2, <1>3, <1>4, <2>1
<1>6. \A v \in 1..Len(PageTable) :
        /\ n[v].physicalPage = PageTable[v].physicalPage /\ n[v].valid = PageTable[v].valid
        /\ n[v].readOnly = PageTable[v].readOnly
  <2>1. \A v \in 1..Len(PageTable) :
          /\ table[v].physicalPage = PageTable[v].physicalPage
          /\ table[v].valid = PageTable[v].valid /\ table[v].readOnly = PageTable[v].readOnly
    BY DEF TableOf
  <2>2. n[k] = f /\ k \in 1..Len(PageTable)
    BY <1>5 DEF k
  <2>3. ASSUME NEW v \in 1..Len(PageTable)
        PROVE  n[v].physicalPage = table[v].physicalPage /\ n[v].valid = table[v].valid
               /\ n[v].readOnly = table[v].readOnly
    <3>1. CASE v = k
      BY <1>4, <2>2, <3>1, Zenon
    <3>2. CASE v # k
      <4>1. n[v] = table[v]
        BY <1>5, <3>2
      <4> QED
        BY <4>1, Zenon
    <3> QED
      BY <3>1, <3>2
  <2> QED
    BY <2>1, <2>3, Zenon
<1>7. TableOf(n)
  BY <1>5, <1>6 DEF TableOf
<1>8. n[k] = f /\ \A v \in 1..Len(PageTable) : v # k => n[v] = table[v]
  BY <1>5 DEF k
<1> QED
  BY <1>4, <1>7, <1>8, Zenon DEF n, k

LEMMA ReadUse ==
  ASSUME NEW table, TableOf(table), BitsOK(table), NEW addr, Page(addr) \in 1..Len(PageTable)
  PROVE  Grows(table, Used(table, addr, FALSE))
<1> DEFINE n == Used(table, addr, FALSE)
           k == Page(addr)
<1>1. /\ TableOf(n)
      /\ \A v \in 1..Len(PageTable) : /\ v # k => n[v] = table[v]
                                      /\ v = k => n[v].use /\ (n[v].dirty <=> table[v].dirty \/ FALSE)
  BY UsedFacts
<1> HIDE DEF n, k
<1>2. ASSUME NEW v \in 1..Len(PageTable)
      PROVE  /\ n[v].dirty => n[v].use /\ ~PageTable[v].readOnly
             /\ table[v].dirty => n[v].dirty
  BY <1>1 DEF BitsOK
<1> QED
  BY <1>1, <1>2 DEF Grows, BitsOK, n

LEMMA WriteUse ==
  ASSUME NEW table, TableOf(table), BitsOK(table), NEW addr, Page(addr) \in 1..Len(PageTable),
         ~PageTable[Page(addr)].readOnly
  PROVE  Grows(table, Used(table, addr, TRUE)) /\ Used(table, addr, TRUE)[Page(addr)].dirty
<1> DEFINE n == Used(table, addr, TRUE)
           k == Page(addr)
<1>1. /\ TableOf(n)
      /\ \A v \in 1..Len(PageTable) : /\ v # k => n[v] = table[v]
                                      /\ v = k => n[v].use /\ (n[v].dirty <=> table[v].dirty \/ TRUE)
  BY UsedFacts
<1>2. k \in 1..Len(PageTable) /\ ~PageTable[k].readOnly
  OBVIOUS
<1> HIDE DEF n, k
<1>3. ASSUME NEW v \in 1..Len(PageTable)
      PROVE  /\ n[v].dirty => n[v].use /\ ~PageTable[v].readOnly
             /\ table[v].dirty => n[v].dirty
  BY <1>1, <1>2 DEF BitsOK
<1> QED
  BY <1>1, <1>2, <1>3 DEF Grows, BitsOK, n, k

LEMMA GrowsTwice ==
  ASSUME NEW t, NEW u, NEW v, Grows(t, u), Grows(u, v)
  PROVE  Grows(t, v)
BY DEF Grows

\* Pages stay as they were when memory does.
LEMMA ContentKept ==
  ASSUME NEW table, NEW new, NEW mem, ContentOK(table, mem), Grows(table, new)
  PROVE  ContentOK(new, mem)
BY DEF ContentOK, Grows

\* A page that is not dirty is not written: no other page has its frame.
LEMMA ContentWritten ==
  ASSUME TableOf(pageTable), MemOK(mainMemory), ContentOK(pageTable, mainMemory),
         NEW new, Grows(pageTable, new),
         NEW addr \in Nat, NEW size \in {1, 2, 4}, Maps(addr, size), NEW value \in Int,
         new[Page(addr)].dirty
  PROVE  ContentOK(new, WriteMem(addr, size, value))
<1> SUFFICES ASSUME NEW v \in 1..Len(PageTable), PageTable[v].valid,
                    PageTable[v].physicalPage < NumPhysPages, ~new[v].dirty,
                    NEW o \in 0..(PageSize - 1)
             PROVE  WriteMem(addr, size, value)[PageTable[v].physicalPage * PageSize + o]
                      = FirstByte(PageTable[v].physicalPage * PageSize + o)
  BY DEF ContentOK
<1> DEFINE p == PageTable[v].physicalPage
           a == p * PageSize + o
           f == Frame(addr)
<1>1. Page(addr) \in 1..Len(PageTable) /\ PageTable[Page(addr)].valid
      /\ PageTable[Page(addr)].physicalPage < NumPhysPages
  BY DEF Maps
<1>2. p # f
  BY <1>1, MachineAssumption DEF Frame
<1>3. p \in Nat /\ f \in Nat /\ PageSize \in Nat \ {0} /\ NumPhysPages \in Nat
  <2>1. PageTable[v] \in Entry /\ PageTable[Page(addr)] \in Entry
    BY <1>1, MachineAssumption
  <2> QED
    BY <2>1, MachineAssumption DEF Entry, Frame
<1>4. mainMemory[a] = FirstByte(a)
  BY DEF ContentOK, Grows
<1>5. p < NumPhysPages
  OBVIOUS
<1> HIDE DEF p, f
<1>6. a \in 0..(NumPhysPages * PageSize - 1)
  <2>1. p * PageSize + PageSize <= NumPhysPages * PageSize /\ p * PageSize \in Nat
        /\ NumPhysPages * PageSize \in Nat
    BY <1>3, <1>5
  <2> QED
    BY <1>3, <2>1
<1>7. a \notin (f * PageSize)..((f * PageSize + PageSize) - 1)
  <2>1. p * PageSize \in Nat /\ f * PageSize \in Nat
    BY <1>3
  <2>2. CASE p < f
    <3>1. p * PageSize + PageSize <= f * PageSize
      BY <1>3, <2>2
    <3> QED
      BY <1>3, <2>1, <3>1
  <2>3. CASE p > f
    <3>1. f * PageSize + PageSize <= p * PageSize
      BY <1>3, <2>3
    <3> QED
      BY <1>3, <2>1, <3>1
  <2> QED
    BY <1>2, <1>3, <2>2, <2>3
<1> HIDE DEF a
<1>8. WriteMem(addr, size, value)[a] = mainMemory[a]
  BY <1>6, <1>7, WriteMemOK DEF f
<1> QED
  BY <1>4, <1>8 DEF a, p

-----------------------------------------------------------------------------
(* The steps.                                                              *)

\* What holds in every state, apart from the steps that led to it.
StateOK ==
  /\ RegsOK(registers) /\ registers[0] = 0 /\ MemOK(mainMemory)
  /\ steps \in 0..MaxSteps /\ LastOK(last)
  /\ TableOf(pageTable) /\ BitsOK(pageTable) /\ ContentOK(pageTable, mainMemory)

\* The page table and memory after a step.
Stored == MemOK(mainMemory') /\ Grows(pageTable, pageTable') /\ ContentOK(pageTable', mainMemory')

\* A step that raises an exception.
Faulted(i) ==
  /\ trap' \in Faults /\ Raised(registers', registers) /\ mainMemory' = mainMemory
  /\ Recorded(i) /\ Stored

\* A step that succeeds.
Succeeded(i, regs, l, v, pc) ==
  /\ trap' = "NoException" /\ Completed(registers', regs, l, v, pc) /\ Recorded(i) /\ Stored

\* The fetch of an instruction.
LEMMA FetchFacts ==
  ASSUME StateOK, Fetched
  PROVE  Maps(registers[PCReg], 4) /\ registers[PCReg] \in Nat /\ Grows(pageTable, FetchTable)
         /\ steps < MaxSteps
<1>1. registers[PCReg] \in Nat /\ 4 \in {1, 2, 4} /\ FALSE \in BOOLEAN
  BY RegWord, WordNat DEF StateOK
<1>2. Exception(registers[PCReg], 4, FALSE) = "NoException" /\ steps < MaxSteps
  BY Zenon DEF Fetched, Running
<1>3. TableOf(pageTable) /\ BitsOK(pageTable)
  BY DEF StateOK
<1>4. Maps(registers[PCReg], 4)
  BY <1>1, <1>2, <1>3, Translates, Zenon
<1>5. Page(registers[PCReg]) \in 1..Len(PageTable)
  BY <1>4 DEF Maps
<1>6. Grows(pageTable, FetchTable)
  BY <1>3, <1>5, ReadUse, Zenon DEF FetchTable
<1> QED
  BY <1>1, <1>2, <1>4, <1>6

\* The steps that leave memory alone.
LEMMA FetchStored ==
  ASSUME StateOK, NEW table, Grows(pageTable, table), pageTable' = table, mainMemory' = mainMemory
  PROVE  Stored
BY ContentKept DEF StateOK, Stored

LEMMA FetchFaultStep ==
  ASSUME StateOK, FetchFault
  PROVE  Faulted([op |-> "fetch"]) /\ steps < MaxSteps
<1> DEFINE pc == registers[PCReg]
           e == Exception(pc, 4, FALSE)
<1>1. pc \in Word /\ pc \in Nat /\ 4 \in {1, 2, 4} /\ FALSE \in BOOLEAN /\ TableOf(pageTable)
      /\ RegsOK(registers) /\ LastOK(last)
  BY RegWord, WordNat DEF StateOK
<1>2. /\ e # "NoException" /\ RaiseException([op |-> "fetch"], e, pc)
      /\ UNCHANGED <<mainMemory, pageTable>> /\ steps < MaxSteps
  BY Zenon DEF FetchFault, Running
<1>3. e \in Faults
  BY <1>1, <1>2, Translates, Zenon
<1> HIDE DEF e, pc
<1>4. Raised(registers', registers) /\ trap' = e /\ Recorded([op |-> "fetch"])
  BY <1>1, <1>2, RaiseFacts
<1>5. Grows(pageTable, pageTable)
  BY DEF Grows, StateOK
<1>6. pageTable' = pageTable /\ mainMemory' = mainMemory
  BY <1>2
<1>7. Stored
  BY <1>5, <1>6, FetchStored
<1> QED
  BY <1>2, <1>3, <1>4, <1>6, <1>7 DEF Faulted

\* The register that Compute writes.
Written(i) == [registers EXCEPT ![IF i.op \in ToRd THEN i.rd ELSE i.rt] = Value(i)]

LEMMA ComputeStep ==
  ASSUME StateOK, Fetched, NEW i, IsInstr(i), Compute(i)
  PROVE  /\ (IF i.op \in ToRd THEN i.rd ELSE i.rt) \in GPRegs /\ Value(i) \in Word
         /\ Overflow(i) => Faulted(i) /\ trap' = "OverflowException"
         /\ ~Overflow(i) => Succeeded(i, Written(i), 0, 0, PcAfter)
<1>1. RegsOK(registers) /\ LastOK(last) /\ i.op \in ToRd \cup ToRt
  BY DEF StateOK, Compute
<1>2. PcAfter \in Word /\ Value(i) \in Word
  BY <1>1, PcAfterWord, ValueWord
<1>3. (IF i.op \in ToRd THEN i.rd ELSE i.rt) \in GPRegs
  BY <1>1 DEF IsInstr, NoRt, ToRd, ToRt
<1>4. RegsOK(Written(i))
  BY <1>1, <1>2, <1>3, SetRegister DEF Written
<1>5. Stored /\ mainMemory' = mainMemory
  BY FetchFacts, FetchStored DEF Compute
<1>6. ASSUME Overflow(i) PROVE Faulted(i) /\ trap' = "OverflowException"
  <2>1. RaiseException(i, "OverflowException", 0) /\ 0 \in Word
    BY <1>6, SmallWords DEF Compute
  <2>2. Raised(registers', registers) /\ trap' = "OverflowException" /\ Recorded(i)
    BY <1>1, <2>1, RaiseFacts
  <2> QED
    BY <1>5, <2>2 DEF Faulted, Faults
<1>7. ASSUME ~Overflow(i) PROVE Succeeded(i, Written(i), 0, 0, PcAfter)
  <2>1. Complete(i, Written(i), NoLoad, PcAfter)
    BY <1>7 DEF Compute, Written
  <2>2. NoLoad[1] = 0 /\ NoLoad[2] = 0 /\ 0 \in GPRegs /\ 0 \in Word
    BY SmallWords, RegNumbers DEF NoLoad
  <2>3. Completed(registers', Written(i), NoLoad[1], NoLoad[2], PcAfter)
        /\ trap' = "NoException" /\ Recorded(i)
    BY <1>1, <1>2, <1>4, <2>1, <2>2, CompleteFacts
  <2> QED
    BY <1>5, <2>2, <2>3 DEF Succeeded
<1> QED
  BY <1>2, <1>3, <1>6, <1>7

\* The registers that MultDiv writes.
Divided(i) == [registers EXCEPT ![HiReg] = HiLo(i)[1], ![LoReg] = HiLo(i)[2]]

LEMMA MultDivStep ==
  ASSUME StateOK, Fetched, NEW i, IsInstr(i), MultDiv(i)
  PROVE  /\ HostFault(i) => registers' = registers /\ trap' = "HostFault" /\ Recorded(i) /\ Stored
                            /\ mainMemory' = mainMemory
         /\ ~HostFault(i) => /\ Succeeded(i, Divided(i), 0, 0, PcAfter)
                             /\ Divided(i)[HiReg] = HiLo(i)[1] /\ Divided(i)[LoReg] = HiLo(i)[2]
                             /\ \A r \in 0..3 : Divided(i)[r] = registers[r]
                             /\ \A r \in 6..11 : Divided(i)[r] = registers[r]
<1>1. RegsOK(registers) /\ LastOK(last)
      /\ i.op \in {"DIV", "DIVU", "MULT", "MULTU", "MTHI", "MTLO"}
  BY DEF StateOK, MultDiv
<1>2. Stored /\ mainMemory' = mainMemory
  BY FetchFacts, FetchStored DEF MultDiv
<1>3. ASSUME HostFault(i) PROVE registers' = registers /\ trap' = "HostFault" /\ Recorded(i)
  BY <1>1, <1>3, RecordStep DEF MultDiv
<1>4. ASSUME ~HostFault(i)
      PROVE  /\ Succeeded(i, Divided(i), 0, 0, PcAfter)
             /\ Divided(i)[HiReg] = HiLo(i)[1] /\ Divided(i)[LoReg] = HiLo(i)[2]
             /\ \A r \in 0..3 : Divided(i)[r] = registers[r]
             /\ \A r \in 6..11 : Divided(i)[r] = registers[r]
  <2>1. HiLo(i)[1] \in Word /\ HiLo(i)[2] \in Word /\ PcAfter \in Word
    BY <1>1, <1>4, HiLoWord, PcAfterWord
  <2>2. Complete(i, Divided(i), NoLoad, PcAfter)
    BY <1>4 DEF MultDiv, Divided
  <2>3. NoLoad[1] = 0 /\ NoLoad[2] = 0 /\ 0 \in GPRegs /\ 0 \in Word
    BY SmallWords, RegNumbers DEF NoLoad
  <2>4. registers \in [0..11 -> Word] /\ registers[9] \in 0..3
    BY <1>1, RegNumbers DEF RegsOK
  <2>5. Divided(i) = [registers EXCEPT ![4] = HiLo(i)[1], ![5] = HiLo(i)[2]]
    BY RegNumbers DEF Divided
  <2>6. /\ Divided(i) \in [0..11 -> Word] /\ Divided(i)[4] = HiLo(i)[1] /\ Divided(i)[5] = HiLo(i)[2]
        /\ \A r \in 0..11 : r # 4 /\ r # 5 => Divided(i)[r] = registers[r]
    BY <2>1, <2>4, <2>5
  <2>7. RegsOK(Divided(i))
    BY <2>4, <2>6, RegNumbers DEF RegsOK
  <2>8. Completed(registers', Divided(i), NoLoad[1], NoLoad[2], PcAfter)
        /\ trap' = "NoException" /\ Recorded(i)
    BY <1>1, <2>1, <2>2, <2>3, <2>7, CompleteFacts
  <2>9. Succeeded(i, Divided(i), 0, 0, PcAfter)
    BY <1>2, <2>3, <2>8 DEF Succeeded
  <2> QED
    BY <2>6, <2>9, RegNumbers
<1> QED
  BY <1>2, <1>3, <1>4

LEMMA JumpStep ==
  ASSUME StateOK, Fetched, NEW i, IsInstr(i), Jump(i)
  PROVE  Succeeded(i, Linked(i), 0, 0, Target(i)) /\ Target(i) \in Word
<1>1. RegsOK(registers) /\ LastOK(last) /\ i.op \in Branches \cup Jumps
      /\ Complete(i, Linked(i), NoLoad, Target(i))
  BY DEF StateOK, Jump
<1>2. Target(i) \in Word /\ RegsOK(Linked(i))
  BY <1>1, TargetWord, LinkedOK
<1>3. Stored
  BY FetchFacts, FetchStored DEF Jump
<1>4. NoLoad[1] = 0 /\ NoLoad[2] = 0 /\ 0 \in GPRegs /\ 0 \in Word
  BY SmallWords, RegNumbers DEF NoLoad
<1>5. Completed(registers', Linked(i), NoLoad[1], NoLoad[2], Target(i))
      /\ trap' = "NoException" /\ Recorded(i)
  BY <1>1, <1>2, <1>4, CompleteFacts
<1> QED
  BY <1>2, <1>3, <1>4, <1>5 DEF Succeeded

\* What a load reads.
Loaded(i) == ReadMem(mainMemory, Accessed(i), SizeOf(i.op))

LEMMA SizeOfIs == \A op : SizeOf(op) \in {1, 2, 4}
BY DEF SizeOf

LEMMA LoadStep ==
  ASSUME StateOK, Fetched, NEW i, IsInstr(i), LoadInstr(i)
  PROVE  \/ Faulted(i)
         \/ /\ Succeeded(i, registers, i.rt, LoadValue(i, Loaded(i)), PcAfter)
            /\ Maps(Accessed(i), SizeOf(i.op)) /\ mainMemory' = mainMemory
<1> DEFINE addr == Accessed(i)
           e == Exception(addr, SizeOf(i.op), FALSE)
           v == LoadValue(i, Loaded(i))
<1>1. RegsOK(registers) /\ LastOK(last) /\ i.op \in Loads /\ TableOf(pageTable)
      /\ MemOK(mainMemory) /\ mainMemory' = mainMemory
  BY DEF StateOK, LoadInstr
<1>2. addr \in Word /\ addr \in Nat /\ SizeOf(i.op) \in {1, 2, 4}
  BY <1>1, AddressFacts, SizeOfIs
<1>3. /\ e \in Faults \cup {"NoException"}
      /\ e = "NoException" => Maps(addr, SizeOf(i.op))
  <2>1. FALSE \in BOOLEAN
    OBVIOUS
  <2> QED
    BY <1>1, <1>2, <2>1, Translates, Zenon
<1>4. CASE e # "NoException"
  <2>1. RaiseException(i, e, addr) /\ pageTable' = FetchTable
    BY <1>4 DEF LoadInstr
  <2> HIDE DEF e
  <2>2. Raised(registers', registers) /\ trap' = e /\ Recorded(i)
    BY <1>1, <1>2, <2>1, RaiseFacts
  <2>3. Stored
    BY <1>1, <2>1, FetchFacts, FetchStored
  <2> QED
    BY <1>1, <1>3, <1>4, <2>2, <2>3 DEF Faulted
<1>5. CASE e = "NoException"
  <2>1. Complete(i, registers, <<i.rt, v>>, PcAfter) /\ pageTable' = Used(FetchTable, addr, FALSE)
    BY <1>5 DEF LoadInstr, Loaded
  <2>2. Maps(addr, SizeOf(i.op))
    BY <1>3, <1>5
  <2>3. Loaded(i) \in 0..(Bytes(SizeOf(i.op)) - 1) /\ Loaded(i) \in Word
    BY <1>1, <1>2, <2>2, ReadMemRange DEF Loaded
  <2>4. v \in Word /\ i.rt \in GPRegs /\ PcAfter \in Word
    BY <1>1, <2>3, LoadValueWord, PcAfterWord DEF IsInstr, NoRt, Loads
  <2> HIDE DEF v, addr, e
  <2>5. <<i.rt, v>>[1] = i.rt /\ <<i.rt, v>>[2] = v
    OBVIOUS
  <2>6. Completed(registers', registers, <<i.rt, v>>[1], <<i.rt, v>>[2], PcAfter)
        /\ trap' = "NoException" /\ Recorded(i)
    BY <1>1, <2>1, <2>4, <2>5, CompleteFacts
  <2>7. Grows(pageTable, pageTable')
    <3>1. Grows(pageTable, FetchTable)
      BY FetchFacts
    <3>2. Grows(FetchTable, Used(FetchTable, addr, FALSE))
      <4>1. TableOf(FetchTable) /\ BitsOK(FetchTable) /\ Page(addr) \in 1..Len(PageTable)
        BY <2>2, <3>1 DEF Grows, Maps
      <4> QED
        BY <4>1, ReadUse, Zenon
    <3> QED
      BY <2>1, <3>1, <3>2, GrowsTwice, Zenon
  <2>8. Stored
    BY <1>1, <2>7, FetchStored
  <2> QED
    BY <1>1, <2>2, <2>5, <2>6, <2>8 DEF Succeeded, v, addr
<1> QED
  BY <1>4, <1>5

\* What a store writes.
Merges(i) == i.op \in {"SWL", "SWR"}
StoredWord(i) == IF Merges(i) THEN ReadMem(mainMemory, Accessed(i), 4) ELSE 0
Saved(i) == StoreValue(i, StoredWord(i))

LEMMA StoreStep ==
  ASSUME StateOK, Fetched, NEW i, IsInstr(i), StoreInstr(i)
  PROVE  \/ Faulted(i)
         \/ /\ Succeeded(i, registers, 0, 0, PcAfter) /\ Maps(Accessed(i), SizeOf(i.op))
            /\ mainMemory' = WriteMem(Accessed(i), SizeOf(i.op), Saved(i)) /\ Saved(i) \in Int
<1> DEFINE addr == Accessed(i)
           size == SizeOf(i.op)
           e == StoreFault(i)
           read == Exception(addr, 4, FALSE)
           reads == Merges(i) /\ read = "NoException"
           table == IF reads THEN Used(FetchTable, addr, FALSE) ELSE FetchTable
<1>1. RegsOK(registers) /\ LastOK(last) /\ i.op \in Stores /\ TableOf(pageTable)
      /\ MemOK(mainMemory) /\ ContentOK(pageTable, mainMemory)
  BY DEF StateOK, StoreInstr
<1>2. addr \in Word /\ addr \in Nat /\ size \in {1, 2, 4} /\ (Merges(i) => size = 4)
  BY <1>1, AddressFacts, SizeOfIs DEF SizeOf, Merges
<1>3. /\ read \in Faults \cup {"NoException"} /\ (read = "NoException" => Maps(addr, 4))
      /\ Exception(addr, size, TRUE) \in Faults \cup {"NoException"}
      /\ Exception(addr, size, TRUE) = "NoException" =>
           Maps(addr, size) /\ ~PageTable[Page(addr)].readOnly
  <2>1. FALSE \in BOOLEAN /\ TRUE \in BOOLEAN /\ 4 \in {1, 2, 4}
    OBVIOUS
  <2> QED
    BY <1>1, <1>2, <2>1, Translates, Zenon
<1>4. /\ Merges(i) /\ read # "NoException" => e = read
      /\ ~(Merges(i) /\ read # "NoException") => e = Exception(addr, size, TRUE)
  BY Zenon DEF StoreFault, Merges
<1>5. /\ e # "NoException" => /\ RaiseException(i, e, addr) /\ pageTable' = table
                              /\ mainMemory' = mainMemory
      /\ e = "NoException" => /\ mainMemory' = WriteMem(addr, size, Saved(i))
                              /\ pageTable' = Used(table, addr, TRUE)
                              /\ Complete(i, registers, NoLoad, PcAfter)
  BY Zenon DEF StoreInstr, Saved, StoredWord, Merges
<1> HIDE DEF addr, size, e, read
<1>6. Grows(pageTable, table)
  <2>1. Grows(pageTable, FetchTable)
    BY FetchFacts
  <2>2. ASSUME reads PROVE Grows(FetchTable, Used(FetchTable, addr, FALSE))
    <3>1. TableOf(FetchTable) /\ BitsOK(FetchTable) /\ Page(addr) \in 1..Len(PageTable)
      BY <1>3, <2>1, <2>2 DEF Grows, Maps
    <3> QED
      BY <3>1, ReadUse, Zenon
  <2>3. CASE reads
    BY <2>1, <2>2, <2>3, GrowsTwice, Zenon
  <2>4. CASE ~reads
    BY <2>1, <2>4, Zenon
  <2> QED
    BY <2>3, <2>4
<1> HIDE DEF table
<1>7. CASE e # "NoException"
  <2>1. Raised(registers', registers) /\ trap' = e /\ Recorded(i)
    BY <1>1, <1>2, <1>5, <1>7, RaiseFacts
  <2>2. e \in Faults
    BY <1>3, <1>4, <1>7
  <2>3. Stored
    BY <1>5, <1>6, <1>7, FetchStored
  <2> QED
    BY <1>5, <1>7, <2>1, <2>2, <2>3 DEF Faulted
<1>8. CASE e = "NoException"
  <2>1. Exception(addr, size, TRUE) = "NoException"
    BY <1>4, <1>8
  <2>2. Maps(addr, size) /\ ~PageTable[Page(addr)].readOnly /\ Page(addr) \in 1..Len(PageTable)
    BY <1>3, <2>1 DEF Maps
  <2>3. NoLoad[1] = 0 /\ NoLoad[2] = 0 /\ 0 \in GPRegs /\ 0 \in Word
    BY SmallWords, RegNumbers DEF NoLoad
  <2>4. Completed(registers', registers, NoLoad[1], NoLoad[2], PcAfter)
        /\ trap' = "NoException" /\ Recorded(i)
    BY <1>1, <1>5, <1>8, <2>3, CompleteFacts, PcAfterWord
  <2>5. StoredWord(i) \in Nat
    <3>1. CASE Merges(i)
      <4>1. Maps(addr, 4) /\ 4 \in {1, 2, 4}
        BY <1>2, <2>2, <3>1
      <4>2. ReadMem(mainMemory, addr, 4) \in Word
        BY <1>1, <1>2, <4>1, ReadMemRange
      <4> QED
        BY <3>1, <4>2, WordNat DEF StoredWord, addr
    <3>2. CASE ~Merges(i)
      BY <3>2 DEF StoredWord
    <3> QED
      BY <3>1, <3>2
  <2>6. Saved(i) \in Int
    BY <1>1, <2>5, StoreValueInt DEF Saved
  <2>7. Grows(table, Used(table, addr, TRUE)) /\ Used(table, addr, TRUE)[Page(addr)].dirty
    <3>1. TableOf(table) /\ BitsOK(table)
      BY <1>6 DEF Grows
    <3> QED
      BY <2>2, <3>1, WriteUse, Zenon
  <2>8. Grows(pageTable, Used(table, addr, TRUE))
    BY <1>6, <2>7, GrowsTwice, Zenon
  <2>9. MemOK(WriteMem(addr, size, Saved(i)))
    BY <1>1, <1>2, <2>2, <2>6, WriteMemOK
  <2>10. ContentOK(Used(table, addr, TRUE), WriteMem(addr, size, Saved(i)))
    BY <1>1, <1>2, <2>2, <2>6, <2>7, <2>8, ContentWritten, Zenon
  <2>11. Stored
    BY <1>5, <1>8, <2>8, <2>9, <2>10, Zenon DEF Stored
  <2> QED
    BY <1>5, <1>8, <2>2, <2>3, <2>4, <2>6, <2>11 DEF Succeeded, addr, size
<1> QED
  BY <1>7, <1>8

LEMMA SystemCallStep ==
  ASSUME StateOK, Fetched, NEW i, SystemCall(i)
  PROVE  Returned(registers', registers) /\ trap' = "SyscallException" /\ Recorded(i) /\ Stored
         /\ mainMemory' = mainMemory
<1>1. RegsOK(registers) /\ LastOK(last)
  BY DEF StateOK
<1>2. Stored /\ mainMemory' = mainMemory
  BY FetchFacts, FetchStored DEF SystemCall
<1> QED
  BY <1>1, <1>2, SystemCallFacts

LEMMA IllegalStep ==
  ASSUME StateOK, Fetched, NEW i, IllegalInstr(i)
  PROVE  Faulted(i)
<1>1. RegsOK(registers) /\ LastOK(last) /\ 0 \in Word
  BY SmallWords DEF StateOK
<1>2. Stored /\ mainMemory' = mainMemory
  BY FetchFacts, FetchStored DEF IllegalInstr
<1>3. RaiseException(i, "IllegalInstrException", 0)
  BY DEF IllegalInstr
<1>4. Raised(registers', registers) /\ trap' = "IllegalInstrException" /\ Recorded(i)
  BY <1>1, <1>3, RaiseFacts
<1> QED
  BY <1>2, <1>4 DEF Faulted, Faults

-----------------------------------------------------------------------------
(* The invariant of the state.                                             *)

\* The instruction of a step.
LEMMA InstructionStep ==
  ASSUME NEW w \in Program, OneInstruction(w)
  PROVE  /\ Fetched /\ IsInstr(Decode(w))
         /\ \/ Compute(Decode(w)) \/ MultDiv(Decode(w)) \/ Jump(Decode(w)) \/ LoadInstr(Decode(w))
            \/ StoreInstr(Decode(w)) \/ SystemCall(Decode(w)) \/ IllegalInstr(Decode(w))
BY DecodeInstr DEF OneInstruction

LEMMA InitState ==
  ASSUME Init
  PROVE  StateOK /\ trap = "NoException" /\ last = <<>>
<1>1. PICK g \in Start, pc \in Counters, load \in Loading :
        registers = [r \in 0..BadVAddrReg |->
                       CASE r \in GPRegs -> g[r] [] r = PCReg -> pc[1] [] r = NextPCReg -> pc[2]
                         [] r = LoadReg -> load[1] [] r = LoadValueReg -> load[2] [] OTHER -> 0]
  BY DEF Init
<1>2. /\ g \in [GPRegs -> Word] /\ g[0] = 0 /\ pc[1] \in Word /\ pc[2] \in Word
      /\ load[1] \in GPRegs /\ load[2] \in Word
  BY MachineAssumption
<1>3. /\ DOMAIN registers = 0..11
      /\ \A r \in 0..11 : registers[r] =
           CASE r \in 0..3 -> g[r] [] r = 6 -> pc[1] [] r = 7 -> pc[2]
             [] r = 9 -> load[1] [] r = 10 -> load[2] [] OTHER -> 0
      /\ registers = [r \in 0..11 |-> registers[r]]
  BY <1>1, RegNumbers
<1>4. \A r \in 0..3 : g[r] \in Word /\ registers[r] = g[r]
  BY <1>2, <1>3, RegNumbers
<1>5. registers[9] = load[1] /\ load[1] \in Word
  <2>1. 0..3 \subseteq Word
    BY Sizes, SizeProducts DEF Word
  <2> QED
    BY <1>2, <1>3, <2>1, RegNumbers
<1>6. \A r \in 0..11 : registers[r] \in Word
  BY <1>2, <1>3, <1>4, <1>5, SmallWords
<1>7. RegsOK(registers) /\ registers[0] = 0
  BY <1>2, <1>3, <1>4, <1>5, <1>6, RegNumbers DEF RegsOK
<1>8. \A a \in Nat : FirstByte(a) \in 0..(Bytes(1) - 1)
  <2>1. Bytes(1) \in Nat \ {0}
    BY Sizes
  <2> QED
    BY <2>1 DEF FirstByte
<1>9. mainMemory = [a \in 0..(NumPhysPages * PageSize - 1) |-> FirstByte(a)]
  BY DEF Init
<1>10. MemOK(mainMemory)
  <2>1. \A a \in 0..(NumPhysPages * PageSize - 1) : a \in Nat
    OBVIOUS
  <2> QED
    BY <1>8, <1>9, <2>1 DEF MemOK
<1>11. TableOf(pageTable) /\ BitsOK(pageTable)
  BY MachineAssumption DEF Init, TableOf, BitsOK
<1>12. ContentOK(pageTable, mainMemory)
  <2> SUFFICES ASSUME NEW v \in 1..Len(PageTable), PageTable[v].physicalPage < NumPhysPages,
                      NEW o \in 0..(PageSize - 1)
               PROVE  mainMemory[PageTable[v].physicalPage * PageSize + o]
                        = FirstByte(PageTable[v].physicalPage * PageSize + o)
    BY DEF ContentOK
  <2> DEFINE p == PageTable[v].physicalPage
  <2>1. p \in Nat /\ p < NumPhysPages /\ NumPhysPages \in Nat /\ PageSize \in Nat \ {0}
    <3>1. PageTable[v] \in Entry
      BY MachineAssumption
    <3> QED
      BY <3>1, MachineAssumption DEF Entry
  <2> HIDE DEF p
  <2>2. p * PageSize \in Nat /\ p * PageSize + PageSize <= NumPhysPages * PageSize
        /\ NumPhysPages * PageSize \in Nat
    BY <2>1
  <2>3. p * PageSize + o \in 0..(NumPhysPages * PageSize - 1)
    BY <2>1, <2>2
  <2> QED
    BY <1>9, <2>3 DEF p
<1>13. steps \in 0..MaxSteps /\ LastOK(last)
  BY MachineAssumption DEF Init, LastOK
<1> QED
  BY <1>7, <1>10, <1>11, <1>12, <1>13 DEF StateOK, Init

\* The new state, given what a step does to the registers.
LEMMA NewState ==
  ASSUME StateOK, steps < MaxSteps, NEW i, Recorded(i), Stored, RegsOK(registers'), registers'[0] = 0
  PROVE  StateOK'
<1>1. steps' \in 0..MaxSteps /\ LastOK(last')
  BY MachineAssumption DEF StateOK, Recorded
<1>2. TableOf(pageTable') /\ BitsOK(pageTable') /\ ContentOK(pageTable', mainMemory') /\ MemOK(mainMemory')
  BY DEF Stored, Grows
<1> QED
  BY <1>1, <1>2 DEF StateOK

LEMMA CompletedRegs ==
  ASSUME NEW new, NEW regs, NEW l, NEW v, NEW pc, Completed(new, regs, l, v, pc)
  PROVE  RegsOK(new) /\ new[0] = 0
BY DEF Completed, Arrived

LEMMA FaultedState ==
  ASSUME StateOK, steps < MaxSteps, NEW i, Faulted(i)
  PROVE  StateOK'
<1>1. RegsOK(registers') /\ registers'[0] = 0 /\ Recorded(i) /\ Stored
  BY DEF Faulted, Raised, Arrived
<1> QED
  BY <1>1, NewState

LEMMA SucceededState ==
  ASSUME StateOK, steps < MaxSteps, NEW i, NEW regs, NEW l, NEW v, NEW pc,
         Succeeded(i, regs, l, v, pc)
  PROVE  StateOK'
<1>1. Completed(registers', regs, l, v, pc) /\ Recorded(i) /\ Stored
  BY DEF Succeeded
<1>2. RegsOK(registers') /\ registers'[0] = 0
  BY <1>1, CompletedRegs
<1> QED
  BY <1>1, <1>2, NewState

\* An interrupt lets the pending load arrive, and changes nothing else.
LEMMA TickFacts ==
  ASSUME StateOK, OneTick
  PROVE  /\ RegsOK(registers') /\ Arrived(registers', registers) /\ registers'[LoadReg] = 0
         /\ \A r \in {4, 5, 6, 7} : registers'[r] = registers[r]
         /\ UNCHANGED <<mainMemory, pageTable, trap, steps, last, Done>>
         /\ trap \in {"NoException", "SyscallException"}
<1>1. RegsOK(registers) /\ 0 \in GPRegs /\ 0 \in Word
  BY RegNumbers, SmallWords DEF StateOK
<1>2. /\ registers' = DelayedLoad(registers, 0, 0) /\ UNCHANGED <<mainMemory, pageTable, trap, steps, last>>
      /\ trap \in {"NoException", "SyscallException"}
  BY DEF OneTick
<1>3. /\ RegsOK(registers') /\ Arrived(registers', registers) /\ registers'[LoadReg] = 0
      /\ \A r \in {4, 5, 6, 7, 8, 11} : registers'[r] = registers[r]
  BY <1>1, <1>2, DelayedLoadFacts
<1>4. UNCHANGED Done
  BY <1>2 DEF Done
<1> QED
  BY <1>2, <1>3, <1>4

\* Every step keeps it.
LEMMA StateStep ==
  ASSUME StateOK, [Next]_vars
  PROVE  StateOK'
<1>1. CASE UNCHANGED vars
  BY <1>1 DEF vars, StateOK
<1>2. CASE FetchFault
  BY <1>2, FetchFaultStep, FaultedState
<1>4. CASE OneTick
  <2>1. RegsOK(registers') /\ registers'[0] = 0
    BY <1>4, TickFacts DEF Arrived
  <2>2. UNCHANGED <<mainMemory, pageTable, steps, last>>
    BY <1>4, TickFacts
  <2> QED
    BY <2>1, <2>2 DEF StateOK
<1>3. ASSUME NEW w \in Program, OneInstruction(w) PROVE StateOK'
  <2> DEFINE i == Decode(w)
  <2>1. /\ Fetched /\ IsInstr(i)
        /\ \/ Compute(i) \/ MultDiv(i) \/ Jump(i) \/ LoadInstr(i) \/ StoreInstr(i)
           \/ SystemCall(i) \/ IllegalInstr(i)
    BY <1>3, InstructionStep
  <2>2. steps < MaxSteps
    BY <2>1, FetchFacts
  <2> HIDE DEF i
  <2>3. CASE Compute(i)
    BY <2>1, <2>2, <2>3, ComputeStep, FaultedState, SucceededState
  <2>4. CASE MultDiv(i)
    <3>1. CASE HostFault(i)
      <4>1. registers' = registers /\ Recorded(i) /\ Stored
        BY <2>1, <2>4, <3>1, MultDivStep
      <4>2. RegsOK(registers') /\ registers'[0] = 0
        BY <4>1 DEF StateOK
      <4> QED
        BY <2>2, <4>1, <4>2, NewState
    <3>2. CASE ~HostFault(i)
      BY <2>1, <2>2, <2>4, <3>2, MultDivStep, SucceededState
    <3> QED
      BY <3>1, <3>2
  <2>5. CASE Jump(i)
    BY <2>1, <2>2, <2>5, JumpStep, SucceededState
  <2>6. CASE LoadInstr(i)
    BY <2>1, <2>2, <2>6, LoadStep, FaultedState, SucceededState
  <2>7. CASE StoreInstr(i)
    BY <2>1, <2>2, <2>7, StoreStep, FaultedState, SucceededState
  <2>8. CASE SystemCall(i)
    <3>1. Returned(registers', registers) /\ Recorded(i) /\ Stored
      BY <2>1, <2>8, SystemCallStep
    <3>2. RegsOK(registers') /\ registers'[0] = 0
      BY <3>1 DEF Returned
    <3> QED
      BY <2>2, <3>1, <3>2, NewState
  <2>9. CASE IllegalInstr(i)
    BY <2>1, <2>2, <2>9, IllegalStep, FaultedState
  <2> QED
    BY <2>1, <2>3, <2>4, <2>5, <2>6, <2>7, <2>8, <2>9
<1> QED
  BY <1>1, <1>2, <1>3, <1>4 DEF Next

\* The types are right in every such state.
LEMMA StateTypes ==
  ASSUME StateOK
  PROVE  TypeOK
<1>1. Len(last) <= 2
  <2>1. last = <<>> => Len(last) = 0
    OBVIOUS
  <2>2. \A a : last = <<a>> => Len(last) = 1
    OBVIOUS
  <2>3. \A a, b : last = <<a, b>> => Len(last) = 2
    OBVIOUS
  <2>4. LastOK(last)
    BY DEF StateOK
  <2>5. Len(last) \in {0, 1, 2}
    BY <2>1, <2>2, <2>3, <2>4, Zenon DEF LastOK
  <2>6. \A n \in {0, 1, 2} : n <= 2
    OBVIOUS
  <2> QED
    BY <2>5, <2>6, Zenon
<1> QED
  BY <1>1 DEF StateOK, TypeOK, RegsOK, MemOK

\* Each variable has its type.
THEOREM TypeCorrect == Spec => []TypeOK
<1>1. Init => StateOK
  BY InitState
<1>2. StateOK /\ [Next]_vars => StateOK'
  BY StateStep
<1>3. StateOK => TypeOK
  BY StateTypes
<1> QED
  BY <1>1, <1>2, <1>3, PTL DEF Spec

\* Read-only pages never change, and pages that are not dirty have not changed,
\* whatever the program, the page table and the sizes are (Translate, WriteMem).
THEOREM PagesAreKept == Spec => []PagesKept
<1>1. Init => StateOK
  BY InitState
<1>2. StateOK /\ [Next]_vars => StateOK'
  BY StateStep
<1>3. StateOK => PagesKept
  <2> SUFFICES ASSUME StateOK PROVE PagesKept
    OBVIOUS
  <2>1. TableOf(pageTable) /\ BitsOK(pageTable) /\ ContentOK(pageTable, mainMemory)
    BY DEF StateOK
  <2> SUFFICES ASSUME NEW v \in 1..Len(pageTable)
               PROVE  LET e == pageTable[v]
                      IN  /\ e.dirty => e.use /\ ~e.readOnly
                          /\ e.valid /\ e.physicalPage < NumPhysPages /\ ~e.dirty =>
                               \A o \in 0..(PageSize - 1) :
                                 mainMemory[e.physicalPage * PageSize + o]
                                   = FirstByte(e.physicalPage * PageSize + o)
    BY DEF PagesKept
  <2>2. /\ v \in 1..Len(PageTable) /\ pageTable[v].physicalPage = PageTable[v].physicalPage
        /\ pageTable[v].valid = PageTable[v].valid /\ pageTable[v].readOnly = PageTable[v].readOnly
    BY <2>1 DEF TableOf
  <2>3. pageTable[v].dirty => pageTable[v].use /\ ~pageTable[v].readOnly
    BY <2>1, <2>2 DEF BitsOK
  <2>4. pageTable[v].valid /\ pageTable[v].physicalPage < NumPhysPages /\ ~pageTable[v].dirty =>
          \A o \in 0..(PageSize - 1) :
            mainMemory[pageTable[v].physicalPage * PageSize + o]
              = FirstByte(pageTable[v].physicalPage * PageSize + o)
    BY <2>1, <2>2 DEF ContentOK
  <2> QED
    BY <2>3, <2>4
<1> QED
  BY <1>1, <1>2, <1>3, PTL DEF Spec

-----------------------------------------------------------------------------
(* Exceptions.                                                             *)

\* What RecordOf holds.
LEMMA RecordFields ==
  ASSUME NEW i
  PROVE  /\ RecordOf(i).instr = i /\ RecordOf(i).registers = registers
         /\ RecordOf(i).mainMemory = mainMemory /\ RecordOf(i).trap = trap'
BY DEF RecordOf

\* An instruction that raised an exception has changed nothing.
LEMMA FaultedRestarts ==
  ASSUME StateOK, StateOK', NEW i, Faulted(i)
  PROVE  Restartable'
<1>1. TypeOK'
  BY StateTypes, PTL
<1>2. Done' = RecordOf(i) /\ mainMemory' = mainMemory /\ Raised(registers', registers)
  BY DEF Faulted, Recorded
<1>3. Done'.mainMemory = mainMemory /\ Done'.registers = registers
  BY <1>2, RecordFields
<1>4. ASSUME NEW r \in (GPRegs \ {registers[LoadReg]}) \cup {HiReg, LoReg, PCReg, NextPCReg}
      PROVE  registers'[r] = registers[r]
  <2>1. CASE r \in {HiReg, LoReg, PCReg, NextPCReg}
    BY <1>2, <2>1, RegNumbers DEF Raised
  <2>2. CASE r \in GPRegs \ {registers[LoadReg]}
    <3>1. CASE r = 0
      BY <1>2, <3>1 DEF Raised, Arrived, StateOK
    <3>2. CASE r # 0
      BY <1>2, <2>2, <3>2 DEF Raised, Arrived
    <3> QED
      BY <3>1, <3>2
  <2> QED
    BY <2>1, <2>2
<1> QED
  BY <1>1, <1>2, <1>3, <1>4 DEF Restartable

\* After any other step there is nothing to restart.
LEMMA OtherRestarts ==
  ASSUME StateOK', trap' \notin Faults
  PROVE  Restartable'
<1>1. TypeOK'
  BY StateTypes, PTL
<1> QED
  BY <1>1 DEF Restartable

LEMMA RestartStep ==
  ASSUME StateOK, StateOK', Restartable, [Next]_vars
  PROVE  Restartable'
<1>0. "NoException" \notin Faults /\ "SyscallException" \notin Faults /\ "HostFault" \notin Faults
  BY DEF Faults
<1>1. CASE UNCHANGED vars
  BY <1>1 DEF vars, Restartable, TypeOK, Done
<1>2. CASE FetchFault
  BY <1>2, FetchFaultStep, FaultedRestarts
<1>4. CASE OneTick
  <2>1. trap' \notin Faults
    BY <1>0, <1>4, TickFacts
  <2> QED
    BY <2>1, OtherRestarts
<1>3. ASSUME NEW w \in Program, OneInstruction(w) PROVE Restartable'
  <2> DEFINE i == Decode(w)
  <2>1. /\ Fetched /\ IsInstr(i)
        /\ \/ Compute(i) \/ MultDiv(i) \/ Jump(i) \/ LoadInstr(i) \/ StoreInstr(i)
           \/ SystemCall(i) \/ IllegalInstr(i)
    BY <1>3, InstructionStep
  <2> HIDE DEF i
  <2>2. Faulted(i) \/ trap' \in {"NoException", "SyscallException", "HostFault"}
    <3>1. CASE Compute(i)
      BY <2>1, <3>1, ComputeStep DEF Succeeded
    <3>2. CASE MultDiv(i)
      BY <2>1, <3>2, MultDivStep DEF Succeeded
    <3>3. CASE Jump(i)
      BY <2>1, <3>3, JumpStep DEF Succeeded
    <3>4. CASE LoadInstr(i)
      BY <2>1, <3>4, LoadStep DEF Succeeded
    <3>5. CASE StoreInstr(i)
      BY <2>1, <3>5, StoreStep DEF Succeeded
    <3>6. CASE SystemCall(i)
      BY <2>1, <3>6, SystemCallStep
    <3>7. CASE IllegalInstr(i)
      BY <2>1, <3>7, IllegalStep
    <3> QED
      BY <2>1, <3>1, <3>2, <3>3, <3>4, <3>5, <3>6, <3>7
  <2>3. CASE Faulted(i)
    BY <2>3, FaultedRestarts
  <2>4. CASE trap' \in {"NoException", "SyscallException", "HostFault"}
    BY <1>0, <2>4, OtherRestarts
  <2> QED
    BY <2>2, <2>3, <2>4
<1> QED
  BY <1>1, <1>2, <1>3, <1>4 DEF Next

\* An instruction that raises an exception can be started again, for every
\* program, page table and size of the words (OneInstruction, RaiseException).
THEOREM FaultsAreRestartable == Spec => []Restartable
<1>1. Init => StateOK /\ Restartable
  <2> SUFFICES ASSUME Init PROVE StateOK /\ Restartable
    OBVIOUS
  <2>1. StateOK /\ last = <<>>
    BY InitState
  <2> QED
    BY <2>1, StateTypes DEF Restartable
<1>2. StateOK /\ Restartable /\ [Next]_vars => (StateOK /\ Restartable)'
  BY StateStep, RestartStep
<1> QED
  BY <1>1, <1>2, PTL DEF Spec

-----------------------------------------------------------------------------
(* Interrupts.                                                             *)

\* The step u left a load pending, or none is.
LoadFrom(u, regs) ==
  regs[LoadReg] # 0 => Op(u) \in Loads /\ u.trap = "NoException" /\ u.instr.rt = regs[LoadReg]

\* Of the last step.
LoadsPending ==
  last # <<>> =>
    /\ Op(Done) # "fetch" => IsInstr(Done.instr)
    /\ trap # "HostFault" => LoadFrom(Done, registers)

LEMMA LoadsInstruction ==
  ASSUME StateOK, Fetched, NEW i, IsInstr(i),
         \/ Compute(i) \/ MultDiv(i) \/ Jump(i) \/ LoadInstr(i) \/ StoreInstr(i)
         \/ SystemCall(i) \/ IllegalInstr(i)
  PROVE  Recorded(i) /\ LoadsPending'
<1>1. Recorded(i) /\ (trap' # "HostFault" =>
        \/ registers'[LoadReg] = 0
        \/ i.op \in Loads /\ trap' = "NoException" /\ i.rt = registers'[LoadReg])
  <2>1. CASE Compute(i)
    BY <2>1, ComputeStep DEF Succeeded, Completed, Faulted, Raised
  <2>2. CASE MultDiv(i)
    BY <2>2, MultDivStep DEF Succeeded, Completed
  <2>3. CASE Jump(i)
    BY <2>3, JumpStep DEF Succeeded, Completed
  <2>4. CASE LoadInstr(i)
    <3>1. i.op \in Loads
      BY <2>4 DEF LoadInstr
    <3> QED
      BY <2>4, <3>1, LoadStep DEF Succeeded, Completed, Faulted, Raised
  <2>5. CASE StoreInstr(i)
    BY <2>5, StoreStep DEF Succeeded, Completed, Faulted, Raised
  <2>6. CASE SystemCall(i)
    BY <2>6, SystemCallStep DEF Returned
  <2>7. CASE IllegalInstr(i)
    BY <2>7, IllegalStep DEF Faulted, Raised
  <2> QED
    BY <2>1, <2>2, <2>3, <2>4, <2>5, <2>6, <2>7
<1>2. Done' = RecordOf(i)
  BY <1>1 DEF Recorded
<1>3. Done'.instr = i /\ Done'.trap = trap'
  BY <1>2, RecordFields
<1>4. (Op(Done))' = i.op
  BY <1>3 DEF Op
<1>5. (trap # "HostFault" => LoadFrom(Done, registers))'
  BY <1>1, <1>3, <1>4 DEF LoadFrom
<1> QED
  BY <1>1, <1>3, <1>5 DEF LoadsPending

LEMMA LoadsStep ==
  ASSUME StateOK, LoadsPending, [Next]_vars
  PROVE  LoadsPending'
<1>1. CASE UNCHANGED vars
  BY <1>1 DEF vars, LoadsPending, LoadFrom, Done, Op
<1>2. CASE FetchFault
  <2>1. Done' = RecordOf([op |-> "fetch"]) /\ registers'[LoadReg] = 0
    BY <1>2, FetchFaultStep DEF Faulted, Raised, Recorded
  <2>2. Done'.instr = [op |-> "fetch"]
    BY <2>1, RecordFields
  <2>3. (Op(Done))' = "fetch"
    BY <2>2 DEF Op
  <2> QED
    BY <2>1, <2>3 DEF LoadsPending, LoadFrom
<1>3. ASSUME NEW w \in Program, OneInstruction(w) PROVE LoadsPending'
  BY <1>3, InstructionStep, LoadsInstruction
<1>4. CASE OneTick
  <2>1. registers'[LoadReg] = 0 /\ UNCHANGED <<last, Done>>
    BY <1>4, TickFacts
  <2>2. UNCHANGED Op(Done)
    BY <2>1 DEF Op
  <2> QED
    BY <2>1, <2>2 DEF LoadsPending, LoadFrom
<1> QED
  BY <1>1, <1>2, <1>3, <1>4 DEF Next

\* What a register will hold once the pending load has arrived.
Awaited(regs, r) == IF regs[LoadReg] = r THEN regs[LoadValueReg] ELSE regs[r]

\* An interrupt does not change that.
LEMMA TickAwaited ==
  ASSUME StateOK, OneTick, NEW r \in GPRegs \ {0}
  PROVE  registers'[r] = Awaited(registers, r) /\ Awaited(registers', r) = Awaited(registers, r)
<1>1. Arrived(registers', registers) /\ registers'[LoadReg] = 0
  BY TickFacts
<1> QED
  BY <1>1 DEF Arrived, Awaited

-----------------------------------------------------------------------------
(* Arithmetic.                                                             *)

Fits(x) == x \in (-SignBit)..(SignBit - 1)

\* A sum of words, as the number in the range of words.
LEMMA WrapSum ==
  ASSUME NEW a \in Word, NEW b \in Word
  PROVE  /\ Wrap(a + b) = (IF a + b < Modulus THEN a + b ELSE (a + b) - Modulus)
         /\ Wrap(a - b) = (IF a >= b THEN a - b ELSE (a - b) + Modulus)
<1>1. Modulus \in Nat \ {0}
  BY Sizes
<1>2. a \in 0..(Modulus - 1) /\ b \in 0..(Modulus - 1) /\ a + b \in Int /\ a - b \in Int
  BY <1>1 DEF Word
<1>3. \A x \in Int : x \in 0..(Modulus - 1) => x % Modulus = x
  BY <1>1
<1>4. \A x \in Int : x - Modulus \in 0..(Modulus - 1) => x % Modulus = x - Modulus
  <2> SUFFICES ASSUME NEW x \in Int, x - Modulus \in 0..(Modulus - 1)
               PROVE  x % Modulus = x - Modulus
    OBVIOUS
  <2>1. x = Modulus * 1 + (x - Modulus)
    BY <1>1
  <2> QED
    BY <1>1, <2>1, DivisionUnique
<1>5. \A x \in Int : x + Modulus \in 0..(Modulus - 1) => x % Modulus = x + Modulus
  <2> SUFFICES ASSUME NEW x \in Int, x + Modulus \in 0..(Modulus - 1)
               PROVE  x % Modulus = x + Modulus
    OBVIOUS
  <2>1. x = Modulus * (-1) + (x + Modulus)
    BY <1>1
  <2> QED
    BY <1>1, <2>1, DivisionUnique
<1>6. Wrap(a + b) = IF a + b < Modulus THEN a + b ELSE (a + b) - Modulus
  BY <1>1, <1>2, <1>3, <1>4 DEF Wrap
<1>7. Wrap(a - b) = IF a >= b THEN a - b ELSE (a - b) + Modulus
  BY <1>1, <1>2, <1>3, <1>5 DEF Wrap
<1> QED
  BY <1>6, <1>7

\* The sign bits tell whether a sum fits.
LEMMA SumOverflow ==
  ASSUME NEW a \in Word, NEW b \in Word
  PROVE  /\ (Sign(a) = Sign(b) /\ Sign(a) # Sign(Wrap(a + b))) <=> ~Fits(Signed(a) + Signed(b))
         /\ (Sign(a) = Sign(b) /\ Sign(b) # Sign(Wrap(a + b))) <=> ~Fits(Signed(a) + Signed(b))
         /\ Fits(Signed(a) + Signed(b)) => Signed(Wrap(a + b)) = Signed(a) + Signed(b)
<1> DEFINE c == Wrap(a + b)
<1>1. SignBit \in Nat \ {0} /\ Modulus = 2 * SignBit
  BY Sizes
<1>2. a \in 0..(Modulus - 1) /\ b \in 0..(Modulus - 1) /\ a + b \in Int
  BY <1>1 DEF Word
<1>3. c \in Word /\ c = IF a + b < Modulus THEN a + b ELSE (a + b) - Modulus
  BY <1>2, WrapSum, WrapWord
<1>4. \A x \in Word : Sign(x) \in {0, 1} /\ (Sign(x) = 1 <=> x >= SignBit)
  BY WordFacts
<1>5. /\ Sign(a) \in {0, 1} /\ (Sign(a) = 1 <=> a >= SignBit)
      /\ Sign(b) \in {0, 1} /\ (Sign(b) = 1 <=> b >= SignBit)
      /\ Sign(c) \in {0, 1} /\ (Sign(c) = 1 <=> c >= SignBit)
  BY <1>3, <1>4
<1>6. c \in Int
  BY <1>3, WordNat
<1> HIDE DEF c
<1> QED
  BY <1>1, <1>2, <1>3, <1>5, <1>6 DEF Fits, Signed, c

\* The same for a difference.
LEMMA DifferenceOverflow ==
  ASSUME NEW a \in Word, NEW b \in Word
  PROVE  /\ (Sign(a) # Sign(b) /\ Sign(a) # Sign(Wrap(a - b))) <=> ~Fits(Signed(a) - Signed(b))
         /\ Fits(Signed(a) - Signed(b)) => Signed(Wrap(a - b)) = Signed(a) - Signed(b)
<1> DEFINE c == Wrap(a - b)
<1>1. SignBit \in Nat \ {0} /\ Modulus = 2 * SignBit
  BY Sizes
<1>2. a \in 0..(Modulus - 1) /\ b \in 0..(Modulus - 1) /\ a - b \in Int
  BY <1>1 DEF Word
<1>3. c \in Word /\ c = IF a >= b THEN a - b ELSE (a - b) + Modulus
  BY <1>2, WrapSum, WrapWord
<1>4. \A x \in Word : Sign(x) \in {0, 1} /\ (Sign(x) = 1 <=> x >= SignBit)
  BY WordFacts
<1>5. /\ Sign(a) \in {0, 1} /\ (Sign(a) = 1 <=> a >= SignBit)
      /\ Sign(b) \in {0, 1} /\ (Sign(b) = 1 <=> b >= SignBit)
      /\ Sign(c) \in {0, 1} /\ (Sign(c) = 1 <=> c >= SignBit)
  BY <1>3, <1>4
<1>6. c \in Int
  BY <1>3, WordNat
<1> HIDE DEF c
<1> QED
  BY <1>1, <1>2, <1>3, <1>5, <1>6 DEF Fits, Signed, c

\* ArithmeticExact, of an instruction and the registers before and after it.
SumExact(x, r, old, new, t) ==
  IF Fits(x) THEN t = "NoException" /\ Signed(new[r]) = x
  ELSE t = "OverflowException" /\ new[r] = old[r]

SumsExact(i, old, new, t) ==
  /\ i.op = "ADD" /\ old[LoadReg] = 0 /\ i.rd # 0
       => SumExact(Signed(old[i.rs]) + Signed(old[i.rt]), i.rd, old, new, t)
  /\ i.op = "SUB" /\ old[LoadReg] = 0 /\ i.rd # 0
       => SumExact(Signed(old[i.rs]) - Signed(old[i.rt]), i.rd, old, new, t)
  /\ i.op = "ADDI" /\ old[LoadReg] = 0 /\ i.rt # 0
       => SumExact(Signed(old[i.rs]) + Signed(i.extra), i.rt, old, new, t)

\* Divisions.
Remainder(n, d, q, r) == q * d + r = n /\ r * n >= 0 /\ r * r < d * d

ProductsExact(i, old, new, t) ==
  /\ i.op = "MULT" => Signed(new[HiReg]) * Modulus + new[LoReg] = Signed(old[i.rs]) * Signed(old[i.rt])
  /\ i.op = "MULTU" => new[HiReg] * Modulus + new[LoReg] = old[i.rs] * old[i.rt]
  /\ i.op = "DIVU" /\ old[i.rt] # 0 =>
       new[LoReg] * old[i.rt] + new[HiReg] = old[i.rs] /\ new[HiReg] < old[i.rt]
  /\ i.op = "DIV" /\ old[i.rt] # 0 /\ t # "HostFault" =>
       Remainder(Signed(old[i.rs]), Signed(old[i.rt]), Signed(new[LoReg]), Signed(new[HiReg]))

LastExact ==
  last # <<>> /\ Op(Done) # "fetch" =>
    /\ SumsExact(Done.instr, Done.registers, registers, trap)
    /\ ProductsExact(Done.instr, Done.registers, registers, trap)

LEMMA ExactIs ==
  ASSUME LastExact
  PROVE  ArithmeticExact
BY DEF LastExact, ArithmeticExact, SumsExact, SumExact, ProductsExact, Remainder, Fits

\* The register that Compute wrote, when no load was pending.
LEMMA WrittenValue ==
  ASSUME StateOK, Fetched, NEW i, IsInstr(i), Compute(i), NEW r,
         r = (IF i.op \in ToRd THEN i.rd ELSE i.rt), r # 0, registers[LoadReg] = 0
  PROVE  /\ ~Overflow(i) => trap' = "NoException" /\ registers'[r] = Value(i)
         /\ Overflow(i) => trap' = "OverflowException" /\ registers'[r] = registers[r]
<1>1. r \in GPRegs /\ Value(i) \in Word
  BY ComputeStep
<1>2. registers \in [0..11 -> Word] /\ LoadReg = 9 /\ GPRegs = 0..3
  BY RegNumbers DEF StateOK, RegsOK
<1>3. ASSUME ~Overflow(i) PROVE trap' = "NoException" /\ registers'[r] = Value(i)
  <2>1. Succeeded(i, Written(i), 0, 0, PcAfter)
    BY <1>3, ComputeStep
  <2>2. Written(i) = [registers EXCEPT ![r] = Value(i)]
    BY DEF Written
  <2>3. Written(i)[9] = registers[9] /\ Written(i)[r] = Value(i)
    BY <1>1, <1>2, <2>2
  <2>4. Arrived(registers', Written(i)) /\ trap' = "NoException"
    BY <2>1 DEF Succeeded, Completed
  <2> QED
    BY <1>1, <1>2, <2>3, <2>4 DEF Arrived
<1>4. ASSUME Overflow(i) PROVE trap' = "OverflowException" /\ registers'[r] = registers[r]
  <2>1. Faulted(i) /\ trap' = "OverflowException"
    BY <1>4, ComputeStep
  <2>2. Arrived(registers', registers)
    BY <2>1 DEF Faulted, Raised
  <2> QED
    BY <1>1, <2>1, <2>2 DEF Arrived
<1> QED
  BY <1>3, <1>4

LEMMA ComputeExact ==
  ASSUME StateOK, Fetched, NEW i, IsInstr(i), Compute(i)
  PROVE  SumsExact(i, registers, registers', trap')
<1>1. i.rs \in GPRegs /\ i.rt \in GPRegs /\ i.extra \in Word
  BY DEF IsInstr, NoRt, Compute, ToRd, ToRt
<1>2. registers[i.rs] \in Word /\ registers[i.rt] \in Word
  BY <1>1, RegWord DEF StateOK
<1>3. Rs(i) = registers[i.rs] /\ Rt(i) = registers[i.rt]
  BY DEF Rs, Rt
<1>4. ASSUME i.op = "ADD", registers[LoadReg] = 0, i.rd # 0
      PROVE  SumExact(Signed(registers[i.rs]) + Signed(registers[i.rt]), i.rd,
                      registers, registers', trap')
  <2>1. i.rd = (IF i.op \in ToRd THEN i.rd ELSE i.rt)
    BY <1>4 DEF ToRd
  <2>2. /\ ~Overflow(i) => trap' = "NoException" /\ registers'[i.rd] = Value(i)
        /\ Overflow(i) => trap' = "OverflowException" /\ registers'[i.rd] = registers[i.rd]
    BY <1>4, <2>1, WrittenValue
  <2>3. Value(i) = Wrap(Rs(i) + Rt(i))
    BY <1>4 DEF Value
  <2>4. Overflow(i) <=> Sign(Rs(i)) = Sign(Rt(i)) /\ Sign(Rs(i)) # Sign(Wrap(Rs(i) + Rt(i)))
    BY <1>4 DEF Overflow
  <2>5. /\ Overflow(i) <=> ~Fits(Signed(Rs(i)) + Signed(Rt(i)))
        /\ Fits(Signed(Rs(i)) + Signed(Rt(i))) =>
             Signed(Wrap(Rs(i) + Rt(i))) = Signed(Rs(i)) + Signed(Rt(i))
    BY <1>2, <1>3, <2>4, SumOverflow
  <2> QED
    BY <1>3, <2>2, <2>3, <2>5 DEF SumExact
<1>5. ASSUME i.op = "SUB", registers[LoadReg] = 0, i.rd # 0
      PROVE  SumExact(Signed(registers[i.rs]) - Signed(registers[i.rt]), i.rd,
                      registers, registers', trap')
  <2>1. i.rd = (IF i.op \in ToRd THEN i.rd ELSE i.rt)
    BY <1>5 DEF ToRd
  <2>2. /\ ~Overflow(i) => trap' = "NoException" /\ registers'[i.rd] = Value(i)
        /\ Overflow(i) => trap' = "OverflowException" /\ registers'[i.rd] = registers[i.rd]
    BY <1>5, <2>1, WrittenValue
  <2>3. Value(i) = Wrap(Rs(i) - Rt(i))
    BY <1>5 DEF Value
  <2>4. Overflow(i) <=> Sign(Rs(i)) # Sign(Rt(i)) /\ Sign(Rs(i)) # Sign(Wrap(Rs(i) - Rt(i)))
    BY <1>5 DEF Overflow
  <2>5. /\ Overflow(i) <=> ~Fits(Signed(Rs(i)) - Signed(Rt(i)))
        /\ Fits(Signed(Rs(i)) - Signed(Rt(i))) =>
             Signed(Wrap(Rs(i) - Rt(i))) = Signed(Rs(i)) - Signed(Rt(i))
    BY <1>2, <1>3, <2>4, DifferenceOverflow
  <2> QED
    BY <1>3, <2>2, <2>3, <2>5 DEF SumExact
<1>6. ASSUME i.op = "ADDI", registers[LoadReg] = 0, i.rt # 0
      PROVE  SumExact(Signed(registers[i.rs]) + Signed(i.extra), i.rt,
                      registers, registers', trap')
  <2>1. i.rt = (IF i.op \in ToRd THEN i.rd ELSE i.rt)
    BY <1>6 DEF ToRd
  <2>2. /\ ~Overflow(i) => trap' = "NoException" /\ registers'[i.rt] = Value(i)
        /\ Overflow(i) => trap' = "OverflowException" /\ registers'[i.rt] = registers[i.rt]
    BY <1>6, <2>1, WrittenValue
  <2>3. Value(i) = Wrap(Rs(i) + i.extra)
    BY <1>6 DEF Value
  <2>4. Overflow(i) <=> Sign(Rs(i)) = Sign(i.extra) /\ Sign(i.extra) # Sign(Wrap(Rs(i) + i.extra))
    BY <1>6 DEF Overflow
  <2>5. /\ Overflow(i) <=> ~Fits(Signed(Rs(i)) + Signed(i.extra))
        /\ Fits(Signed(Rs(i)) + Signed(i.extra)) =>
             Signed(Wrap(Rs(i) + i.extra)) = Signed(Rs(i)) + Signed(i.extra)
    BY <1>1, <1>2, <1>3, <2>4, SumOverflow
  <2> QED
    BY <1>3, <2>2, <2>3, <2>5 DEF SumExact
<1> QED
  BY <1>4, <1>5, <1>6 DEF SumsExact

LEMMA MultDivExact ==
  ASSUME StateOK, Fetched, NEW i, IsInstr(i), MultDiv(i)
  PROVE  ProductsExact(i, registers, registers', trap')
<1> DEFINE a == registers[i.rs]
           b == registers[i.rt]
<1>1. i.rs \in GPRegs /\ i.rt \in GPRegs
  BY DEF IsInstr, NoRt, MultDiv
<1>2. a \in Word /\ b \in Word /\ a \in Nat /\ b \in Nat
  BY <1>1, RegWord, WordNat DEF StateOK
<1>3. Rs(i) = a /\ Rt(i) = b
  BY DEF Rs, Rt
<1>4. HostFault(i) => trap' = "HostFault" /\ i.op = "DIV"
  BY MultDivStep DEF HostFault
<1>5. ~HostFault(i) => registers'[HiReg] = HiLo(i)[1] /\ registers'[LoReg] = HiLo(i)[2]
  BY MultDivStep DEF Succeeded, Completed
<1> HIDE DEF a, b
<1>6. ASSUME i.op = "MULT"
      PROVE  Signed(registers'[HiReg]) * Modulus + registers'[LoReg] = Signed(a) * Signed(b)
  <2>1. HiLo(i) = Mult(a, b, TRUE) /\ ~HostFault(i)
    BY <1>3, <1>6 DEF HiLo, HostFault
  <2>2. IsSignedProduct(HiLo(i), Signed(a) * Signed(b))
    BY <1>2, <2>1, MultSigned, Zenon
  <2> QED
    BY <1>5, <2>1, <2>2, Zenon DEF IsSignedProduct
<1>7. ASSUME i.op = "MULTU"
      PROVE  registers'[HiReg] * Modulus + registers'[LoReg] = a * b
  <2>1. HiLo(i) = Mult(a, b, FALSE) /\ ~HostFault(i)
    BY <1>3, <1>7 DEF HiLo, HostFault
  <2>2. IsProduct(HiLo(i), a * b)
    BY <1>2, <2>1, MultUnsigned, Zenon
  <2> QED
    BY <1>5, <2>1, <2>2, Zenon DEF IsProduct
<1>8. ASSUME i.op = "DIVU", b # 0
      PROVE  registers'[LoReg] * b + registers'[HiReg] = a /\ registers'[HiReg] < b
  <2>1. HiLo(i) = <<a % b, a \div b>> /\ ~HostFault(i)
    BY <1>3, <1>8 DEF HiLo, HostFault
  <2>2. registers'[HiReg] = a % b /\ registers'[LoReg] = a \div b
    BY <1>5, <2>1
  <2>3. a % b \in 0..(b - 1) /\ a \div b \in Int /\ a = b * (a \div b) + (a % b)
    <3>1. a \in Int /\ b \in Nat \ {0}
      BY <1>2, <1>8
    <3> QED
      BY <3>1, Division
  <2>4. b * (a \div b) = (a \div b) * b
    BY <1>2, <2>3
  <2> QED
    BY <1>2, <2>2, <2>3, <2>4
<1>9. ASSUME i.op = "DIV", b # 0, trap' # "HostFault"
      PROVE  Remainder(Signed(a), Signed(b), Signed(registers'[LoReg]), Signed(registers'[HiReg]))
  <2> DEFINE n == Signed(a)
             d == Signed(b)
             q == Quotient(n, d)
             r == n - q * d
  <2>1. ~HostFault(i)
    BY <1>4, <1>9
  <2>2. HiLo(i) = <<Wrap(r), Wrap(q)>>
    BY <1>3, <1>9 DEF HiLo
  <2>3. registers'[HiReg] = Wrap(r) /\ registers'[LoReg] = Wrap(q)
    BY <1>5, <2>1, <2>2
  <2>4. SignBit \in Nat \ {0} /\ Modulus = 2 * SignBit
    BY Sizes
  <2>5. n \in (-SignBit)..(SignBit - 1) /\ d \in (-SignBit)..(SignBit - 1) /\ n \in Int /\ d \in Int
    BY <1>2, <2>4, SignedIs
  <2>6. d # 0 /\ ~(n = -SignBit /\ d = -1)
    <3>1. a \in 0..(Modulus - 1) /\ b \in 0..(Modulus - 1)
      BY <1>2 DEF Word
    <3>2. d # 0
      BY <1>9, <2>4, <3>1 DEF Signed
    <3>3. n = -SignBit => a = SignBit
      BY <2>4, <3>1 DEF Signed
    <3>4. d = -1 => b = Modulus - 1
      BY <2>4, <3>1 DEF Signed
    <3>5. ~(a = SignBit /\ b = Modulus - 1)
      BY <1>3, <1>9, <2>1 DEF HostFault
    <3> QED
      BY <3>2, <3>3, <3>4, <3>5
  <2> HIDE DEF n, d
  <2>7. /\ q \in (-SignBit)..(SignBit - 1) /\ r \in (-SignBit)..(SignBit - 1)
        /\ r * n >= 0 /\ r * r < d * d
    BY <2>4, <2>5, <2>6, QuotientRight
  <2>8. q \in Int /\ r \in Int
    BY <2>4, <2>7
  <2>9. q * d + r = n
    <3>1. q * d \in Int
      BY <2>5, <2>8
    <3> QED
      BY <2>5, <3>1
  <2> HIDE DEF q, r
  <2>10. Signed(registers'[LoReg]) = q /\ Signed(registers'[HiReg]) = r
    BY <2>3, <2>7, SignedWrap
  <2> QED
    BY <2>7, <2>9, <2>10 DEF Remainder, n, d
<1> QED
  BY <1>6, <1>7, <1>8, <1>9 DEF ProductsExact, a, b

\* Every step is exact.
LEMMA ExactStep ==
  ASSUME StateOK, LoadsPending, LastExact, [Next]_vars
  PROVE  LastExact'
<1>1. CASE UNCHANGED vars
  BY <1>1 DEF vars, LastExact, Done, Op
<1>2. CASE FetchFault
  <2>1. Done' = RecordOf([op |-> "fetch"])
    BY <1>2, FetchFaultStep DEF Faulted, Recorded
  <2>2. Done'.instr = [op |-> "fetch"]
    BY <2>1, RecordFields
  <2>3. (Op(Done))' = "fetch"
    BY <2>2 DEF Op
  <2> QED
    BY <2>3 DEF LastExact
<1>4. CASE OneTick
  <2> SUFFICES ASSUME last # <<>>, Op(Done) # "fetch"
               PROVE  /\ SumsExact(Done.instr, Done.registers, registers', trap)
                      /\ ProductsExact(Done.instr, Done.registers, registers', trap)
    BY <1>4, TickFacts DEF LastExact
  <2> DEFINE i == Done.instr
             old == Done.registers
  <2>1. /\ Arrived(registers', registers) /\ \A r \in {4, 5, 6, 7} : registers'[r] = registers[r]
        /\ trap # "HostFault"
    BY <1>4, TickFacts
  <2>2. IsInstr(i) /\ LoadFrom(Done, registers) /\ Op(Done) = i.op
    BY <2>1 DEF LoadsPending, Op
  <2>3. SumsExact(i, old, registers, trap) /\ ProductsExact(i, old, registers, trap)
    BY DEF LastExact
  <2> HIDE DEF i, old
  <2>4. ProductsExact(i, old, registers', trap)
    <3>1. registers'[HiReg] = registers[HiReg] /\ registers'[LoReg] = registers[LoReg]
      BY <2>1, RegNumbers
    <3> QED
      BY <2>3, <3>1 DEF ProductsExact
  <2>5. ASSUME i.op \in {"ADD", "SUB", "ADDI"}
        PROVE  SumsExact(i, old, registers', trap)
    <3>1. registers[LoadReg] = 0
      BY <2>2, <2>5 DEF LoadFrom, Loads
    <3>2. i.rd \in GPRegs /\ i.rt \in GPRegs
      BY <2>2, <2>5 DEF IsInstr, NoRt
    <3>3. \A r \in GPRegs \ {0} : registers'[r] = registers[r]
      BY <2>1, <3>1 DEF Arrived
    <3>4. /\ i.rd # 0 => registers'[i.rd] = registers[i.rd]
          /\ i.rt # 0 => registers'[i.rt] = registers[i.rt]
      BY <3>2, <3>3
    <3> QED
      BY <2>3, <3>4 DEF SumsExact, SumExact
  <2>6. i.op \notin {"ADD", "SUB", "ADDI"} => SumsExact(i, old, registers', trap)
    BY DEF SumsExact
  <2> QED
    BY <2>4, <2>5, <2>6 DEF i, old
<1>3. ASSUME NEW w \in Program, OneInstruction(w) PROVE LastExact'
  <2> DEFINE i == Decode(w)
  <2>1. /\ Fetched /\ IsInstr(i)
        /\ \/ Compute(i) \/ MultDiv(i) \/ Jump(i) \/ LoadInstr(i) \/ StoreInstr(i)
           \/ SystemCall(i) \/ IllegalInstr(i)
    BY <1>3, InstructionStep
  <2> HIDE DEF i
  <2>2. Recorded(i)
    <3>1. CASE Compute(i)
      BY <2>1, <3>1, ComputeStep DEF Succeeded, Faulted
    <3>2. CASE MultDiv(i)
      BY <2>1, <3>2, MultDivStep DEF Succeeded
    <3>3. CASE Jump(i)
      BY <2>1, <3>3, JumpStep DEF Succeeded
    <3>4. CASE LoadInstr(i)
      BY <2>1, <3>4, LoadStep DEF Succeeded, Faulted
    <3>5. CASE StoreInstr(i)
      BY <2>1, <3>5, StoreStep DEF Succeeded, Faulted
    <3>6. CASE SystemCall(i)
      BY <2>1, <3>6, SystemCallStep
    <3>7. CASE IllegalInstr(i)
      BY <2>1, <3>7, IllegalStep DEF Faulted
    <3> QED
      BY <2>1, <3>1, <3>2, <3>3, <3>4, <3>5, <3>6, <3>7
  <2>3. SumsExact(i, registers, registers', trap')
    <3>1. CASE Compute(i)
      BY <2>1, <3>1, ComputeExact
    <3>2. CASE i.op \notin {"ADD", "SUB", "ADDI"}
      BY <3>2 DEF SumsExact
    <3>3. i.op \in {"ADD", "SUB", "ADDI"} => Compute(i)
      BY <2>1 DEF MultDiv, Jump, Branches, Jumps, LoadInstr, Loads, StoreInstr, Stores,
                  SystemCall, IllegalInstr
    <3> QED
      BY <3>1, <3>2, <3>3
  <2>4. ProductsExact(i, registers, registers', trap')
    <3>1. CASE MultDiv(i)
      BY <2>1, <3>1, MultDivExact
    <3>2. CASE i.op \notin {"MULT", "MULTU", "DIV", "DIVU"}
      BY <3>2 DEF ProductsExact
    <3>3. i.op \in {"MULT", "MULTU", "DIV", "DIVU"} => MultDiv(i)
      BY <2>1 DEF Compute, ToRd, ToRt, Jump, Branches, Jumps, LoadInstr, Loads, StoreInstr, Stores,
                  SystemCall, IllegalInstr
    <3> QED
      BY <3>1, <3>2, <3>3
  <2>5. Done' = RecordOf(i)
    BY <2>2 DEF Recorded
  <2>6. Done'.instr = i /\ Done'.registers = registers
    BY <2>5, RecordFields
  <2>7. /\ SumsExact(Done'.instr, Done'.registers, registers', trap')
        /\ ProductsExact(Done'.instr, Done'.registers, registers', trap')
    BY <2>3, <2>4, <2>6
  <2> QED
    BY <2>7 DEF LastExact
<1> QED
  BY <1>1, <1>2, <1>3, <1>4 DEF Next

\* Arithmetic on words of any size agrees with the integers, up to the trap of
\* the host: sums, differences, products, quotients and remainders
\* (OneInstruction, Mult).
THEOREM ArithmeticIsExact == Spec => []ArithmeticExact
<1> DEFINE Inv == StateOK /\ LoadsPending /\ LastExact
<1>1. Init => Inv
  <2> SUFFICES ASSUME Init PROVE Inv
    OBVIOUS
  <2>1. StateOK /\ last = <<>>
    BY InitState
  <2> QED
    BY <2>1 DEF LoadsPending, LastExact
<1>2. Inv /\ [Next]_vars => Inv'
  BY StateStep, LoadsStep, ExactStep
<1>3. Inv => ArithmeticExact
  BY ExactIs
<1> HIDE DEF Inv
<1> QED
  BY <1>1, <1>2, <1>3, PTL DEF Spec

-----------------------------------------------------------------------------
(* Delays.                                                                 *)

\* A step lets the load before it arrive and goes where the one before it said.
Arrives ==
  /\ trap' = "NoException" => registers'[PCReg] = registers[NextPCReg]
  /\ trap' # "HostFault" =>
       \A r \in GPRegs \ {0} :
         r = registers[LoadReg] /\ ~(trap' = "SyscallException" /\ r = 2)
           => registers'[r] = registers[LoadValueReg]

\* regs differs from registers only in what an instruction may write.
Writes(regs) ==
  /\ regs[LoadReg] = registers[LoadReg] /\ regs[LoadValueReg] = registers[LoadValueReg]
  /\ regs[NextPCReg] = registers[NextPCReg]

LEMMA SucceededArrives ==
  ASSUME NEW i, NEW regs, NEW l, NEW v, NEW pc, Succeeded(i, regs, l, v, pc), Writes(regs)
  PROVE  Arrives
<1>1. Arrived(registers', regs) /\ registers'[PCReg] = regs[NextPCReg]
  BY DEF Succeeded, Completed
<1> QED
  BY <1>1 DEF Arrived, Arrives, Writes

LEMMA FaultedArrives ==
  ASSUME NEW i, Faulted(i)
  PROVE  Arrives
<1>1. Arrived(registers', registers) /\ trap' # "NoException"
  BY DEF Faulted, Raised, Faults
<1> QED
  BY <1>1 DEF Arrived, Arrives

LEMMA WritesGeneral ==
  ASSUME StateOK, NEW r \in GPRegs, NEW v
  PROVE  Writes([registers EXCEPT ![r] = v])
<1>1. registers \in [0..11 -> Word] /\ LoadReg = 9 /\ LoadValueReg = 10 /\ NextPCReg = 7 /\ r \in 0..3
  BY RegNumbers DEF StateOK, RegsOK
<1> QED
  BY <1>1 DEF Writes

\* So does every step, and it is recorded.
LEMMA InstructionArrives ==
  ASSUME StateOK, Fetched, NEW i, IsInstr(i),
         \/ Compute(i) \/ MultDiv(i) \/ Jump(i) \/ LoadInstr(i) \/ StoreInstr(i)
         \/ SystemCall(i) \/ IllegalInstr(i)
  PROVE  Recorded(i) /\ Arrives
<1>1. CASE Compute(i)
  <2>1. Writes(Written(i))
    BY <1>1, ComputeStep, WritesGeneral DEF Written
  <2>2. CASE Overflow(i)
    <3>1. Faulted(i)
      BY <1>1, <2>2, ComputeStep
    <3> QED
      BY <3>1, FaultedArrives DEF Faulted
  <2>3. CASE ~Overflow(i)
    <3>1. Succeeded(i, Written(i), 0, 0, PcAfter)
      BY <1>1, <2>3, ComputeStep
    <3> QED
      BY <2>1, <3>1, SucceededArrives DEF Succeeded
  <2> QED
    BY <2>2, <2>3
<1>2. CASE MultDiv(i)
  <2>1. CASE HostFault(i)
    BY <1>2, <2>1, MultDivStep DEF Arrives
  <2>2. CASE ~HostFault(i)
    <3>1. Succeeded(i, Divided(i), 0, 0, PcAfter) /\ \A r \in 6..11 : Divided(i)[r] = registers[r]
      BY <1>2, <2>2, MultDivStep
    <3>2. Writes(Divided(i))
      BY <3>1, RegNumbers DEF Writes
    <3> QED
      BY <3>1, <3>2, SucceededArrives DEF Succeeded
  <2> QED
    BY <2>1, <2>2
<1>3. CASE Jump(i)
  <2>1. Succeeded(i, Linked(i), 0, 0, Target(i))
    BY <1>3, JumpStep
  <2>2. Writes(Linked(i))
    BY LinkedOK, RegNumbers DEF StateOK, Writes
  <2> QED
    BY <2>1, <2>2, SucceededArrives DEF Succeeded
<1>4. Writes(registers)
  BY DEF Writes
<1>5. CASE LoadInstr(i)
  <2>1. Faulted(i) \/ Succeeded(i, registers, i.rt, LoadValue(i, Loaded(i)), PcAfter)
    BY <1>5, LoadStep
  <2> QED
    BY <1>4, <2>1, SucceededArrives, FaultedArrives DEF Succeeded, Faulted
<1>6. CASE StoreInstr(i)
  <2>1. Faulted(i) \/ Succeeded(i, registers, 0, 0, PcAfter)
    BY <1>6, StoreStep
  <2> QED
    BY <1>4, <2>1, SucceededArrives, FaultedArrives DEF Succeeded, Faulted
<1>7. CASE SystemCall(i)
  <2>1. Returned(registers', registers) /\ trap' = "SyscallException" /\ Recorded(i)
    BY <1>7, SystemCallStep
  <2> QED
    BY <2>1 DEF Returned, Arrives
<1>8. CASE IllegalInstr(i)
  <2>1. Faulted(i)
    BY <1>8, IllegalStep
  <2> QED
    BY <2>1, FaultedArrives DEF Faulted
<1> QED
  BY <1>1, <1>2, <1>3, <1>5, <1>6, <1>7, <1>8

\* A physical address, and a read from there.
PA(addr) == Frame(addr) * PageSize + (addr % PageSize)

ReadAt(mem, p, size) ==
  LET b(k) == IF k < size THEN mem[p + k] * Bytes(k) ELSE 0
  IN  b(0) + b(1) + b(2) + b(3)

LEMMA ReadMemAt ==
  ASSUME TableOf(pageTable), NEW mem, NEW addr \in Nat, NEW size, Page(addr) \in 1..Len(PageTable)
  PROVE  PhysAddr(addr) = PA(addr) /\ ReadMem(mem, addr, size) = ReadAt(mem, PA(addr), size)
<1>1. PhysAddr(addr) = PA(addr)
  BY PhysAddrIs DEF PA
<1> QED
  BY <1>1, Zenon DEF ReadMem, ReadAt

\* The address of a load or store.
AddrOf(s) == Wrap(s.registers[s.instr.rs] + s.instr.extra)

PlainLoads == {"LW", "LBU", "LHU"}

\* A load that is under way after the step s.
LoadPending(s, regs) ==
  Op(s) \in PlainLoads /\ s.trap = "NoException" =>
    /\ s.instr.rt \in GPRegs /\ AddrOf(s) \in Nat /\ Maps(AddrOf(s), SizeOf(Op(s)))
    /\ s.instr.rt # 0 =>
         Awaited(regs, s.instr.rt) = ReadAt(s.mainMemory, PA(AddrOf(s)), SizeOf(Op(s)))

\* A jump that is under way after it.
JumpPending(s, regs) ==
  Op(s) = "JR" =>
    regs[PCReg] = s.registers[NextPCReg] /\ regs[NextPCReg] = s.registers[s.instr.rs]

\* They have arrived, after a step u that ended with the exception t.
LoadArrived(s, u, regs, t) ==
  /\ Op(s) \in PlainLoads /\ s.trap = "NoException" /\ s.instr.rt # 0
  /\ ~(t = "SyscallException" /\ s.instr.rt = 2) /\ t # "HostFault"
  /\ (Op(u) \in Loads /\ u.trap = "NoException" /\ u.instr.rt = s.instr.rt
        => regs[LoadReg] = s.instr.rt)
  => /\ s.instr.rt \in GPRegs /\ AddrOf(s) \in Nat /\ Maps(AddrOf(s), SizeOf(Op(s)))
     /\ (IF u.registers[LoadReg] = s.instr.rt THEN regs ELSE u.registers)[s.instr.rt]
          = ReadAt(s.mainMemory, PA(AddrOf(s)), SizeOf(Op(s)))

JumpArrived(s, u, regs, t) ==
  Op(s) = "JR" /\ t = "NoException" =>
    regs[PCReg] = s.registers[s.instr.rs] /\ u.registers[PCReg] = s.registers[NextPCReg]

DelaysPending ==
  last # <<>> => LoadPending(Done, registers) /\ JumpPending(Done, registers)

DelaysArrived ==
  Len(last) = 2 =>
    LoadArrived(last[1], last[2], registers, trap) /\ JumpArrived(last[1], last[2], registers, trap)

LEMMA DelaysAre ==
  ASSUME StateOK, DelaysArrived
  PROVE  DelaysKept
<1> SUFFICES ASSUME Len(last) = 2 PROVE DelaysKept
  BY DEF DelaysKept
<1> DEFINE s == last[1]
           u == last[2]
<1>1. LoadArrived(s, u, registers, trap) /\ JumpArrived(s, u, registers, trap) /\ TableOf(pageTable)
  BY DEF DelaysArrived, StateOK
<1> HIDE DEF s, u
<1>2. ASSUME Op(s) \in PlainLoads, s.trap = "NoException", s.instr.rt # 0,
             ~(trap = "SyscallException" /\ s.instr.rt = 2), trap # "HostFault",
             Op(u) \in Loads /\ u.trap = "NoException" /\ u.instr.rt = s.instr.rt
               => registers[LoadReg] = s.instr.rt
      PROVE  (IF u.registers[LoadReg] = s.instr.rt THEN registers ELSE u.registers)[s.instr.rt]
               = ReadMem(s.mainMemory, AddrOf(s), SizeOf(Op(s)))
  <2>1. /\ AddrOf(s) \in Nat /\ Maps(AddrOf(s), SizeOf(Op(s)))
        /\ (IF u.registers[LoadReg] = s.instr.rt THEN registers ELSE u.registers)[s.instr.rt]
             = ReadAt(s.mainMemory, PA(AddrOf(s)), SizeOf(Op(s)))
    BY <1>1, <1>2 DEF LoadArrived
  <2>2. Page(AddrOf(s)) \in 1..Len(PageTable)
    BY <2>1 DEF Maps
  <2>3. ReadMem(s.mainMemory, AddrOf(s), SizeOf(Op(s)))
          = ReadAt(s.mainMemory, PA(AddrOf(s)), SizeOf(Op(s)))
    BY <1>1, <2>1, <2>2, ReadMemAt
  <2> QED
    BY <2>1, <2>3
<1>3. Op(s) = "JR" /\ trap = "NoException" =>
        registers[PCReg] = s.registers[s.instr.rs] /\ u.registers[PCReg] = s.registers[NextPCReg]
  BY <1>1 DEF JumpArrived
<1> QED
  BY <1>2, <1>3 DEF DelaysKept, PlainLoads, AddrOf, Op, s, u

LEMMA PendingInit ==
  ASSUME last = <<>>
  PROVE  DelaysPending /\ DelaysArrived
<1>1. Len(last) # 2
  OBVIOUS
<1> QED
  BY <1>1 DEF DelaysPending, DelaysArrived

\* What was pending arrives.
LEMMA ArrivedStep ==
  ASSUME StateOK, DelaysPending, NEW i, Recorded(i), Arrives
  PROVE  DelaysArrived'
<1> SUFFICES ASSUME Len(last') = 2 PROVE DelaysArrived'
  BY DEF DelaysArrived
<1> DEFINE s == Done
<1>1. last # <<>> /\ last'[1] = s /\ last'[2] = RecordOf(i)
  BY DEF Recorded
<1>2. LoadPending(s, registers) /\ JumpPending(s, registers)
  BY <1>1 DEF DelaysPending
<1>3. last'[2].registers = registers
  BY <1>1, RecordFields
<1> HIDE DEF s
<1>4. LoadArrived(s, last'[2], registers', trap')
  BY <1>2, <1>3 DEF LoadPending, LoadArrived, Arrives, Awaited
<1>5. JumpArrived(s, last'[2], registers', trap')
  BY <1>2, <1>3 DEF JumpPending, JumpArrived, Arrives
<1> QED
  BY <1>1, <1>4, <1>5 DEF DelaysArrived

\* A load or jump begins.
LEMMA PendingStep ==
  ASSUME StateOK, Fetched, NEW i, IsInstr(i), Recorded(i),
         \/ Compute(i) \/ MultDiv(i) \/ Jump(i) \/ LoadInstr(i) \/ StoreInstr(i)
         \/ SystemCall(i) \/ IllegalInstr(i)
  PROVE  DelaysPending'
<1> DEFINE s == RecordOf(i)
<1>1. Done' = s /\ s.instr = i /\ s.registers = registers /\ s.mainMemory = mainMemory
      /\ s.trap = trap'
  BY RecordFields DEF Recorded
<1> HIDE DEF s
<1>2. Op(s) = i.op
  BY <1>1 DEF Op
<1>3. LoadPending(s, registers')
  <2> SUFFICES ASSUME i.op \in PlainLoads, trap' = "NoException"
               PROVE  /\ i.rt \in GPRegs /\ AddrOf(s) \in Nat /\ Maps(AddrOf(s), SizeOf(i.op))
                      /\ Awaited(registers', i.rt) = ReadAt(mainMemory, PA(AddrOf(s)), SizeOf(i.op))
    BY <1>1, <1>2 DEF LoadPending
  <2>1. LoadInstr(i)
    BY DEF Compute, ToRd, ToRt, MultDiv, Jump, Branches, Jumps, StoreInstr, Stores,
           SystemCall, IllegalInstr, PlainLoads
  <2>2. ~Faulted(i)
    BY DEF Faulted, Faults
  <2>3. /\ Succeeded(i, registers, i.rt, LoadValue(i, Loaded(i)), PcAfter)
        /\ Maps(Accessed(i), SizeOf(i.op))
    BY <2>1, <2>2, LoadStep
  <2>4. Accessed(i) = AddrOf(s) /\ Accessed(i) \in Nat
    BY <1>1, AddressFacts DEF StateOK, PlainLoads, Accessed, Address, AddrOf, Rs
  <2>5. LoadValue(i, Loaded(i)) = Loaded(i)
    BY DEF LoadValue, PlainLoads
  <2>6. i.rt \in GPRegs
    BY DEF IsInstr, NoRt, PlainLoads
  <2>7. registers'[LoadReg] = i.rt /\ registers'[LoadValueReg] = Loaded(i)
    BY <2>3, <2>5 DEF Succeeded, Completed
  <2>8. Loaded(i) = ReadAt(mainMemory, PA(Accessed(i)), SizeOf(i.op))
    BY <2>3, <2>4, ReadMemAt DEF Loaded, Maps, StateOK
  <2> QED
    BY <2>3, <2>4, <2>6, <2>7, <2>8 DEF Awaited
<1>4. JumpPending(s, registers')
  <2> SUFFICES ASSUME i.op = "JR"
               PROVE  /\ registers'[PCReg] = registers[NextPCReg]
                      /\ registers'[NextPCReg] = registers[i.rs]
    BY <1>1, <1>2 DEF JumpPending
  <2>1. Jump(i)
    BY DEF Compute, ToRd, ToRt, MultDiv, LoadInstr, Loads, StoreInstr, Stores,
           SystemCall, IllegalInstr
  <2>2. Succeeded(i, Linked(i), 0, 0, Target(i))
    BY <2>1, JumpStep
  <2>3. Linked(i) = registers
    BY DEF Linked
  <2>4. Target(i) = registers[i.rs]
    BY <2>3 DEF Target, Branches
  <2> QED
    BY <2>2, <2>3, <2>4 DEF Succeeded, Completed
<1> QED
  BY <1>1, <1>3, <1>4 DEF DelaysPending

\* An interrupt brings what is pending, and takes away nothing that arrived.
LEMMA DelayTick ==
  ASSUME StateOK, LoadsPending, DelaysPending, DelaysArrived, OneTick
  PROVE  DelaysPending' /\ DelaysArrived'
<1>1. /\ Arrived(registers', registers) /\ registers'[LoadReg] = 0
      /\ registers'[PCReg] = registers[PCReg] /\ registers'[NextPCReg] = registers[NextPCReg]
      /\ UNCHANGED <<trap, last, Done>> /\ trap # "HostFault"
  BY TickFacts, RegNumbers
<1>2. DelaysPending'
  <2> SUFFICES ASSUME last # <<>>
               PROVE  LoadPending(Done, registers') /\ JumpPending(Done, registers')
    BY <1>1 DEF DelaysPending
  <2> DEFINE s == Done
  <2>1. LoadPending(s, registers) /\ JumpPending(s, registers)
    BY DEF DelaysPending
  <2> HIDE DEF s
  <2>2. JumpPending(s, registers')
    BY <1>1, <2>1 DEF JumpPending
  <2>3. \A r \in GPRegs : r # 0 => Awaited(registers', r) = Awaited(registers, r)
    BY TickAwaited
  <2>4. LoadPending(s, registers')
    BY <2>1, <2>3 DEF LoadPending
  <2> QED
    BY <2>2, <2>4 DEF s
<1>3. DelaysArrived'
  <2> SUFFICES ASSUME Len(last) = 2
               PROVE  /\ LoadArrived(last[1], last[2], registers', trap)
                      /\ JumpArrived(last[1], last[2], registers', trap)
    BY <1>1 DEF DelaysArrived
  <2> DEFINE s == last[1]
             u == last[2]
  <2>1. LoadArrived(s, u, registers, trap) /\ JumpArrived(s, u, registers, trap)
    BY DEF DelaysArrived
  <2>2. LoadFrom(u, registers)
    <3>1. u = Done /\ last # <<>>
      BY DEF Done
    <3> QED
      BY <1>1, <3>1 DEF LoadsPending
  <2> HIDE DEF s, u
  <2>3. JumpArrived(s, u, registers', trap)
    BY <1>1, <2>1 DEF JumpArrived
  <2>4. LoadArrived(s, u, registers', trap)
    <3> SUFFICES ASSUME Op(s) \in PlainLoads, s.trap = "NoException", s.instr.rt # 0,
                        ~(trap = "SyscallException" /\ s.instr.rt = 2),
                        Op(u) \in Loads /\ u.trap = "NoException" /\ u.instr.rt = s.instr.rt
                          => registers'[LoadReg] = s.instr.rt
                 PROVE  /\ s.instr.rt \in GPRegs /\ AddrOf(s) \in Nat /\ Maps(AddrOf(s), SizeOf(Op(s)))
                        /\ (IF u.registers[LoadReg] = s.instr.rt THEN registers' ELSE u.registers)[s.instr.rt]
                             = ReadAt(s.mainMemory, PA(AddrOf(s)), SizeOf(Op(s)))
      BY DEF LoadArrived
    <3>1. ~(Op(u) \in Loads /\ u.trap = "NoException" /\ u.instr.rt = s.instr.rt)
      BY <1>1
    <3>2. registers[LoadReg] # s.instr.rt
      BY <2>2, <3>1 DEF LoadFrom
    <3>3. /\ s.instr.rt \in GPRegs /\ AddrOf(s) \in Nat /\ Maps(AddrOf(s), SizeOf(Op(s)))
          /\ (IF u.registers[LoadReg] = s.instr.rt THEN registers ELSE u.registers)[s.instr.rt]
               = ReadAt(s.mainMemory, PA(AddrOf(s)), SizeOf(Op(s)))
      BY <1>1, <2>1, <3>1 DEF LoadArrived
    <3>4. registers'[s.instr.rt] = registers[s.instr.rt]
      BY <1>1, <3>2, <3>3 DEF Arrived
    <3> QED
      BY <3>3, <3>4
  <2> QED
    BY <2>3, <2>4 DEF s, u
<1> QED
  BY <1>2, <1>3

LEMMA DelayStep ==
  ASSUME StateOK, LoadsPending, DelaysPending, DelaysArrived, [Next]_vars
  PROVE  DelaysPending' /\ DelaysArrived'
<1>1. CASE UNCHANGED vars
  BY <1>1 DEF vars, DelaysPending, DelaysArrived, Done
<1>2. CASE FetchFault
  <2> DEFINE i == [op |-> "fetch"]
             s == RecordOf(i)
  <2>1. Faulted(i) /\ Recorded(i)
    BY <1>2, FetchFaultStep DEF Faulted
  <2>2. Done' = s /\ s.instr = i
    BY <2>1, RecordFields DEF Recorded
  <2>3. Op(s) = "fetch"
    BY <2>2 DEF Op
  <2> HIDE DEF i, s
  <2>4. LoadPending(s, registers') /\ JumpPending(s, registers')
    BY <2>3 DEF LoadPending, JumpPending, PlainLoads
  <2>5. DelaysPending'
    BY <2>2, <2>4 DEF DelaysPending
  <2> QED
    BY <2>1, <2>5, FaultedArrives, ArrivedStep
<1>3. ASSUME NEW w \in Program, OneInstruction(w) PROVE DelaysPending' /\ DelaysArrived'
  BY <1>3, InstructionStep, InstructionArrives, ArrivedStep, PendingStep
<1>4. CASE OneTick
  BY <1>4, DelayTick
<1> QED
  BY <1>1, <1>2, <1>3, <1>4 DEF Next

\* Loads and jumps take effect one instruction late, whatever that instruction
\* is and whenever interrupts are due (DelayedLoad, OneInstruction, CheckIfDue).
THEOREM DelaysAreKept == Spec => []DelaysKept
<1> DEFINE Inv == StateOK /\ LoadsPending /\ DelaysPending /\ DelaysArrived
<1>1. Init => Inv
  BY InitState, PendingInit DEF LoadsPending
<1>2. Inv /\ [Next]_vars => Inv'
  BY StateStep, LoadsStep, DelayStep
<1>3. Inv => DelaysKept
  BY DelaysAre
<1> HIDE DEF Inv
<1> QED
  BY <1>1, <1>2, <1>3, PTL DEF Spec

-----------------------------------------------------------------------------
(* Unaligned pairs.  First, words and their bytes.                         *)

\* A word that ends in zeros.
LEMMA JoinShort ==
  ASSUME NEW d0 \in Byte, NEW d1 \in Byte, NEW d2 \in Byte
  PROVE  /\ 0 \in Byte /\ Join(d0, 0, 0, 0) = d0 /\ d0 \in 0..(Bytes(1) - 1)
         /\ Join(d0, d1, 0, 0) = d0 + d1 * Bytes(1) /\ Join(d0, d1, 0, 0) \in 0..(Bytes(2) - 1)
         /\ Join(d0, d1, d2, 0) = (d0 + d1 * Bytes(1)) + d2 * Bytes(2)
         /\ Join(d0, d1, d2, 0) \in 0..(Bytes(3) - 1)
<1>1. Bytes(1) \in Nat \ {0} /\ Bytes(2) \in Nat \ {0} /\ Bytes(3) \in Nat \ {0}
  BY Sizes
<1>2. 0 \in Byte /\ 0 * Bytes(1) = 0 /\ 0 * Bytes(2) = 0 /\ 0 * Bytes(3) = 0
  BY <1>1 DEF Byte
<1>3. /\ d0 \in Nat /\ d1 * Bytes(1) \in Nat /\ d2 * Bytes(2) \in Nat
      /\ d0 + d1 * Bytes(1) \in 0..(Bytes(2) - 1)
      /\ (d0 + d1 * Bytes(1)) + d2 * Bytes(2) \in 0..(Bytes(3) - 1)
  BY <1>2, JoinRange
<1>4. /\ Join(d0, 0, 0, 0) = ((d0 + 0 * Bytes(1)) + 0 * Bytes(2)) + 0 * Bytes(3)
      /\ Join(d0, d1, 0, 0) = ((d0 + d1 * Bytes(1)) + 0 * Bytes(2)) + 0 * Bytes(3)
      /\ Join(d0, d1, d2, 0) = ((d0 + d1 * Bytes(1)) + d2 * Bytes(2)) + 0 * Bytes(3)
  BY <1>2, JoinRange
<1>5. d0 \in 0..(Bytes(1) - 1)
  BY DEF Byte
<1> QED
  BY <1>2, <1>3, <1>4, <1>5

\* Bytes that are shifted.
LEMMA Horner ==
  ASSUME NEW B \in Int, NEW x \in Int, NEW y \in Int, NEW z \in Int, NEW u \in Int
  PROVE  /\ B * ((x + y * B) + z * (B * B)) = (x * B + y * (B * B)) + z * (B * (B * B))
         /\ (B * B) * (x + y * B) = x * (B * B) + y * (B * (B * B))
         /\ (B * (B * B)) * x = x * (B * (B * B))
         /\ (B * B) * x = x * (B * B) /\ B * x = x * B
OBVIOUS

\* A word in two parts, at each of its bytes.
LEMMA JoinSplit ==
  ASSUME NEW d0 \in Byte, NEW d1 \in Byte, NEW d2 \in Byte, NEW d3 \in Byte
  PROVE  /\ Join(d0, d1, d2, d3) = Bytes(1) * Join(d1, d2, d3, 0) + d0
         /\ Join(d0, d1, d2, d3) = Bytes(2) * Join(d2, d3, 0, 0) + Join(d0, d1, 0, 0)
         /\ Join(d0, d1, d2, d3) = Bytes(3) * d3 + Join(d0, d1, d2, 0)
<1> DEFINE B == Bytes(1)
<1>1. B \in Int /\ Bytes(2) = B * B /\ Bytes(3) = B * (B * B)
  BY Sizes, SizeProducts
<1>2. d0 \in Int /\ d1 \in Int /\ d2 \in Int /\ d3 \in Int
  BY Sizes DEF Byte
<1>3. /\ Join(d0, d1, d2, d3) = ((d0 + d1 * B) + d2 * Bytes(2)) + d3 * Bytes(3)
      /\ Join(d1, d2, d3, 0) = (d1 + d2 * B) + d3 * Bytes(2)
      /\ Join(d2, d3, 0, 0) = d2 + d3 * B /\ Join(d0, d1, 0, 0) = d0 + d1 * B
      /\ Join(d0, d1, d2, 0) = (d0 + d1 * B) + d2 * Bytes(2)
  BY JoinRange, JoinShort
<1> HIDE DEF B
<1>4. /\ d1 * B \in Int /\ d2 * (B * B) \in Int /\ d3 * (B * (B * B)) \in Int
  BY <1>1, <1>2
<1>5. B * ((d1 + d2 * B) + d3 * (B * B)) = (d1 * B + d2 * (B * B)) + d3 * (B * (B * B))
  BY <1>1, <1>2, Horner
<1>6. (B * B) * (d2 + d3 * B) = d2 * (B * B) + d3 * (B * (B * B))
  BY <1>1, <1>2, Horner
<1>7. (B * (B * B)) * d3 = d3 * (B * (B * B))
  BY <1>1, <1>2, Horner
<1>8. Bytes(1) = B
  BY DEF B
<1> QED
  BY <1>1, <1>2, <1>3, <1>4, <1>5, <1>6, <1>7, <1>8

\* The parts are what division gives.
LEMMA JoinParts ==
  ASSUME NEW d0 \in Byte, NEW d1 \in Byte, NEW d2 \in Byte, NEW d3 \in Byte
  PROVE  /\ Join(d0, d1, d2, d3) \in Word
         /\ Join(d0, d1, d2, d3) % Bytes(0) = 0
         /\ Join(d0, d1, d2, d3) \div Bytes(0) = Join(d0, d1, d2, d3)
         /\ Join(d0, d1, d2, d3) % Bytes(1) = d0
         /\ Join(d0, d1, d2, d3) \div Bytes(1) = Join(d1, d2, d3, 0)
         /\ Join(d0, d1, d2, d3) % Bytes(2) = Join(d0, d1, 0, 0)
         /\ Join(d0, d1, d2, d3) \div Bytes(2) = Join(d2, d3, 0, 0)
         /\ Join(d0, d1, d2, d3) % Bytes(3) = Join(d0, d1, d2, 0)
         /\ Join(d0, d1, d2, d3) \div Bytes(3) = d3
         /\ Join(d0, d1, d2, d3) % Bytes(4) = Join(d0, d1, d2, d3)
         /\ Join(d0, d1, d2, d3) \div Bytes(4) = 0
<1> DEFINE v == Join(d0, d1, d2, d3)
<1>1. /\ Bytes(0) = 1 /\ Bytes(1) \in Nat \ {0} /\ Bytes(2) \in Nat \ {0} /\ Bytes(3) \in Nat \ {0}
      /\ Bytes(4) \in Nat \ {0} /\ Bytes(4) = Modulus
  BY Sizes
<1>2. v \in 0..(Bytes(4) - 1)
  BY JoinRange
<1>3. /\ Join(d1, d2, d3, 0) \in Int /\ Join(d2, d3, 0, 0) \in Int /\ d3 \in Int
      /\ d0 \in 0..(Bytes(1) - 1) /\ Join(d0, d1, 0, 0) \in 0..(Bytes(2) - 1)
      /\ Join(d0, d1, d2, 0) \in 0..(Bytes(3) - 1)
  BY <1>1, JoinShort DEF Byte
<1>4. /\ v = Bytes(1) * Join(d1, d2, d3, 0) + d0
      /\ v = Bytes(2) * Join(d2, d3, 0, 0) + Join(d0, d1, 0, 0)
      /\ v = Bytes(3) * d3 + Join(d0, d1, d2, 0)
  BY JoinSplit
<1> HIDE DEF v
<1>5. v \in Int /\ v \in Word
  BY <1>1, <1>2 DEF Word
<1>6. v % 1 = 0 /\ v \div 1 = v
  BY <1>5
<1>7. v % Bytes(1) = d0 /\ v \div Bytes(1) = Join(d1, d2, d3, 0)
  BY <1>1, <1>3, <1>4, <1>5, DivisionUnique
<1>8. v % Bytes(2) = Join(d0, d1, 0, 0) /\ v \div Bytes(2) = Join(d2, d3, 0, 0)
  BY <1>1, <1>3, <1>4, <1>5, DivisionUnique
<1>9. v % Bytes(3) = Join(d0, d1, d2, 0) /\ v \div Bytes(3) = d3
  BY <1>1, <1>3, <1>4, <1>5, DivisionUnique
<1>10. v % Bytes(4) = v /\ v \div Bytes(4) = 0
  <2>1. v = Bytes(4) * 0 + v /\ 0 \in Int
    BY <1>1, <1>5
  <2> QED
    BY <1>1, <1>2, <1>5, <2>1, DivisionUnique
<1> QED
  BY <1>1, <1>5, <1>6, <1>7, <1>8, <1>9, <1>10 DEF v

\* A word from two parts.
LEMMA Merged ==
  ASSUME NEW d0 \in Byte, NEW d1 \in Byte, NEW d2 \in Byte, NEW d3 \in Byte
  PROVE  /\ Join(d1, d2, d3, 0) * Bytes(1) + d0 = Join(d0, d1, d2, d3)
         /\ Join(d2, d3, 0, 0) * Bytes(2) + Join(d0, d1, 0, 0) = Join(d0, d1, d2, d3)
         /\ d3 * Bytes(3) + Join(d0, d1, d2, 0) = Join(d0, d1, d2, d3)
         /\ d0 + Join(d1, d2, d3, 0) * Bytes(1) = Join(d0, d1, d2, d3)
         /\ Join(d0, d1, 0, 0) + Join(d2, d3, 0, 0) * Bytes(2) = Join(d0, d1, d2, d3)
         /\ Join(d0, d1, d2, 0) + d3 * Bytes(3) = Join(d0, d1, d2, d3)
<1>1. Bytes(1) \in Int /\ Bytes(2) \in Int /\ Bytes(3) \in Int
  BY Sizes
<1>2. /\ Join(d1, d2, d3, 0) \in Int /\ Join(d2, d3, 0, 0) \in Int /\ d3 \in Int
      /\ d0 \in Int /\ Join(d0, d1, 0, 0) \in Int /\ Join(d0, d1, d2, 0) \in Int
  BY <1>1, JoinShort DEF Byte
<1>3. \A x, y, z \in Int : x * y + z = y * x + z /\ z + x * y = y * x + z
  OBVIOUS
<1>4. /\ Join(d0, d1, d2, d3) = Bytes(1) * Join(d1, d2, d3, 0) + d0
      /\ Join(d0, d1, d2, d3) = Bytes(2) * Join(d2, d3, 0, 0) + Join(d0, d1, 0, 0)
      /\ Join(d0, d1, d2, d3) = Bytes(3) * d3 + Join(d0, d1, d2, 0)
  BY JoinSplit
<1> QED
  BY <1>1, <1>2, <1>3, <1>4

\* The numbers of bytes in an instance of Splits.
LEMMA ByteNumbers ==
  /\ 3 - 0 = 3 /\ 3 - 1 = 2 /\ 3 - 2 = 1 /\ 3 - 3 = 0
  /\ 4 - 0 = 4 /\ 4 - 1 = 3 /\ 4 - 2 = 2 /\ 4 - 3 = 1
  /\ 0 + 1 = 1 /\ 1 + 1 = 2 /\ 2 + 1 = 3 /\ 3 + 1 = 4
OBVIOUS

\* The word of four bytes.
JoinOf(c) == Join(c[0], c[1], c[2], c[3])

\* What SWR writes over the bytes a of a word, from the bytes r of a register.
RightStored(k, v, R) == (v % Bytes(k)) + Wrap(R * Bytes(k))

LEMMA RightStoredIs ==
  ASSUME NEW a \in [0..3 -> Byte], NEW r \in [0..3 -> Byte]
  PROVE  /\ RightStored(0, JoinOf(a), JoinOf(r)) = Join(r[0], r[1], r[2], r[3])
         /\ RightStored(1, JoinOf(a), JoinOf(r)) = Join(a[0], r[0], r[1], r[2])
         /\ RightStored(2, JoinOf(a), JoinOf(r)) = Join(a[0], a[1], r[0], r[1])
         /\ RightStored(3, JoinOf(a), JoinOf(r)) = Join(a[0], a[1], a[2], r[0])
<1> DEFINE a0 == a[0]
           a1 == a[1]
           a2 == a[2]
           a3 == a[3]
           r0 == r[0]
           r1 == r[1]
           r2 == r[2]
           r3 == r[3]
           v == Join(a0, a1, a2, a3)
           R == Join(r0, r1, r2, r3)
<1>a. a0 \in Byte /\ a1 \in Byte /\ a2 \in Byte /\ a3 \in Byte
  OBVIOUS
<1>r. r0 \in Byte /\ r1 \in Byte /\ r2 \in Byte /\ r3 \in Byte
  OBVIOUS
<1> HIDE DEF a0, a1, a2, a3, r0, r1, r2, r3
<1>1. /\ R \in Word /\ R \in Nat
      /\ R % Bytes(4) = R /\ R % Bytes(3) = Join(r0, r1, r2, 0)
      /\ R % Bytes(2) = Join(r0, r1, 0, 0) /\ R % Bytes(1) = r0
  <2>1. /\ R \in Word /\ R % Bytes(4) = R /\ R % Bytes(3) = Join(r0, r1, r2, 0)
        /\ R % Bytes(2) = Join(r0, r1, 0, 0) /\ R % Bytes(1) = r0
    BY <1>r, JoinParts
  <2> QED
    BY <2>1, WordNat
<1>2. /\ v % Bytes(0) = 0 /\ v % Bytes(1) = a0 /\ v % Bytes(2) = Join(a0, a1, 0, 0)
      /\ v % Bytes(3) = Join(a0, a1, a2, 0)
  BY <1>a, JoinParts
<1>3. ASSUME NEW k \in 0..3 PROVE Wrap(R * Bytes(k)) = (R % Bytes(4 - k)) * Bytes(k)
  <2>1. Bytes(k) \in Nat \ {0} /\ Bytes(4 - k) \in Nat \ {0}
        /\ Modulus = Bytes(k) * Bytes(4 - k)
    BY Splits
  <2>2. Modulus = Bytes(4 - k) * Bytes(k)
    BY <2>1
  <2> HIDE DEF R
  <2>3. R \in Nat
    BY <1>1
  <2>4. (R * Bytes(k)) % (Bytes(4 - k) * Bytes(k)) = (R % Bytes(4 - k)) * Bytes(k)
    BY <2>1, <2>3, ShiftMod
  <2> QED
    BY <2>2, <2>4 DEF Wrap
<1>4. /\ Wrap(R * Bytes(0)) = (R % Bytes(4)) * Bytes(0) /\ Wrap(R * Bytes(1)) = (R % Bytes(3)) * Bytes(1)
      /\ Wrap(R * Bytes(2)) = (R % Bytes(2)) * Bytes(2) /\ Wrap(R * Bytes(3)) = (R % Bytes(1)) * Bytes(3)
  <2>1. 0 \in 0..3 /\ 1 \in 0..3 /\ 2 \in 0..3 /\ 3 \in 0..3
    OBVIOUS
  <2> QED
    BY <1>3, <2>1, ByteNumbers
<1>5. RightStored(0, v, R) = R
  <2>1. RightStored(0, v, R) = 0 + R * Bytes(0) /\ Bytes(0) = 1
    BY <1>1, <1>2, <1>4, Sizes DEF RightStored
  <2> QED
    BY <1>1, <2>1
<1>6. /\ RightStored(1, v, R) = a0 + Join(r0, r1, r2, 0) * Bytes(1)
      /\ RightStored(2, v, R) = Join(a0, a1, 0, 0) + Join(r0, r1, 0, 0) * Bytes(2)
      /\ RightStored(3, v, R) = Join(a0, a1, a2, 0) + r0 * Bytes(3)
  BY <1>1, <1>2, <1>4, Zenon DEF RightStored
<1>7. /\ a0 + Join(r0, r1, r2, 0) * Bytes(1) = Join(a0, r0, r1, r2)
      /\ Join(a0, a1, 0, 0) + Join(r0, r1, 0, 0) * Bytes(2) = Join(a0, a1, r0, r1)
      /\ Join(a0, a1, a2, 0) + r0 * Bytes(3) = Join(a0, a1, a2, r0)
  <2>1. a0 + Join(r0, r1, r2, 0) * Bytes(1) = Join(a0, r0, r1, r2)
    <3>1. a0 \in Byte /\ r0 \in Byte /\ r1 \in Byte /\ r2 \in Byte
      BY <1>a, <1>r
    <3> QED
      BY <3>1, Merged
  <2>2. Join(a0, a1, 0, 0) + Join(r0, r1, 0, 0) * Bytes(2) = Join(a0, a1, r0, r1)
    <3>1. a0 \in Byte /\ a1 \in Byte /\ r0 \in Byte /\ r1 \in Byte
      BY <1>a, <1>r
    <3> QED
      BY <3>1, Merged
  <2>3. Join(a0, a1, a2, 0) + r0 * Bytes(3) = Join(a0, a1, a2, r0)
    <3>1. a0 \in Byte /\ a1 \in Byte /\ a2 \in Byte /\ r0 \in Byte
      BY <1>a, <1>r
    <3> QED
      BY <3>1, Merged
  <2> QED
    BY <2>1, <2>2, <2>3
<1> QED
  BY <1>5, <1>6, <1>7 DEF JoinOf, a0, a1, a2, a3, r0, r1, r2, r3

\* What SWL writes.
LeftStored(k, v, R) == (v \div Bytes(k + 1)) * Bytes(k + 1) + R \div Bytes(3 - k)

LEMMA LeftStoredIs ==
  ASSUME NEW a \in [0..3 -> Byte], NEW r \in [0..3 -> Byte]
  PROVE  /\ LeftStored(3, JoinOf(a), JoinOf(r)) = Join(r[0], r[1], r[2], r[3])
         /\ LeftStored(0, JoinOf(a), JoinOf(r)) = Join(r[3], a[1], a[2], a[3])
         /\ LeftStored(1, JoinOf(a), JoinOf(r)) = Join(r[2], r[3], a[2], a[3])
         /\ LeftStored(2, JoinOf(a), JoinOf(r)) = Join(r[1], r[2], r[3], a[3])
<1> DEFINE a0 == a[0]
           a1 == a[1]
           a2 == a[2]
           a3 == a[3]
           r0 == r[0]
           r1 == r[1]
           r2 == r[2]
           r3 == r[3]
           v == Join(a0, a1, a2, a3)
           R == Join(r0, r1, r2, r3)
<1>a. a0 \in Byte /\ a1 \in Byte /\ a2 \in Byte /\ a3 \in Byte
  OBVIOUS
<1>r. r0 \in Byte /\ r1 \in Byte /\ r2 \in Byte /\ r3 \in Byte
  OBVIOUS
<1> HIDE DEF a0, a1, a2, a3, r0, r1, r2, r3
<1>1. /\ R \in Int /\ R \div Bytes(0) = R /\ R \div Bytes(1) = Join(r1, r2, r3, 0)
      /\ R \div Bytes(2) = Join(r2, r3, 0, 0) /\ R \div Bytes(3) = r3
  <2>1. /\ R \in Word /\ R \div Bytes(0) = R /\ R \div Bytes(1) = Join(r1, r2, r3, 0)
        /\ R \div Bytes(2) = Join(r2, r3, 0, 0) /\ R \div Bytes(3) = r3
    BY <1>r, JoinParts
  <2> QED
    BY <2>1, WordNat
<1>2. /\ v \div Bytes(4) = 0 /\ v \div Bytes(1) = Join(a1, a2, a3, 0)
      /\ v \div Bytes(2) = Join(a2, a3, 0, 0) /\ v \div Bytes(3) = a3
  BY <1>a, JoinParts
<1>3. LeftStored(3, v, R) = R
  <2>1. LeftStored(3, v, R) = 0 * Bytes(4) + R /\ Bytes(4) \in Int
    BY <1>1, <1>2, ByteNumbers, Sizes DEF LeftStored
  <2> QED
    BY <1>1, <2>1
<1>4. /\ LeftStored(0, v, R) = Join(a1, a2, a3, 0) * Bytes(1) + r3
      /\ LeftStored(1, v, R) = Join(a2, a3, 0, 0) * Bytes(2) + Join(r2, r3, 0, 0)
      /\ LeftStored(2, v, R) = a3 * Bytes(3) + Join(r1, r2, r3, 0)
  BY <1>1, <1>2, ByteNumbers DEF LeftStored
<1>5. /\ Join(a1, a2, a3, 0) * Bytes(1) + r3 = Join(r3, a1, a2, a3)
      /\ Join(a2, a3, 0, 0) * Bytes(2) + Join(r2, r3, 0, 0) = Join(r2, r3, a2, a3)
      /\ a3 * Bytes(3) + Join(r1, r2, r3, 0) = Join(r1, r2, r3, a3)
  <2>1. Join(a1, a2, a3, 0) * Bytes(1) + r3 = Join(r3, a1, a2, a3)
    <3>1. r3 \in Byte /\ a1 \in Byte /\ a2 \in Byte /\ a3 \in Byte
      BY <1>a, <1>r
    <3> QED
      BY <3>1, Merged
  <2>2. Join(a2, a3, 0, 0) * Bytes(2) + Join(r2, r3, 0, 0) = Join(r2, r3, a2, a3)
    <3>1. r2 \in Byte /\ r3 \in Byte /\ a2 \in Byte /\ a3 \in Byte
      BY <1>a, <1>r
    <3> QED
      BY <3>1, Merged
  <2>3. a3 * Bytes(3) + Join(r1, r2, r3, 0) = Join(r1, r2, r3, a3)
    <3>1. r1 \in Byte /\ r2 \in Byte /\ r3 \in Byte /\ a3 \in Byte
      BY <1>a, <1>r
    <3> QED
      BY <3>1, Merged
  <2> QED
    BY <2>1, <2>2, <2>3
<1> QED
  BY <1>3, <1>4, <1>5 DEF JoinOf, a0, a1, a2, a3, r0, r1, r2, r3

\* What LWR and LWL load.
RightLoaded(k, v, p) == (p \div Bytes(4 - k)) * Bytes(4 - k) + v \div Bytes(k)
LeftLoaded(k, v, p) == Wrap(v * Bytes(3 - k)) + (p % Bytes(3 - k))

LEMMA RightLoadedIs ==
  ASSUME NEW k \in 0..3, NEW v \in Word, NEW p \in Word
  PROVE  RightLoaded(k, v, p) \in Word /\ RightLoaded(k, v, p) % Bytes(4 - k) = v \div Bytes(k)
<1> DEFINE Y == Bytes(4 - k)
           q == p \div Y
           r == v \div Bytes(k)
<1>1. Y \in Nat \ {0} /\ p \in Int
  BY Splits, WordNat
<1>2. q \in Int
  BY <1>1, Division
<1>3. r \in 0..(Y - 1) /\ q * Y + r \in Word
  BY RightMerge
<1>4. RightLoaded(k, v, p) = q * Y + r
  BY DEF RightLoaded
<1> HIDE DEF Y, q, r
<1>5. q * Y + r = Y * q + r /\ q * Y + r \in Int
  BY <1>1, <1>2, <1>3
<1>6. (q * Y + r) % Y = r
  BY <1>1, <1>2, <1>3, <1>5, DivisionUnique
<1> QED
  BY <1>3, <1>4, <1>6 DEF Y, r

\* What LWL makes of the word it reads and of what LWR has loaded.
LEMMA LeftLoadedIs ==
  ASSUME NEW a \in [0..3 -> Byte], NEW b \in [0..3 -> Byte], NEW p \in Word
  PROVE  /\ LeftLoaded(3, JoinOf(a), p) = JoinOf(a)
         /\ p % Bytes(3) = JoinOf(a) \div Bytes(1) =>
              LeftLoaded(0, JoinOf(b), p) = Join(a[1], a[2], a[3], b[0])
         /\ p % Bytes(2) = JoinOf(a) \div Bytes(2) =>
              LeftLoaded(1, JoinOf(b), p) = Join(a[2], a[3], b[0], b[1])
         /\ p % Bytes(1) = JoinOf(a) \div Bytes(3) =>
              LeftLoaded(2, JoinOf(b), p) = Join(a[3], b[0], b[1], b[2])
<1> DEFINE a0 == a[0]
           a1 == a[1]
           a2 == a[2]
           a3 == a[3]
           b0 == b[0]
           b1 == b[1]
           b2 == b[2]
           b3 == b[3]
           v == Join(a0, a1, a2, a3)
           u == Join(b0, b1, b2, b3)
<1>a. a0 \in Byte /\ a1 \in Byte /\ a2 \in Byte /\ a3 \in Byte
  OBVIOUS
<1>b. b0 \in Byte /\ b1 \in Byte /\ b2 \in Byte /\ b3 \in Byte
  OBVIOUS
<1> HIDE DEF a0, a1, a2, a3, b0, b1, b2, b3
<1>1. /\ v \in Word /\ v \in Int /\ v % Bytes(4) = v /\ v \div Bytes(1) = Join(a1, a2, a3, 0)
      /\ v \div Bytes(2) = Join(a2, a3, 0, 0) /\ v \div Bytes(3) = a3
  <2>1. /\ v \in Word /\ v % Bytes(4) = v /\ v \div Bytes(1) = Join(a1, a2, a3, 0)
        /\ v \div Bytes(2) = Join(a2, a3, 0, 0) /\ v \div Bytes(3) = a3
    BY <1>a, JoinParts
  <2> QED
    BY <2>1, WordNat
<1>2. /\ u \in Word /\ u % Bytes(1) = b0 /\ u % Bytes(2) = Join(b0, b1, 0, 0)
      /\ u % Bytes(3) = Join(b0, b1, b2, 0)
  BY <1>b, JoinParts
<1>3. ASSUME NEW k \in 0..3, NEW w \in Word
      PROVE  LeftLoaded(k, w, p) = (w % Bytes(k + 1)) * Bytes(3 - k) + (p % Bytes(3 - k))
  BY LeftMerge DEF LeftLoaded
<1>4. /\ LeftLoaded(3, v, p) = (v % Bytes(4)) * Bytes(0) + (p % Bytes(0))
      /\ LeftLoaded(0, u, p) = (u % Bytes(1)) * Bytes(3) + (p % Bytes(3))
      /\ LeftLoaded(1, u, p) = (u % Bytes(2)) * Bytes(2) + (p % Bytes(2))
      /\ LeftLoaded(2, u, p) = (u % Bytes(3)) * Bytes(1) + (p % Bytes(1))
  <2>1. 0 \in 0..3 /\ 1 \in 0..3 /\ 2 \in 0..3 /\ 3 \in 0..3
    OBVIOUS
  <2> QED
    BY <1>1, <1>2, <1>3, <2>1, ByteNumbers
<1>5. LeftLoaded(3, v, p) = v
  <2>1. Bytes(0) = 1 /\ p \in Int
    BY Sizes, WordNat
  <2>2. p % 1 = 0 /\ v * 1 + 0 = v
    BY <1>1, <2>1
  <2> QED
    BY <1>1, <1>4, <2>1, <2>2
<1>6. /\ b0 * Bytes(3) + Join(a1, a2, a3, 0) = Join(a1, a2, a3, b0)
      /\ Join(b0, b1, 0, 0) * Bytes(2) + Join(a2, a3, 0, 0) = Join(a2, a3, b0, b1)
      /\ Join(b0, b1, b2, 0) * Bytes(1) + a3 = Join(a3, b0, b1, b2)
  <2>1. b0 * Bytes(3) + Join(a1, a2, a3, 0) = Join(a1, a2, a3, b0)
    <3>1. a1 \in Byte /\ a2 \in Byte /\ a3 \in Byte /\ b0 \in Byte
      BY <1>a, <1>b
    <3> QED
      BY <3>1, Merged
  <2>2. Join(b0, b1, 0, 0) * Bytes(2) + Join(a2, a3, 0, 0) = Join(a2, a3, b0, b1)
    <3>1. a2 \in Byte /\ a3 \in Byte /\ b0 \in Byte /\ b1 \in Byte
      BY <1>a, <1>b
    <3> QED
      BY <3>1, Merged
  <2>3. Join(b0, b1, b2, 0) * Bytes(1) + a3 = Join(a3, b0, b1, b2)
    <3>1. a3 \in Byte /\ b0 \in Byte /\ b1 \in Byte /\ b2 \in Byte
      BY <1>a, <1>b
    <3> QED
      BY <3>1, Merged
  <2> QED
    BY <2>1, <2>2, <2>3
<1>7. /\ p % Bytes(3) = v \div Bytes(1) => LeftLoaded(0, u, p) = Join(a1, a2, a3, b0)
      /\ p % Bytes(2) = v \div Bytes(2) => LeftLoaded(1, u, p) = Join(a2, a3, b0, b1)
      /\ p % Bytes(1) = v \div Bytes(3) => LeftLoaded(2, u, p) = Join(a3, b0, b1, b2)
  BY <1>1, <1>2, <1>4, <1>6
<1>8. v = JoinOf(a) /\ u = JoinOf(b)
  BY DEF JoinOf, a0, a1, a2, a3, b0, b1, b2, b3
<1> HIDE DEF v, u
<1> QED
  BY <1>5, <1>7, <1>8 DEF a0, a1, a2, a3, b0, b1, b2, b3

-----------------------------------------------------------------------------
(* The bytes of memory by their virtual addresses.                         *)

VByte(mem, a) == mem[PA(a)]
WordAt(mem, a) == Join(VByte(mem, a + 0), VByte(mem, a + 1), VByte(mem, a + 2), VByte(mem, a + 3))

\* The bytes of an aligned word are in one page.
LEMMA SamePage ==
  ASSUME NEW A \in Nat, Maps(A, 4), NEW m \in 0..3
  PROVE  /\ A + m \in Nat /\ Page(A + m) = Page(A) /\ Maps(A + m, 1)
         /\ PA(A) \in Int /\ PA(A + m) = PA(A) + m
<1> DEFINE o == A % PageSize
           q == A \div PageSize
<1>1. PageSize \in Nat \ {0} /\ A % 4 = 0
  BY MachineAssumption DEF Maps
<1>2. o \in Nat /\ o + 4 <= PageSize
  BY <1>1, OffsetFits
<1>3. q \in Int /\ A = PageSize * q + o
  <2>1. A \in Int
    OBVIOUS
  <2> HIDE DEF o, q
  <2>2. A \div PageSize \in Int /\ A = PageSize * (A \div PageSize) + (A % PageSize)
    BY <1>1, <2>1, Division
  <2> QED
    BY <2>2 DEF o, q
<1> HIDE DEF o, q
<1>4. A + m \in Int /\ A + m = PageSize * q + (o + m) /\ o + m \in 0..(PageSize - 1)
  <2>1. PageSize * q \in Int
    BY <1>1, <1>3
  <2> QED
    BY <1>1, <1>2, <1>3, <2>1
<1>5. (A + m) % PageSize = o + m /\ (A + m) \div PageSize = q
  BY <1>1, <1>3, <1>4, DivisionUnique
<1>6. Page(A + m) = Page(A)
  BY <1>5 DEF Page, q
<1>7. Frame(A + m) = Frame(A)
  BY <1>6 DEF Frame
<1>8. Frame(A) \in Nat
  <2>1. Page(A) \in 1..Len(PageTable) /\ PageTable \in Seq(Entry)
    BY MachineAssumption DEF Maps
  <2>2. PageTable[Page(A)] \in Entry
    BY <2>1
  <2> QED
    BY <2>2 DEF Frame, Entry
<1>9. Frame(A) * PageSize \in Int
  BY <1>1, <1>8
<1>10. PA(A) = Frame(A) * PageSize + o /\ PA(A + m) = Frame(A) * PageSize + (o + m)
  BY <1>5, <1>7 DEF PA, o
<1>11. PA(A) \in Int /\ PA(A + m) = PA(A) + m
  BY <1>2, <1>9, <1>10
<1>12. A + m \in Nat /\ (A + m) % 1 = 0
  OBVIOUS
<1> QED
  BY <1>6, <1>11, <1>12 DEF Maps

\* No two mapped addresses have the same place.
LEMMA PlacesDiffer ==
  ASSUME NEW a \in Nat, NEW b \in Nat, Maps(a, 1), Maps(b, 1), PA(a) = PA(b)
  PROVE  a = b
<1>1. PageSize \in Nat \ {0} /\ PageTable \in Seq(Entry)
  BY MachineAssumption
<1>2. ASSUME NEW c \in Nat, Maps(c, 1)
      PROVE  /\ Frame(c) \in Nat /\ c % PageSize \in 0..(PageSize - 1) /\ PA(c) \in Int
             /\ PA(c) % PageSize = c % PageSize /\ PA(c) \div PageSize = Frame(c)
             /\ c \div PageSize \in Int /\ c = PageSize * (c \div PageSize) + (c % PageSize)
  <2>1. PageTable[Page(c)] \in Entry
    BY <1>1, <1>2 DEF Maps
  <2>2. Frame(c) \in Nat
    BY <2>1 DEF Frame, Entry
  <2>3. c % PageSize \in 0..(PageSize - 1) /\ c \div PageSize \in Int
        /\ c = PageSize * (c \div PageSize) + (c % PageSize)
    BY <1>1, Division
  <2> PICK o : o = c % PageSize
    OBVIOUS
  <2> PICK f : f = Frame(c)
    OBVIOUS
  <2>4. PA(c) = f * PageSize + o /\ o \in 0..(PageSize - 1) /\ f \in Nat
    BY <2>2, <2>3 DEF PA
  <2> PICK s : s = PA(c)
    OBVIOUS
  <2>5. s \in Int /\ s = PageSize * f + o /\ f \in Int
    BY <1>1, <2>4
  <2>6. s % PageSize = o /\ s \div PageSize = f
    BY <1>1, <2>4, <2>5, DivisionUnique
  <2> QED
    BY <2>2, <2>3, <2>4, <2>5, <2>6
<1>3. Frame(a) = Frame(b) /\ a % PageSize = b % PageSize
  BY <1>2
<1>4. Page(a) = Page(b)
  <2>1. /\ Page(a) \in 1..Len(PageTable) /\ Page(b) \in 1..Len(PageTable)
        /\ PageTable[Page(a)].valid /\ PageTable[Page(b)].valid
    BY DEF Maps
  <2> QED
    BY <1>3, <2>1, MachineAssumption DEF Frame
<1>5. a \div PageSize = b \div PageSize
  BY <1>2, <1>4 DEF Page
<1> QED
  BY <1>2, <1>3, <1>5

\* An aligned word that is mapped, byte by byte.
LEMMA WordBytes ==
  ASSUME NEW mem, MemOK(mem), NEW A \in Nat, Maps(A, 4), TableOf(pageTable)
  PROVE  /\ \A m \in 0..3 : VByte(mem, A + m) \in Byte /\ PA(A + m) \in 0..(NumPhysPages * PageSize - 1)
         /\ ReadMem(mem, A, 4) = WordAt(mem, A)
<1>1. \A m \in 0..3 : PA(A + m) = PA(A) + m /\ PA(A) \in Int
  BY SamePage
<1>2. Page(A) \in 1..Len(PageTable)
  BY DEF Maps
<1>3. PhysAddr(A) = PA(A)
  BY <1>2, ReadMemAt
<1>4. \A m \in 0..(4 - 1) : PhysAddr(A) + m \in 0..(NumPhysPages * PageSize - 1)
  BY AccessFits
<1>5. \A m \in 0..3 : PA(A + m) \in 0..(NumPhysPages * PageSize - 1)
  BY <1>1, <1>3, <1>4
<1>6. \A m \in 0..3 : VByte(mem, A + m) \in Byte
  BY <1>5 DEF VByte, MemOK, Byte
<1>7. ReadMem(mem, A, 4) = Join(mem[PhysAddr(A) + 0], mem[PhysAddr(A) + 1],
                                mem[PhysAddr(A) + 2], mem[PhysAddr(A) + 3])
  BY ReadMemIs
<1>8. /\ VByte(mem, A + 0) = mem[PhysAddr(A) + 0] /\ VByte(mem, A + 1) = mem[PhysAddr(A) + 1]
      /\ VByte(mem, A + 2) = mem[PhysAddr(A) + 2] /\ VByte(mem, A + 3) = mem[PhysAddr(A) + 3]
  BY <1>1, <1>3 DEF VByte
<1> QED
  BY <1>5, <1>6, <1>7, <1>8 DEF WordAt

\* The digits of a word.
LEMMA JoinDigits ==
  ASSUME NEW d0 \in Byte, NEW d1 \in Byte, NEW d2 \in Byte, NEW d3 \in Byte,
         NEW v, v = Join(d0, d1, d2, d3)
  PROVE  /\ (v \div Bytes(0)) % Bytes(1) = d0 /\ (v \div Bytes(1)) % Bytes(1) = d1
         /\ (v \div Bytes(2)) % Bytes(1) = d2 /\ (v \div Bytes(3)) % Bytes(1) = d3
<1>1. 0 \in Byte
  BY JoinShort
<1>2. /\ v \div Bytes(0) = v /\ v \div Bytes(1) = Join(d1, d2, d3, 0)
      /\ v \div Bytes(2) = Join(d2, d3, 0, 0) /\ v \div Bytes(3) = d3 /\ v % Bytes(1) = d0
  BY JoinParts
<1>3. Join(d1, d2, d3, 0) % Bytes(1) = d1
  BY <1>1, JoinParts
<1>4. Join(d2, d3, 0, 0) % Bytes(1) = d2
  BY <1>1, JoinParts
<1>5. Join(d3, 0, 0, 0) % Bytes(1) = d3
  BY <1>1, JoinParts
<1>6. Join(d3, 0, 0, 0) = d3
  BY JoinShort
<1> QED
  BY <1>2, <1>3, <1>4, <1>5, <1>6

\* A quotient of a quotient.
LEMMA DivideTwice ==
  ASSUME NEW x \in Nat, NEW m \in Nat \ {0}, NEW n \in Nat \ {0}
  PROVE  (x \div m) \div n = x \div (m * n)
<1> DEFINE q == x \div m
           r == x % m
           h == q \div n
           t == q % n
<1>1. x \in Int /\ q \in Int /\ r \in 0..(m - 1) /\ x = m * q + r
  <2>1. x \in Int
    OBVIOUS
  <2> QED
    BY <2>1, Division
<1> HIDE DEF q, r
<1>2. h \in Int /\ t \in 0..(n - 1) /\ q = n * h + t
  BY <1>1, Division
<1> HIDE DEF h, t
<1>3. x = (m * n) * h + (m * t + r)
  <2>1. m * q = m * (n * h) + m * t
    BY <1>1, <1>2
  <2>2. m * (n * h) = (m * n) * h
    BY <1>2
  <2> PICK u : u = (m * n) * h
    OBVIOUS
  <2> PICK w : w = m * t
    OBVIOUS
  <2>3. u \in Int /\ w \in Int /\ r \in Int
    BY <1>1, <1>2
  <2>4. x = (u + w) + r
    BY <1>1, <2>1, <2>2
  <2>5. x = u + (w + r)
    BY <2>3, <2>4
  <2> QED
    BY <2>5
<1>4. m * t + r \in 0..((m * n) - 1) /\ m * n \in Nat \ {0}
  <2>1. t + 1 <= n /\ t \in Nat /\ r \in Nat
    BY <1>1, <1>2
  <2>2. m * (t + 1) <= m * n /\ m * (t + 1) = m * t + m /\ m * t \in Nat /\ m * n \in Nat \ {0}
    BY <2>1
  <2> QED
    BY <1>1, <2>1, <2>2
<1> PICK M : M = m * n
  OBVIOUS
<1> PICK s : s = m * t + r
  OBVIOUS
<1>5. x \div M = h
  <2>1. x = M * h + s /\ s \in 0..(M - 1) /\ M \in Nat \ {0}
    BY <1>3, <1>4
  <2> QED
    BY <1>1, <1>2, <2>1, DivisionUnique
<1> QED
  BY <1>5 DEF h, q

\* Every word has four bytes.
LEMMA WordHasBytes ==
  ASSUME NEW R \in Word
  PROVE  \E d0, d1, d2, d3 \in Byte : R = Join(d0, d1, d2, d3)
<1> DEFINE B == Bytes(1)
           q1 == R \div B
           q2 == q1 \div B
           q3 == q2 \div B
           d0 == R % B
           d1 == q1 % B
           d2 == q2 % B
<1>1. B \in Nat \ {0} /\ R \in Int /\ R >= 0 /\ Byte = 0..(B - 1)
  BY Sizes, WordNat DEF Byte
<1> HIDE DEF B
<1>2. q1 \in Int /\ d0 \in Byte /\ R = B * q1 + d0
  BY <1>1, Division
<1> HIDE DEF q1, d0
<1>3. q2 \in Int /\ d1 \in Byte /\ q1 = B * q2 + d1
  BY <1>1, <1>2, Division
<1> HIDE DEF q2, d1
<1>4. q3 \in Int /\ d2 \in Byte /\ q2 = B * q3 + d2
  BY <1>1, <1>3, Division
<1> HIDE DEF q3, d2
<1>5. q3 \in Byte
  <2>1. R \in Nat /\ R \in 0..(Modulus - 1)
    BY <1>1 DEF Word
  <2>2. q3 = R \div ((B * B) * B)
    <3>0. B * B \in Nat \ {0}
      BY <1>1
    <3>1. (R \div B) \div B = R \div (B * B) /\ B * B \in Nat \ {0}
      BY <1>1, <2>1, <3>0, DivideTwice
    <3>2. (R \div (B * B)) \div B = R \div ((B * B) * B)
      BY <1>1, <2>1, <3>1, DivideTwice
    <3> QED
      BY <3>1, <3>2 DEF q1, q2, q3
  <2>3. Modulus = B * ((B * B) * B) /\ (B * B) * B \in Nat \ {0}
    <3>1. Modulus = Bytes(1) * Bytes(3) /\ Bytes(3) = Bytes(1) * (Bytes(1) * Bytes(1))
      BY SizeProducts
    <3>2. B * (B * B) = (B * B) * B /\ (B * B) * B \in Nat \ {0}
      BY <1>1
    <3> QED
      BY <3>1, <3>2 DEF B
  <2> QED
    BY <1>1, <2>1, <2>2, <2>3, HighPart
<1>6. R = Join(d0, d1, d2, q3)
  <2>1. Join(d0, d1, d2, q3) = ((d0 + d1 * Bytes(1)) + d2 * Bytes(2)) + q3 * Bytes(3)
    BY <1>2, <1>3, <1>4, <1>5, JoinRange
  <2>2. Bytes(2) = B * B /\ Bytes(3) = B * (B * B) /\ Bytes(1) = B
    BY SizeProducts DEF B
  <2>3. d0 \in Int /\ d1 \in Int /\ d2 \in Int /\ B \in Int
    BY <1>1, <1>2, <1>3, <1>4
  <2>4. q1 = (d1 + d2 * B) + q3 * (B * B)
    <3>1. \A x, y, z, u \in Int : x * (x * y + z) + u = (u + z * x) + y * (x * x)
      OBVIOUS
    <3> QED
      BY <1>3, <1>4, <2>3, <3>1
  <2>5. B * ((d1 + d2 * B) + q3 * (B * B)) = (d1 * B + d2 * (B * B)) + q3 * (B * (B * B))
    BY <1>4, <2>3, Horner
  <2>6. /\ d1 * B \in Int /\ d2 * (B * B) \in Int /\ q3 * (B * (B * B)) \in Int
    BY <1>4, <2>3
  <2>7. R = (d1 * B + d2 * (B * B)) + q3 * (B * (B * B)) + d0
    BY <1>2, <2>4, <2>5
  <2> QED
    BY <2>1, <2>2, <2>3, <2>6, <2>7
<1> QED
  BY <1>2, <1>3, <1>4, <1>5, <1>6

\* The bytes of a register.
Digit(R, m) == (R \div Bytes(m)) % Bytes(1)

LEMMA DigitsOf ==
  ASSUME NEW R \in Word
  PROVE  /\ \A m \in 0..3 : Digit(R, m) \in Byte
         /\ R = Join(Digit(R, 0), Digit(R, 1), Digit(R, 2), Digit(R, 3))
<1>1. PICK d0, d1, d2, d3 \in Byte : R = Join(d0, d1, d2, d3)
  BY WordHasBytes
<1>2. Digit(R, 0) = d0 /\ Digit(R, 1) = d1 /\ Digit(R, 2) = d2 /\ Digit(R, 3) = d3
  BY <1>1, JoinDigits DEF Digit
<1>3. \A m \in 0..3 : m = 0 \/ m = 1 \/ m = 2 \/ m = 3
  OBVIOUS
<1> QED
  BY <1>1, <1>2, <1>3

\* A word that is written, byte by byte.
LEMMA WordWritten ==
  ASSUME TableOf(pageTable), MemOK(mainMemory), NEW A \in Nat, Maps(A, 4),
         NEW c \in [0..3 -> Byte], NEW new, new = WriteMem(A, 4, JoinOf(c))
  PROVE  /\ MemOK(new)
         /\ \A m \in 0..3 : VByte(new, A + m) = c[m]
         /\ \A a \in 0..(NumPhysPages * PageSize - 1) :
              (\A m \in 0..3 : a # PA(A + m)) => new[a] = mainMemory[a]
<1> DEFINE v == JoinOf(c)
<1>1. c[0] \in Byte /\ c[1] \in Byte /\ c[2] \in Byte /\ c[3] \in Byte
  OBVIOUS
<1>2. v \in Word /\ v \in Int
  BY <1>1, JoinParts, WordNat DEF JoinOf
<1>3. /\ (v \div Bytes(0)) % Bytes(1) = c[0] /\ (v \div Bytes(1)) % Bytes(1) = c[1]
      /\ (v \div Bytes(2)) % Bytes(1) = c[2] /\ (v \div Bytes(3)) % Bytes(1) = c[3]
  BY <1>1, JoinDigits DEF JoinOf
<1> HIDE DEF v
<1>4. new = WriteMem(A, 4, v)
  BY DEF v
<1>5. /\ MemOK(new)
      /\ \A a \in 0..(NumPhysPages * PageSize - 1) :
           ~(a \in PhysAddr(A)..(PhysAddr(A) + 4 - 1)) => new[a] = mainMemory[a]
      /\ \A k \in 0..(4 - 1) : new[PhysAddr(A) + k] = (v \div Bytes(k)) % Bytes(1)
  <2>1. 4 \in {1, 2, 4}
    OBVIOUS
  <2> QED
    BY <1>2, <1>4, <2>1, WriteMemOK
<1>6. PhysAddr(A) = PA(A)
  BY ReadMemAt DEF Maps
<1>7. \A m \in 0..3 : PA(A + m) = PA(A) + m /\ PA(A) \in Int
  BY SamePage
<1>8. \A m \in 0..3 : VByte(new, A + m) = c[m]
  <2>1. \A k \in 0..3 : new[PA(A) + k] = (v \div Bytes(k)) % Bytes(1)
    BY <1>5, <1>6
  <2>2. \A m \in 0..3 : m = 0 \/ m = 1 \/ m = 2 \/ m = 3
    OBVIOUS
  <2>3. \A m \in 0..3 : (v \div Bytes(m)) % Bytes(1) = c[m]
    BY <1>3, <2>2
  <2> QED
    BY <1>7, <2>1, <2>3 DEF VByte
<1>9. ASSUME NEW a \in 0..(NumPhysPages * PageSize - 1), \A m \in 0..3 : a # PA(A + m)
      PROVE  new[a] = mainMemory[a]
  <2>1. a \in Int /\ NumPhysPages * PageSize \in Int
    BY MachineAssumption
  <2>2. \A m \in 0..3 : a # PA(A) + m
    BY <1>7, <1>9
  <2>3. PA(A) \in Int
    BY <1>7
  <2>4. ~(a \in PA(A)..(PA(A) + 4 - 1))
    <3> SUFFICES ASSUME a >= PA(A), a <= PA(A) + 3 PROVE FALSE
      BY <2>1, <2>3
    <3>1. a - PA(A) \in 0..3 /\ a = PA(A) + (a - PA(A))
      BY <2>1, <2>3
    <3> QED
      BY <2>2, <3>1
  <2> QED
    BY <1>5, <1>6, <2>4
<1> QED
  BY <1>5, <1>8, <1>9

\* The bytes that SWR and SWL write.
RightBytes(mem, A, k, R) == [m \in 0..3 |-> IF m < k THEN VByte(mem, A + m) ELSE Digit(R, m - k)]
LeftBytes(mem, A, k, R) ==
  [m \in 0..3 |-> IF m <= k THEN Digit(R, m + (3 - k)) ELSE VByte(mem, A + m)]

LEMMA StoredBytes ==
  ASSUME NEW mem, NEW A, \A m \in 0..3 : VByte(mem, A + m) \in Byte, NEW k \in 0..3, NEW R \in Word
  PROVE  /\ RightBytes(mem, A, k, R) \in [0..3 -> Byte] /\ LeftBytes(mem, A, k, R) \in [0..3 -> Byte]
         /\ RightStored(k, WordAt(mem, A), R) = JoinOf(RightBytes(mem, A, k, R))
         /\ LeftStored(k, WordAt(mem, A), R) = JoinOf(LeftBytes(mem, A, k, R))
<1> DEFINE a(m) == VByte(mem, A + m)
           r(m) == Digit(R, m)
           v == WordAt(mem, A)
           rb == RightBytes(mem, A, k, R)
           lb == LeftBytes(mem, A, k, R)
<1>1. \A m \in 0..3 : a(m) \in Byte /\ r(m) \in Byte
  BY DigitsOf
<1>2. R = Join(r(0), r(1), r(2), r(3))
  BY DigitsOf
<1>3. v = Join(a(0), a(1), a(2), a(3))
  BY DEF WordAt
<1>4. \A m \in 0..3 : /\ rb[m] = (IF m < k THEN a(m) ELSE r(m - k))
                      /\ lb[m] = (IF m <= k THEN r(m + (3 - k)) ELSE a(m))
  BY DEF RightBytes, LeftBytes
<1>5. rb \in [0..3 -> Byte] /\ lb \in [0..3 -> Byte]
  <2>1. \A m \in 0..3 : (m < k \/ m - k \in 0..3) /\ (m <= k => m + (3 - k) \in 0..3)
    OBVIOUS
  <2>2. \A m \in 0..3 : rb[m] \in Byte /\ lb[m] \in Byte
    BY <1>1, <1>4, <2>1
  <2> QED
    BY <2>2 DEF RightBytes, LeftBytes
<1> DEFINE fa == [m \in 0..3 |-> a(m)]
           fr == [m \in 0..3 |-> r(m)]
<1>6. /\ fa \in [0..3 -> Byte] /\ fr \in [0..3 -> Byte]
      /\ \A m \in 0..3 : fa[m] = a(m) /\ fr[m] = r(m)
  BY <1>1
<1> HIDE DEF a, r, v, rb, lb, fa, fr
<1>10. v = JoinOf(fa) /\ R = JoinOf(fr)
  BY <1>2, <1>3, <1>6 DEF JoinOf
<1>7. /\ RightStored(0, v, R) = Join(fr[0], fr[1], fr[2], fr[3])
      /\ RightStored(1, v, R) = Join(fa[0], fr[0], fr[1], fr[2])
      /\ RightStored(2, v, R) = Join(fa[0], fa[1], fr[0], fr[1])
      /\ RightStored(3, v, R) = Join(fa[0], fa[1], fa[2], fr[0])
  BY <1>6, <1>10, RightStoredIs
<1>8. /\ LeftStored(3, v, R) = Join(fr[0], fr[1], fr[2], fr[3])
      /\ LeftStored(0, v, R) = Join(fr[3], fa[1], fa[2], fa[3])
      /\ LeftStored(1, v, R) = Join(fr[2], fr[3], fa[2], fa[3])
      /\ LeftStored(2, v, R) = Join(fr[1], fr[2], fr[3], fa[3])
  BY <1>6, <1>10, LeftStoredIs
<1>9. RightStored(k, v, R) = JoinOf(rb) /\ LeftStored(k, v, R) = JoinOf(lb)
  <2>1. CASE k = 0
    <3>1. rb[0] = fr[0] /\ rb[1] = fr[1] /\ rb[2] = fr[2] /\ rb[3] = fr[3]
      BY <1>4, <1>6, <2>1
    <3>2. lb[0] = fr[3] /\ lb[1] = fa[1] /\ lb[2] = fa[2] /\ lb[3] = fa[3]
      BY <1>4, <1>6, <2>1
    <3> QED
      BY <1>7, <1>8, <2>1, <3>1, <3>2 DEF JoinOf
  <2>2. CASE k = 1
    <3>1. rb[0] = fa[0] /\ rb[1] = fr[0] /\ rb[2] = fr[1] /\ rb[3] = fr[2]
      BY <1>4, <1>6, <2>2
    <3>2. lb[0] = fr[2] /\ lb[1] = fr[3] /\ lb[2] = fa[2] /\ lb[3] = fa[3]
      BY <1>4, <1>6, <2>2
    <3> QED
      BY <1>7, <1>8, <2>2, <3>1, <3>2 DEF JoinOf
  <2>3. CASE k = 2
    <3>1. rb[0] = fa[0] /\ rb[1] = fa[1] /\ rb[2] = fr[0] /\ rb[3] = fr[1]
      BY <1>4, <1>6, <2>3
    <3>2. lb[0] = fr[1] /\ lb[1] = fr[2] /\ lb[2] = fr[3] /\ lb[3] = fa[3]
      BY <1>4, <1>6, <2>3
    <3> QED
      BY <1>7, <1>8, <2>3, <3>1, <3>2 DEF JoinOf
  <2>4. CASE k = 3
    <3>1. rb[0] = fa[0] /\ rb[1] = fa[1] /\ rb[2] = fa[2] /\ rb[3] = fr[0]
      BY <1>4, <1>6, <2>4
    <3>2. lb[0] = fr[0] /\ lb[1] = fr[1] /\ lb[2] = fr[2] /\ lb[3] = fr[3]
      BY <1>4, <1>6, <2>4
    <3> QED
      BY <1>7, <1>8, <2>4, <3>1, <3>2 DEF JoinOf
  <2> QED
    BY <2>1, <2>2, <2>3, <2>4
<1> QED
  BY <1>5, <1>9 DEF v, rb, lb

-----------------------------------------------------------------------------
(* The two words that hold the bytes at x, x + 1, x + 2 and x + 3.         *)

\* The word of the byte at an address, and the place of the byte in it.
Low(x) == x % 4
Base(x) == x - (x % 4)

LEMMA Neighbours ==
  ASSUME NEW x \in Nat
  PROVE  /\ Low(x) \in 0..3 /\ Base(x) \in Nat /\ x = Base(x) + Low(x)
         /\ x + 3 \in Nat /\ Low(x + 3) \in 0..3 /\ Base(x + 3) \in Nat
         /\ Low(x) = 0 => Low(x + 3) = 3 /\ Base(x + 3) = Base(x)
         /\ Low(x) # 0 => Low(x + 3) = Low(x) - 1 /\ Base(x + 3) = Base(x) + 4
BY DEF Low, Base

\* Both words are mapped.
MapsBoth(x) == Maps(Base(x), 4) /\ Maps(Base(x + 3), 4)

LEMMA BothMapped ==
  ASSUME NEW x \in Nat, MapsBoth(x)
  PROVE  \A m \in 0..3 : x + m \in Nat /\ Maps(x + m, 1)
<1> SUFFICES ASSUME NEW m \in 0..3 PROVE x + m \in Nat /\ Maps(x + m, 1)
  OBVIOUS
<1> DEFINE k == Low(x)
           A == Base(x)
           B == Base(x + 3)
<1>1. /\ k \in 0..3 /\ A \in Nat /\ x = A + k /\ B \in Nat
      /\ k # 0 => B = A + 4
  BY Neighbours
<1>2. Maps(A, 4) /\ Maps(B, 4)
  BY DEF MapsBoth
<1> HIDE DEF k, A, B
<1>3. CASE k + m < 4
  <2>1. k + m \in 0..3 /\ x + m = A + (k + m)
    BY <1>1, <1>3
  <2> QED
    BY <1>1, <1>2, <2>1, SamePage
<1>4. CASE k + m >= 4
  <2>1. (k + m) - 4 \in 0..3 /\ x + m = B + ((k + m) - 4)
    BY <1>1, <1>4
  <2> QED
    BY <1>1, <1>2, <2>1, SamePage
<1> QED
  BY <1>1, <1>3, <1>4

\* The bytes of a word as a function.
BytesAt(mem, A) == [m \in 0..3 |-> VByte(mem, A + m)]

LEMMA BytesAtIs ==
  ASSUME NEW mem, MemOK(mem), NEW A \in Nat, Maps(A, 4), TableOf(pageTable)
  PROVE  /\ BytesAt(mem, A) \in [0..3 -> Byte] /\ WordAt(mem, A) = JoinOf(BytesAt(mem, A))
         /\ \A m \in 0..3 : BytesAt(mem, A)[m] = VByte(mem, A + m)
<1>1. \A m \in 0..3 : VByte(mem, A + m) \in Byte
  BY WordBytes
<1>2. \A m \in 0..3 : BytesAt(mem, A)[m] = VByte(mem, A + m)
  BY DEF BytesAt
<1>3. BytesAt(mem, A) \in [0..3 -> Byte]
  BY <1>1 DEF BytesAt
<1> QED
  BY <1>2, <1>3 DEF WordAt, JoinOf

\* LWL completes what LWR has begun.
LEMMA PairLoads ==
  ASSUME NEW mem, MemOK(mem), TableOf(pageTable), NEW x \in Nat, MapsBoth(x), NEW p \in Word,
         p % Bytes(4 - Low(x)) = WordAt(mem, Base(x)) \div Bytes(Low(x))
  PROVE  LeftLoaded(Low(x + 3), WordAt(mem, Base(x + 3)), p) = WordAt(mem, x)
<1> DEFINE k == Low(x)
           A == Base(x)
           k2 == Low(x + 3)
           B == Base(x + 3)
           a == BytesAt(mem, A)
           b == BytesAt(mem, B)
<1>1. /\ k \in 0..3 /\ A \in Nat /\ x = A + k /\ B \in Nat
      /\ k = 0 => k2 = 3 /\ B = A
      /\ k # 0 => k2 = k - 1 /\ B = A + 4
  BY Neighbours
<1>2. /\ a \in [0..3 -> Byte] /\ WordAt(mem, A) = JoinOf(a)
      /\ \A m \in 0..3 : a[m] = VByte(mem, A + m)
  BY <1>1, BytesAtIs DEF MapsBoth
<1>3. /\ b \in [0..3 -> Byte] /\ WordAt(mem, B) = JoinOf(b)
      /\ \A m \in 0..3 : b[m] = VByte(mem, B + m)
  BY <1>1, BytesAtIs DEF MapsBoth
<1>4. p % Bytes(4 - k) = JoinOf(a) \div Bytes(k)
  BY <1>2
<1> HIDE DEF k, A, k2, B, a, b
<1>5. /\ LeftLoaded(3, JoinOf(a), p) = JoinOf(a)
      /\ p % Bytes(3) = JoinOf(a) \div Bytes(1) =>
           LeftLoaded(0, JoinOf(b), p) = Join(a[1], a[2], a[3], b[0])
      /\ p % Bytes(2) = JoinOf(a) \div Bytes(2) =>
           LeftLoaded(1, JoinOf(b), p) = Join(a[2], a[3], b[0], b[1])
      /\ p % Bytes(1) = JoinOf(a) \div Bytes(3) =>
           LeftLoaded(2, JoinOf(b), p) = Join(a[3], b[0], b[1], b[2])
  BY <1>2, <1>3, LeftLoadedIs
<1>6. LeftLoaded(k2, JoinOf(b), p) = WordAt(mem, x)
  <2>1. CASE k = 0
    <3>1. k2 = 3 /\ JoinOf(b) = JoinOf(a) /\ x = A
      BY <1>1, <1>2, <1>3, <2>1
    <3> QED
      BY <1>2, <1>5, <3>1
  <2>2. CASE k = 1
    <3>1. k2 = 0 /\ p % Bytes(3) = JoinOf(a) \div Bytes(1)
      BY <1>1, <1>4, <2>2
    <3>2. /\ VByte(mem, x + 0) = a[1] /\ VByte(mem, x + 1) = a[2] /\ VByte(mem, x + 2) = a[3]
          /\ VByte(mem, x + 3) = b[0]
      BY <1>1, <1>2, <1>3, <2>2
    <3> QED
      BY <1>5, <3>1, <3>2 DEF WordAt
  <2>3. CASE k = 2
    <3>1. k2 = 1 /\ p % Bytes(2) = JoinOf(a) \div Bytes(2)
      BY <1>1, <1>4, <2>3
    <3>2. /\ VByte(mem, x + 0) = a[2] /\ VByte(mem, x + 1) = a[3] /\ VByte(mem, x + 2) = b[0]
          /\ VByte(mem, x + 3) = b[1]
      BY <1>1, <1>2, <1>3, <2>3
    <3> QED
      BY <1>5, <3>1, <3>2 DEF WordAt
  <2>4. CASE k = 3
    <3>1. k2 = 2 /\ p % Bytes(1) = JoinOf(a) \div Bytes(3)
      BY <1>1, <1>4, <2>4
    <3>2. /\ VByte(mem, x + 0) = a[3] /\ VByte(mem, x + 1) = b[0] /\ VByte(mem, x + 2) = b[1]
          /\ VByte(mem, x + 3) = b[2]
      BY <1>1, <1>2, <1>3, <2>4
    <3> QED
      BY <1>5, <3>1, <3>2 DEF WordAt
  <2> QED
    BY <1>1, <2>1, <2>2, <2>3, <2>4
<1> QED
  BY <1>3, <1>6 DEF k2, B

\* The bytes that SWR leaves, and those it leaves alone.
LEMMA RightStores ==
  ASSUME TableOf(pageTable), MemOK(mainMemory), NEW A \in Nat, Maps(A, 4), NEW k \in 0..3,
         NEW R \in Word, NEW new, new = WriteMem(A, 4, RightStored(k, WordAt(mainMemory, A), R))
  PROVE  /\ MemOK(new)
         /\ \A m \in 0..3 : k <= m => VByte(new, A + m) = Digit(R, m - k)
         /\ \A a \in 0..(NumPhysPages * PageSize - 1) :
              (\A m \in 0..3 : k <= m => a # PA(A + m)) => new[a] = mainMemory[a]
<1> DEFINE c == RightBytes(mainMemory, A, k, R)
<1>1. \A m \in 0..3 : VByte(mainMemory, A + m) \in Byte
  BY WordBytes
<1>2. c \in [0..3 -> Byte] /\ RightStored(k, WordAt(mainMemory, A), R) = JoinOf(c)
  BY <1>1, StoredBytes
<1>3. \A m \in 0..3 : c[m] = IF m < k THEN VByte(mainMemory, A + m) ELSE Digit(R, m - k)
  BY DEF RightBytes
<1> HIDE DEF c
<1>4. new = WriteMem(A, 4, JoinOf(c))
  BY <1>2
<1>5. /\ MemOK(new) /\ \A m \in 0..3 : VByte(new, A + m) = c[m]
      /\ \A a \in 0..(NumPhysPages * PageSize - 1) :
           (\A m \in 0..3 : a # PA(A + m)) => new[a] = mainMemory[a]
  BY <1>2, <1>4, WordWritten
<1>6. \A m \in 0..3 : k <= m => VByte(new, A + m) = Digit(R, m - k)
  BY <1>3, <1>5
<1>7. ASSUME NEW a \in 0..(NumPhysPages * PageSize - 1), \A m \in 0..3 : k <= m => a # PA(A + m)
      PROVE  new[a] = mainMemory[a]
  <2>1. CASE \A m \in 0..3 : a # PA(A + m)
    BY <1>5, <2>1
  <2>2. ASSUME NEW m \in 0..3, a = PA(A + m) PROVE new[a] = mainMemory[a]
    <3>1. m < k
      BY <1>7, <2>2
    <3>2. VByte(new, A + m) = VByte(mainMemory, A + m)
      BY <1>3, <1>5, <3>1
    <3> QED
      BY <2>2, <3>2 DEF VByte
  <2> QED
    BY <2>1, <2>2
<1> QED
  BY <1>5, <1>6, <1>7

\* The same for SWL.
LEMMA LeftStores ==
  ASSUME TableOf(pageTable), MemOK(mainMemory), NEW A \in Nat, Maps(A, 4), NEW k \in 0..3,
         NEW R \in Word, NEW new, new = WriteMem(A, 4, LeftStored(k, WordAt(mainMemory, A), R))
  PROVE  /\ MemOK(new)
         /\ \A m \in 0..3 : m <= k => VByte(new, A + m) = Digit(R, m + (3 - k))
         /\ \A a \in 0..(NumPhysPages * PageSize - 1) :
              (\A m \in 0..3 : m <= k => a # PA(A + m)) => new[a] = mainMemory[a]
<1> DEFINE c == LeftBytes(mainMemory, A, k, R)
<1>1. \A m \in 0..3 : VByte(mainMemory, A + m) \in Byte
  BY WordBytes
<1>2. c \in [0..3 -> Byte] /\ LeftStored(k, WordAt(mainMemory, A), R) = JoinOf(c)
  BY <1>1, StoredBytes
<1>3. \A m \in 0..3 : c[m] = IF m <= k THEN Digit(R, m + (3 - k)) ELSE VByte(mainMemory, A + m)
  BY DEF LeftBytes
<1> HIDE DEF c
<1>4. new = WriteMem(A, 4, JoinOf(c))
  BY <1>2
<1>5. /\ MemOK(new) /\ \A m \in 0..3 : VByte(new, A + m) = c[m]
      /\ \A a \in 0..(NumPhysPages * PageSize - 1) :
           (\A m \in 0..3 : a # PA(A + m)) => new[a] = mainMemory[a]
  BY <1>2, <1>4, WordWritten
<1>6. \A m \in 0..3 : m <= k => VByte(new, A + m) = Digit(R, m + (3 - k))
  BY <1>3, <1>5
<1>7. ASSUME NEW a \in 0..(NumPhysPages * PageSize - 1), \A m \in 0..3 : m <= k => a # PA(A + m)
      PROVE  new[a] = mainMemory[a]
  <2>1. CASE \A m \in 0..3 : a # PA(A + m)
    BY <1>5, <2>1
  <2>2. ASSUME NEW m \in 0..3, a = PA(A + m) PROVE new[a] = mainMemory[a]
    <3>1. ~(m <= k)
      BY <1>7, <2>2
    <3>2. VByte(new, A + m) = VByte(mainMemory, A + m)
      BY <1>3, <1>5, <3>1
    <3> QED
      BY <2>2, <3>2 DEF VByte
  <2> QED
    BY <2>1, <2>2
<1> QED
  BY <1>5, <1>6, <1>7

\* SWR has written the bytes of R that belong into the first word, and no
\* other byte of old.
HalfStored(x, R, old, new) ==
  /\ \A m \in 0..3 : m < 4 - Low(x) => VByte(new, x + m) = Digit(R, m)
  /\ \A a \in 0..(NumPhysPages * PageSize - 1) :
       (\A m \in 0..3 : a # PA(x + m)) => new[a] = old[a]

LEMMA HalfStores ==
  ASSUME TableOf(pageTable), MemOK(mainMemory), NEW x \in Nat, Maps(Base(x), 4), NEW R \in Word,
         NEW new, new = WriteMem(Base(x), 4, RightStored(Low(x), WordAt(mainMemory, Base(x)), R))
  PROVE  MemOK(new) /\ HalfStored(x, R, mainMemory, new)
<1> DEFINE k == Low(x)
           A == Base(x)
<1>1. k \in 0..3 /\ A \in Nat /\ x = A + k
  BY Neighbours
<1>2. /\ MemOK(new)
      /\ \A m \in 0..3 : k <= m => VByte(new, A + m) = Digit(R, m - k)
      /\ \A a \in 0..(NumPhysPages * PageSize - 1) :
           (\A m \in 0..3 : k <= m => a # PA(A + m)) => new[a] = mainMemory[a]
  BY <1>1, RightStores
<1> HIDE DEF k, A
<1>3. ASSUME NEW m \in 0..3, m < 4 - k PROVE VByte(new, x + m) = Digit(R, m)
  <2>1. k + m \in 0..3 /\ k <= k + m /\ x + m = A + (k + m) /\ (k + m) - k = m
    BY <1>1, <1>3
  <2> QED
    BY <1>2, <2>1
<1>4. ASSUME NEW a \in 0..(NumPhysPages * PageSize - 1), \A m \in 0..3 : a # PA(x + m)
      PROVE  new[a] = mainMemory[a]
  <2>1. ASSUME NEW m \in 0..3, k <= m PROVE a # PA(A + m)
    <3>1. m - k \in 0..3 /\ A + m = x + (m - k)
      BY <1>1, <2>1
    <3> QED
      BY <1>4, <3>1
  <2> QED
    BY <1>2, <2>1
<1> QED
  BY <1>2, <1>3, <1>4 DEF HalfStored, k

\* SWL completes what SWR has begun.
LEMMA PairStores ==
  ASSUME TableOf(pageTable), MemOK(mainMemory), NEW x \in Nat, MapsBoth(x), NEW R \in Word, NEW old,
         HalfStored(x, R, old, mainMemory),
         NEW new, new = WriteMem(Base(x + 3), 4,
                                 LeftStored(Low(x + 3), WordAt(mainMemory, Base(x + 3)), R))
  PROVE  /\ WordAt(new, x) = R
         /\ \A a \in 0..(NumPhysPages * PageSize - 1) :
              (\A m \in 0..3 : a # PA(x + m)) => new[a] = old[a]
<1> DEFINE k == Low(x)
           A == Base(x)
           k2 == Low(x + 3)
           B == Base(x + 3)
<1>1. /\ k \in 0..3 /\ A \in Nat /\ x = A + k /\ B \in Nat /\ k2 \in 0..3
      /\ k = 0 => k2 = 3 /\ B = A
      /\ k # 0 => k2 = k - 1 /\ B = A + 4
  BY Neighbours
<1>2. Maps(A, 4) /\ Maps(B, 4)
  BY DEF MapsBoth
<1>3. /\ MemOK(new)
      /\ \A m \in 0..3 : m <= k2 => VByte(new, B + m) = Digit(R, m + (3 - k2))
      /\ \A a \in 0..(NumPhysPages * PageSize - 1) :
           (\A m \in 0..3 : m <= k2 => a # PA(B + m)) => new[a] = mainMemory[a]
  BY <1>1, <1>2, LeftStores
<1>4. /\ \A m \in 0..3 : m < 4 - k => VByte(mainMemory, x + m) = Digit(R, m)
      /\ \A a \in 0..(NumPhysPages * PageSize - 1) :
           (\A m \in 0..3 : a # PA(x + m)) => mainMemory[a] = old[a]
  BY DEF HalfStored
<1> HIDE DEF k, A, k2, B
<1>5. \A m \in 0..3 : m <= k2 => B + m = x + (m + (3 - k2)) /\ m + (3 - k2) \in 0..3
  BY <1>1
<1>6. \A m \in 0..3 : x + m \in Nat /\ Maps(x + m, 1)
  BY BothMapped
<1>7. ASSUME NEW m \in 0..3 PROVE VByte(new, x + m) = Digit(R, m)
  <2>1. CASE m >= 3 - k2
    <3>1. m - (3 - k2) \in 0..3 /\ m - (3 - k2) <= k2 /\ (m - (3 - k2)) + (3 - k2) = m
          /\ B + (m - (3 - k2)) = x + m
      BY <1>1, <2>1
    <3> QED
      BY <1>3, <3>1
  <2>2. CASE m < 3 - k2
    <3>1. m < 4 - k /\ k + m \in 0..3 /\ x + m = A + (k + m)
      BY <1>1, <2>2
    <3>2. PA(x + m) \in 0..(NumPhysPages * PageSize - 1)
      BY <1>1, <1>2, <3>1, WordBytes
    <3>3. ASSUME NEW n \in 0..3, n <= k2 PROVE PA(x + m) # PA(B + n)
      <4>1. B + n \in Nat /\ Maps(B + n, 1) /\ B + n # x + m
        BY <1>1, <1>5, <1>6, <2>2, <3>3
      <4> QED
        BY <1>6, <4>1, PlacesDiffer
    <3>4. new[PA(x + m)] = mainMemory[PA(x + m)]
      BY <1>3, <3>2, <3>3
    <3> QED
      BY <1>4, <3>1, <3>4 DEF VByte
  <2> QED
    BY <1>1, <2>1, <2>2
<1>8. WordAt(new, x) = R
  <2>1. R = Join(Digit(R, 0), Digit(R, 1), Digit(R, 2), Digit(R, 3))
    BY DigitsOf
  <2> QED
    BY <1>7, <2>1 DEF WordAt
<1>9. ASSUME NEW a \in 0..(NumPhysPages * PageSize - 1), \A m \in 0..3 : a # PA(x + m)
      PROVE  new[a] = old[a]
  <2>1. \A m \in 0..3 : m <= k2 => a # PA(B + m)
    BY <1>5, <1>9
  <2>2. new[a] = mainMemory[a]
    BY <1>3, <2>1
  <2> QED
    BY <1>4, <1>9, <2>2
<1> QED
  BY <1>8, <1>9

-----------------------------------------------------------------------------
(* The two steps of a pair.                                                *)

\* The registers that neither the load before the step s nor LWR changes.
Kept(s, regs) ==
  \A r \in GPRegs :
    (s.registers[LoadReg] # 0 => s.registers[LoadReg] # r) /\ (Op(s) = "LWR" => r # s.instr.rt)
      => regs[r] = s.registers[r]

\* What LWR or SWR has left for the next step.
PairPending(s, regs, mem, t) ==
  Op(s) \in {"LWR", "SWR"} /\ t \in {"NoException", "SyscallException"} =>
    /\ s.instr.rs \in GPRegs /\ s.instr.rt \in GPRegs /\ s.instr.extra \in Word
    /\ s.registers[s.instr.rs] \in Word /\ s.registers[s.instr.rt] \in Word
    /\ AddrOf(s) \in Word /\ Maps(Base(AddrOf(s)), 4) /\ Kept(s, regs)
    /\ Op(s) = "LWR" /\ s.instr.rt # 0 =>
         Awaited(regs, s.instr.rt) % Bytes(4 - Low(AddrOf(s)))
           = WordAt(mem, Base(AddrOf(s))) \div Bytes(Low(AddrOf(s)))
    /\ Op(s) = "SWR" => HalfStored(AddrOf(s), s.registers[s.instr.rt], s.mainMemory, mem)

\* The step s and the instruction j make a pair.
Pair(s, j) ==
  /\ Op(s) \in {"LWR", "SWR"} /\ j.op = (IF Op(s) = "LWR" THEN "LWL" ELSE "SWL")
  /\ s.instr.rs = j.rs /\ s.instr.rt = j.rt /\ j.extra = s.instr.extra + 3
  /\ AddrOf(s) + 3 \in Word
  /\ s.registers[LoadReg] # 0 =>
       /\ s.registers[LoadReg] # s.instr.rs
       /\ Op(s) = "SWR" => s.registers[LoadReg] # s.instr.rt
  /\ Op(s) = "LWR" => s.instr.rt # 0 /\ s.instr.rt # s.instr.rs

PairDone(s, j, regs, mem) ==
  Pair(s, j) =>
    /\ AddrOf(s) \in Nat /\ MapsBoth(AddrOf(s)) /\ s.instr.rt \in GPRegs
    /\ Op(s) = "LWR" => Awaited(regs, s.instr.rt) = WordAt(mem, AddrOf(s))
    /\ Op(s) = "SWR" =>
         /\ WordAt(mem, AddrOf(s)) = s.registers[s.instr.rt]
         /\ \A a \in 0..(NumPhysPages * PageSize - 1) :
              (\A m \in 0..3 : a # PA(AddrOf(s) + m)) => mem[a] = s.mainMemory[a]

PairsPending == last # <<>> => PairPending(Done, registers, mainMemory, trap)
PairsDone ==
  Len(last) = 2 /\ trap = "NoException" => PairDone(last[1], last[2].instr, registers, mainMemory)

\* The word at an address, through the page table.
LEMMA UnalignedIs ==
  ASSUME TableOf(pageTable), NEW mem, NEW x \in Nat, MapsBoth(x)
  PROVE  /\ \A m \in 0..3 : PhysAddr(x + m) = PA(x + m)
         /\ UnalignedWord(mem, x) = WordAt(mem, x)
<1>1. \A m \in 0..3 : PhysAddr(x + m) = PA(x + m)
  <2>1. \A m \in 0..3 : x + m \in Nat /\ Page(x + m) \in 1..Len(PageTable)
    BY BothMapped DEF Maps
  <2> QED
    BY <2>1, ReadMemAt
<1>2. /\ PhysAddr(x + 0) = PA(x + 0) /\ PhysAddr(x + 1) = PA(x + 1)
      /\ PhysAddr(x + 2) = PA(x + 2) /\ PhysAddr(x + 3) = PA(x + 3)
  BY <1>1
<1>3. UnalignedWord(mem, x) = WordAt(mem, x)
  BY <1>2, Zenon DEF UnalignedWord, WordAt, Join, VByte
<1> QED
  BY <1>1, <1>3

LEMMA PairsAre ==
  ASSUME StateOK, PairsDone
  PROVE  UnalignedPairs
<1> SUFFICES ASSUME Len(last) = 2, trap = "NoException" PROVE UnalignedPairs
  BY DEF UnalignedPairs
<1> DEFINE s == last[1]
           j == last[2].instr
           x == AddrOf(s)
<1>1. PairDone(s, j, registers, mainMemory) /\ TableOf(pageTable)
      /\ DOMAIN mainMemory = 0..(NumPhysPages * PageSize - 1)
  BY DEF PairsDone, StateOK, MemOK
<1> HIDE DEF s, j, x
<1>2. ASSUME Pair(s, j)
      PROVE  IF Op(s) = "LWR" THEN Awaited(registers, s.instr.rt) = UnalignedWord(mainMemory, x)
             ELSE /\ UnalignedWord(mainMemory, x) = s.registers[s.instr.rt]
                  /\ \A a \in DOMAIN mainMemory \ {PhysAddr(x + k) : k \in 0..3} :
                       mainMemory[a] = s.mainMemory[a]
  <2>1. x \in Nat /\ MapsBoth(x)
    BY <1>1, <1>2 DEF PairDone, x
  <2>2. /\ \A m \in 0..3 : PhysAddr(x + m) = PA(x + m)
        /\ UnalignedWord(mainMemory, x) = WordAt(mainMemory, x)
    BY <1>1, <2>1, UnalignedIs
  <2>3. CASE Op(s) = "LWR"
    BY <1>1, <1>2, <2>2, <2>3 DEF PairDone, x
  <2>4. CASE Op(s) # "LWR"
    <3>1. Op(s) = "SWR"
      BY <1>2, <2>4 DEF Pair
    <3>2. /\ WordAt(mainMemory, x) = s.registers[s.instr.rt]
          /\ \A a \in 0..(NumPhysPages * PageSize - 1) :
               (\A m \in 0..3 : a # PA(x + m)) => mainMemory[a] = s.mainMemory[a]
      BY <1>1, <1>2, <3>1 DEF PairDone, x
    <3>3. ASSUME NEW a \in DOMAIN mainMemory \ {PhysAddr(x + k) : k \in 0..3}
          PROVE  mainMemory[a] = s.mainMemory[a]
      <4>1. \A m \in 0..3 : a # PA(x + m)
        BY <2>2, <3>3
      <4> QED
        BY <1>1, <3>2, <3>3, <4>1
    <3> QED
      BY <2>2, <2>4, <3>2, <3>3
  <2> QED
    BY <2>3, <2>4
<1>3. ASSUME s.instr.op \in {"LWR", "SWR"}, j.op = (IF s.instr.op = "LWR" THEN "LWL" ELSE "SWL"),
             s.instr.rs = j.rs, s.instr.rt = j.rt, j.extra = s.instr.extra + 3, x + 3 \in Word,
             s.registers[LoadReg] # 0 =>
               /\ s.registers[LoadReg] # s.instr.rs
               /\ s.instr.op = "SWR" => s.registers[LoadReg] # s.instr.rt,
             s.instr.op = "LWR" => s.instr.rt \notin {0, s.instr.rs}
      PROVE  Pair(s, j)
  BY <1>3 DEF Pair, Op, x
<1>4. Awaited(registers, s.instr.rt)
        = registers[IF registers[LoadReg] = s.instr.rt THEN LoadValueReg ELSE s.instr.rt]
  BY DEF Awaited
<1> QED
  BY <1>2, <1>3, <1>4 DEF UnalignedPairs, AddrOf, Op, s, j, x

LEMMA PairsInit ==
  ASSUME last = <<>>
  PROVE  PairsPending /\ PairsDone
<1>1. Len(last) # 2
  OBVIOUS
<1> QED
  BY <1>1 DEF PairsPending, PairsDone

\* The address of the second instruction.
LEMMA NextAddress ==
  ASSUME NEW g \in Word, NEW e \in Word, Wrap(g + e) + 3 \in Word
  PROVE  Wrap(g + (e + 3)) = Wrap(g + e) + 3
<1> DEFINE z == g + e
           x == Wrap(z)
<1>1. Modulus \in Nat \ {0} /\ g \in Int /\ e \in Int /\ z \in Int
  BY Sizes, WordNat
<1>2. PICK q \in Int : z = Modulus * q + x
  BY <1>1, Division DEF Wrap
<1>3. x \in Int /\ x + 3 \in 0..(Modulus - 1)
  BY <1>1, WrapWord, WordNat DEF Word
<1>4. g + (e + 3) = z + 3
  BY <1>1
<1> HIDE DEF z, x
<1>5. z + 3 \in Int /\ z + 3 = Modulus * q + (x + 3)
  <2>1. Modulus * q \in Int
    BY <1>1, <1>2
  <2> QED
    BY <1>1, <1>2, <1>3, <2>1
<1>7. PICK y : y = z + 3
  OBVIOUS
<1>8. PICK w : w = x + 3
  OBVIOUS
<1>6. y % Modulus = w
  <2>1. y \in Int /\ y = Modulus * q + w /\ w \in 0..(Modulus - 1)
    BY <1>3, <1>5, <1>7, <1>8
  <2>2. Modulus \in Nat \ {0} /\ q \in Int
    BY <1>1, <1>2
  <2> QED
    BY <2>1, <2>2, DivisionUnique
<1> QED
  BY <1>4, <1>6, <1>7, <1>8 DEF Wrap, x, z

\* A step that succeeded keeps the registers that no load arrives in.
LEMMA KeptBy ==
  ASSUME StateOK, NEW i, NEW l, NEW v, NEW pc, Completed(registers', registers, l, v, pc)
  PROVE  Kept(RecordOf(i), registers')
<1>1. RecordOf(i).registers = registers
  BY RecordFields
<1>2. registers[0] = 0 /\ registers'[0] = 0
  BY DEF StateOK, Completed, Arrived
<1>3. \A r \in GPRegs \ {0} :
        registers'[r] = IF r = registers[LoadReg] THEN registers[LoadValueReg] ELSE registers[r]
  BY DEF Completed, Arrived
<1>4. ASSUME NEW r \in GPRegs, registers[LoadReg] # 0 => registers[LoadReg] # r
      PROVE  registers'[r] = registers[r]
  <2>1. CASE r = 0
    BY <1>2, <2>1
  <2>2. CASE r # 0
    BY <1>3, <1>4, <2>2
  <2> QED
    BY <2>1, <2>2
<1> QED
  BY <1>1, <1>4 DEF Kept

\* The word that LWL, LWR, SWL or SWR reads.
LEMMA MergedWord ==
  ASSUME StateOK, NEW i, IsInstr(i), i.op \in {"LWL", "LWR", "SWL", "SWR"}
  PROVE  /\ Address(i) \in Word /\ Address(i) \in Nat /\ Low(Address(i)) \in 0..3
         /\ ByteOf(i) = Low(Address(i)) /\ Accessed(i) = Base(Address(i))
         /\ Accessed(i) \in Nat /\ SizeOf(i.op) = 4
         /\ Maps(Accessed(i), 4) =>
              /\ ReadMem(mainMemory, Accessed(i), 4) = WordAt(mainMemory, Accessed(i))
              /\ WordAt(mainMemory, Accessed(i)) \in Word
<1>1. /\ RegsOK(registers) /\ TableOf(pageTable) /\ MemOK(mainMemory)
  BY DEF StateOK
<1>2. Address(i) \in Word /\ Address(i) \in Nat /\ Accessed(i) \in Nat
  BY <1>1, AddressFacts, WordNat
<1>3. Low(Address(i)) \in 0..3
  BY <1>2, Neighbours
<1>4. ByteOf(i) = Low(Address(i)) /\ Accessed(i) = Base(Address(i))
  BY DEF ByteOf, Low, Accessed, Base
<1>5. SizeOf(i.op) = 4
  BY DEF SizeOf
<1>6. ASSUME Maps(Accessed(i), 4)
      PROVE  /\ ReadMem(mainMemory, Accessed(i), 4) = WordAt(mainMemory, Accessed(i))
             /\ WordAt(mainMemory, Accessed(i)) \in Word
  <2>1. ReadMem(mainMemory, Accessed(i), 4) = WordAt(mainMemory, Accessed(i))
    BY <1>1, <1>2, <1>6, WordBytes
  <2>2. ReadMem(mainMemory, Accessed(i), 4) \in Word
    <3>1. 4 \in {1, 2, 4}
      OBVIOUS
    <3> QED
      BY <1>1, <1>2, <1>6, <3>1, ReadMemRange
  <2> QED
    BY <2>1, <2>2
<1> QED
  BY <1>2, <1>3, <1>4, <1>5, <1>6

\* LWL and LWR.
LEMMA MergingLoad ==
  ASSUME StateOK, Fetched, NEW i, IsInstr(i), i.op \in {"LWL", "LWR"}, LoadInstr(i),
         trap' \notin Faults
  PROVE  /\ Maps(Accessed(i), 4) /\ mainMemory' = mainMemory
         /\ registers'[LoadReg] = i.rt /\ Kept(RecordOf(i), registers')
         /\ Pending(i) \in Word /\ WordAt(mainMemory, Accessed(i)) \in Word
         /\ i.op = "LWR" => registers'[LoadValueReg]
              = RightLoaded(ByteOf(i), WordAt(mainMemory, Accessed(i)), Pending(i))
         /\ i.op = "LWL" => registers'[LoadValueReg]
              = LeftLoaded(ByteOf(i), WordAt(mainMemory, Accessed(i)), Pending(i))
<1>1. ~Faulted(i)
  BY DEF Faulted
<1>2. /\ Succeeded(i, registers, i.rt, LoadValue(i, Loaded(i)), PcAfter)
      /\ Maps(Accessed(i), SizeOf(i.op)) /\ mainMemory' = mainMemory
  BY <1>1, LoadStep
<1>3. i.op \in {"LWL", "LWR", "SWL", "SWR"} /\ i.rt \in GPRegs
  BY DEF IsInstr, NoRt
<1>4. SizeOf(i.op) = 4
  BY <1>3, MergedWord
<1>5. /\ Maps(Accessed(i), 4) /\ Loaded(i) = WordAt(mainMemory, Accessed(i))
      /\ WordAt(mainMemory, Accessed(i)) \in Word
  BY <1>2, <1>3, <1>4, MergedWord DEF Loaded
<1>6. Pending(i) \in Word
  BY <1>3, RegWord DEF StateOK, Pending, Rt
<1>7. Completed(registers', registers, i.rt, LoadValue(i, Loaded(i)), PcAfter)
  BY <1>2 DEF Succeeded
<1>8. Kept(RecordOf(i), registers')
  BY <1>7, KeptBy
<1>9. registers'[LoadReg] = i.rt /\ registers'[LoadValueReg] = LoadValue(i, Loaded(i))
  BY <1>7 DEF Completed
<1>10. /\ i.op = "LWR" => LoadValue(i, Loaded(i)) = RightLoaded(ByteOf(i), Loaded(i), Pending(i))
       /\ i.op = "LWL" => LoadValue(i, Loaded(i)) = LeftLoaded(ByteOf(i), Loaded(i), Pending(i))
  BY DEF LoadValue, RightLoaded, LeftLoaded
<1> QED
  BY <1>2, <1>5, <1>6, <1>8, <1>9, <1>10

\* SWL and SWR.
LEMMA MergingStore ==
  ASSUME StateOK, Fetched, NEW i, IsInstr(i), i.op \in {"SWL", "SWR"}, StoreInstr(i),
         trap' \notin Faults
  PROVE  /\ Maps(Accessed(i), 4) /\ Kept(RecordOf(i), registers') /\ Rt(i) \in Word
         /\ i.op = "SWR" => mainMemory' = WriteMem(Accessed(i), 4,
              RightStored(ByteOf(i), WordAt(mainMemory, Accessed(i)), Rt(i)))
         /\ i.op = "SWL" => mainMemory' = WriteMem(Accessed(i), 4,
              LeftStored(ByteOf(i), WordAt(mainMemory, Accessed(i)), Rt(i)))
<1>1. ~Faulted(i)
  BY DEF Faulted
<1>2. /\ Succeeded(i, registers, 0, 0, PcAfter) /\ Maps(Accessed(i), SizeOf(i.op))
      /\ mainMemory' = WriteMem(Accessed(i), SizeOf(i.op), Saved(i))
  BY <1>1, StoreStep
<1>3. i.op \in {"LWL", "LWR", "SWL", "SWR"} /\ i.rt \in GPRegs
  BY DEF IsInstr, NoRt
<1>4. SizeOf(i.op) = 4
  BY <1>3, MergedWord
<1>5. Maps(Accessed(i), 4) /\ StoredWord(i) = WordAt(mainMemory, Accessed(i))
  BY <1>2, <1>3, <1>4, MergedWord DEF StoredWord, Merges
<1>6. Rt(i) \in Word
  BY <1>3, RegWord DEF StateOK, Rt
<1>7. Kept(RecordOf(i), registers')
  BY <1>2, KeptBy DEF Succeeded
<1>8. /\ i.op = "SWR" => Saved(i) = RightStored(ByteOf(i), StoredWord(i), Rt(i))
      /\ i.op = "SWL" => Saved(i) = LeftStored(ByteOf(i), StoredWord(i), Rt(i))
  BY DEF Saved, StoreValue, RightStored, LeftStored
<1> QED
  BY <1>2, <1>4, <1>5, <1>6, <1>7, <1>8

\* The first instruction of a pair.
LEMMA PairBegins ==
  ASSUME StateOK, Fetched, NEW i, IsInstr(i), Recorded(i),
         \/ Compute(i) \/ MultDiv(i) \/ Jump(i) \/ LoadInstr(i) \/ StoreInstr(i)
         \/ SystemCall(i) \/ IllegalInstr(i)
  PROVE  PairsPending'
<1> DEFINE s == RecordOf(i)
<1>1. Done' = s /\ s.instr = i /\ s.registers = registers /\ s.mainMemory = mainMemory
  BY RecordFields DEF Recorded
<1>2. ASSUME Op(s) \in {"LWR", "SWR"}, trap' \in {"NoException", "SyscallException"}
      PROVE  PairPending(s, registers', mainMemory', trap')
  <2> DEFINE x == Address(i)
  <2>1. i.op \in {"LWR", "SWR"} /\ Op(s) = i.op /\ i.op \in {"LWL", "LWR", "SWL", "SWR"}
    BY <1>1, <1>2 DEF Op
  <2>2. trap' \notin Faults
    BY <1>2 DEF Faults
  <2>3. i.rs \in GPRegs /\ i.rt \in GPRegs /\ i.extra \in Word
    BY <2>1 DEF IsInstr, NoRt
  <2>4. registers[i.rs] \in Word /\ registers[i.rt] \in Word
    BY <2>3, RegWord DEF StateOK
  <2>5. AddrOf(s) = x
    BY <1>1 DEF AddrOf, Address, Rs
  <2>6. x \in Word /\ x \in Nat /\ Low(x) \in 0..3 /\ ByteOf(i) = Low(x) /\ Accessed(i) = Base(x)
    BY <2>1, MergedWord
  <2>7. ASSUME i.op = "LWR"
        PROVE  /\ Maps(Base(x), 4) /\ Kept(s, registers') /\ registers'[LoadReg] = i.rt
               /\ Awaited(registers', i.rt) % Bytes(4 - Low(x))
                    = WordAt(mainMemory', Base(x)) \div Bytes(Low(x))
    <3>1. LoadInstr(i)
      BY <2>7 DEF Compute, ToRd, ToRt, MultDiv, Jump, Branches, Jumps, StoreInstr, Stores,
                  SystemCall, IllegalInstr
    <3>2. i.op \in {"LWL", "LWR"}
      BY <2>7
    <3>3. /\ Maps(Base(x), 4) /\ mainMemory' = mainMemory
          /\ registers'[LoadReg] = i.rt /\ Kept(s, registers')
          /\ Pending(i) \in Word /\ WordAt(mainMemory, Base(x)) \in Word
          /\ registers'[LoadValueReg] = RightLoaded(Low(x), WordAt(mainMemory, Base(x)), Pending(i))
      BY <2>2, <2>6, <2>7, <3>1, <3>2, MergingLoad
    <3>4. registers'[LoadValueReg] % Bytes(4 - Low(x))
            = WordAt(mainMemory', Base(x)) \div Bytes(Low(x))
      BY <2>6, <3>3, RightLoadedIs
    <3> QED
      BY <3>3, <3>4 DEF Awaited
  <2>8. ASSUME i.op = "SWR"
        PROVE  /\ Maps(Base(x), 4) /\ Kept(s, registers')
               /\ HalfStored(x, registers[i.rt], mainMemory, mainMemory')
    <3>1. StoreInstr(i)
      BY <2>8 DEF Compute, ToRd, ToRt, MultDiv, Jump, Branches, Jumps, LoadInstr, Loads,
                  SystemCall, IllegalInstr
    <3>2. i.op \in {"SWL", "SWR"}
      BY <2>8
    <3>3. /\ Maps(Base(x), 4) /\ Kept(s, registers')
          /\ mainMemory' = WriteMem(Base(x), 4,
               RightStored(Low(x), WordAt(mainMemory, Base(x)), registers[i.rt]))
      BY <2>2, <2>6, <2>8, <3>1, <3>2, MergingStore DEF Rt
    <3> QED
      BY <2>4, <2>6, <3>3, HalfStores DEF StateOK
  <2> HIDE DEF s, x
  <2> QED
    BY <1>1, <2>1, <2>3, <2>4, <2>5, <2>6, <2>7, <2>8 DEF PairPending
<1>3. PairPending(s, registers', mainMemory', trap')
  BY <1>2 DEF PairPending
<1> HIDE DEF s
<1> QED
  BY <1>1, <1>3 DEF PairsPending

\* The second.
LEMMA PairEnds ==
  ASSUME StateOK, PairsPending, Fetched, NEW j, IsInstr(j), Recorded(j),
         \/ Compute(j) \/ MultDiv(j) \/ Jump(j) \/ LoadInstr(j) \/ StoreInstr(j)
         \/ SystemCall(j) \/ IllegalInstr(j)
  PROVE  PairsDone'
<1> SUFFICES ASSUME Len(last') = 2, trap' = "NoException" PROVE PairsDone'
  BY DEF PairsDone
<1> DEFINE s == Done
           i == s.instr
           x == AddrOf(s)
<1>1. last # <<>> /\ last'[1] = s /\ last'[2].instr = j
  BY RecordFields DEF Recorded
<1>2. trap' \notin Faults /\ trap \in {"NoException", "SyscallException"}
  BY DEF Faults, Fetched, Running
<1>3. PairPending(s, registers, mainMemory, trap)
  BY <1>1 DEF PairsPending
<1>4. ASSUME Pair(s, j)
      PROVE  /\ x \in Nat /\ MapsBoth(x) /\ i.rt \in GPRegs
             /\ Op(s) = "LWR" => Awaited(registers', i.rt) = WordAt(mainMemory', x)
             /\ Op(s) = "SWR" =>
                  /\ WordAt(mainMemory', x) = s.registers[i.rt]
                  /\ \A a \in 0..(NumPhysPages * PageSize - 1) :
                       (\A m \in 0..3 : a # PA(x + m)) => mainMemory'[a] = s.mainMemory[a]
  <2> HIDE DEF s, i, x
  <2>1. /\ Op(s) \in {"LWR", "SWR"} /\ j.op = (IF Op(s) = "LWR" THEN "LWL" ELSE "SWL")
        /\ i.rs = j.rs /\ i.rt = j.rt /\ j.extra = i.extra + 3 /\ x + 3 \in Word
        /\ s.registers[LoadReg] # 0 => /\ s.registers[LoadReg] # i.rs
                                       /\ Op(s) = "SWR" => s.registers[LoadReg] # i.rt
        /\ Op(s) = "LWR" => i.rt # 0 /\ i.rt # i.rs
    BY <1>4 DEF Pair, i, x
  <2>2. /\ i.rs \in GPRegs /\ i.rt \in GPRegs /\ i.extra \in Word
        /\ s.registers[i.rs] \in Word /\ s.registers[i.rt] \in Word
        /\ x \in Word /\ Maps(Base(x), 4) /\ Kept(s, registers)
        /\ Op(s) = "LWR" =>
             Awaited(registers, i.rt) % Bytes(4 - Low(x))
               = WordAt(mainMemory, Base(x)) \div Bytes(Low(x))
        /\ Op(s) = "SWR" => HalfStored(x, s.registers[i.rt], s.mainMemory, mainMemory)
    BY <1>2, <1>3, <2>1 DEF PairPending, i, x
  <2>3. registers[j.rs] = s.registers[i.rs] /\ x = Wrap(s.registers[i.rs] + i.extra) /\ x \in Nat
    BY <2>1, <2>2, WordNat DEF Kept, x, AddrOf, i
  <2>4. Address(j) = x + 3
    <3>1. Wrap(s.registers[i.rs] + (i.extra + 3)) = Wrap(s.registers[i.rs] + i.extra) + 3
      BY <2>1, <2>2, <2>3, NextAddress
    <3> QED
      BY <2>1, <2>3, <3>1 DEF Address, Rs
  <2>5. j.op \in {"LWL", "LWR", "SWL", "SWR"}
    BY <2>1
  <2>6. ByteOf(j) = Low(x + 3) /\ Accessed(j) = Base(x + 3)
    BY <2>4, <2>5, MergedWord
  <2>7. ASSUME Op(s) = "LWR"
        PROVE  MapsBoth(x) /\ Awaited(registers', i.rt) = WordAt(mainMemory', x)
    <3>1. j.op = "LWL" /\ j.op \in {"LWL", "LWR"}
      BY <2>1, <2>7
    <3>2. LoadInstr(j)
      BY <3>1 DEF Compute, ToRd, ToRt, MultDiv, Jump, Branches, Jumps, StoreInstr, Stores,
                  SystemCall, IllegalInstr
    <3>3. /\ Maps(Base(x + 3), 4) /\ mainMemory' = mainMemory /\ Pending(j) \in Word
          /\ registers'[LoadReg] = j.rt
          /\ registers'[LoadValueReg]
               = LeftLoaded(Low(x + 3), WordAt(mainMemory, Base(x + 3)), Pending(j))
      BY <1>2, <2>6, <3>1, <3>2, MergingLoad
    <3>4. Pending(j) = Awaited(registers, i.rt)
      BY <2>1 DEF Pending, Awaited, Rt
    <3>5. MapsBoth(x)
      BY <2>2, <3>3 DEF MapsBoth
    <3>6. MemOK(mainMemory) /\ TableOf(pageTable)
      BY DEF StateOK
    <3>7. LeftLoaded(Low(x + 3), WordAt(mainMemory, Base(x + 3)), Pending(j)) = WordAt(mainMemory, x)
      BY <2>2, <2>3, <2>7, <3>3, <3>4, <3>5, <3>6, PairLoads
    <3> QED
      BY <2>1, <3>3, <3>5, <3>7 DEF Awaited
  <2>8. ASSUME Op(s) = "SWR"
        PROVE  /\ MapsBoth(x) /\ WordAt(mainMemory', x) = s.registers[i.rt]
               /\ \A a \in 0..(NumPhysPages * PageSize - 1) :
                    (\A m \in 0..3 : a # PA(x + m)) => mainMemory'[a] = s.mainMemory[a]
    <3>1. j.op = "SWL" /\ j.op \in {"SWL", "SWR"}
      BY <2>1, <2>8
    <3>2. StoreInstr(j)
      BY <3>1 DEF Compute, ToRd, ToRt, MultDiv, Jump, Branches, Jumps, LoadInstr, Loads,
                  SystemCall, IllegalInstr
    <3>3. Rt(j) = s.registers[i.rt]
      BY <2>1, <2>2, <2>8 DEF Kept, Rt
    <3>4. /\ Maps(Base(x + 3), 4)
          /\ mainMemory' = WriteMem(Base(x + 3), 4,
               LeftStored(Low(x + 3), WordAt(mainMemory, Base(x + 3)), s.registers[i.rt]))
      BY <1>2, <2>6, <3>1, <3>2, <3>3, MergingStore
    <3>5. MapsBoth(x)
      BY <2>2, <3>4 DEF MapsBoth
    <3>6. MemOK(mainMemory) /\ TableOf(pageTable)
      BY DEF StateOK
    <3>7. HalfStored(x, s.registers[i.rt], s.mainMemory, mainMemory)
      BY <2>2, <2>8
    <3>8. PICK R : R = s.registers[i.rt]
      OBVIOUS
    <3>9. PICK old : old = s.mainMemory
      OBVIOUS
    <3>10. PICK new : new = mainMemory'
      OBVIOUS
    <3>11. /\ R \in Word /\ x \in Nat /\ HalfStored(x, R, old, mainMemory)
           /\ new = WriteMem(Base(x + 3), 4,
                LeftStored(Low(x + 3), WordAt(mainMemory, Base(x + 3)), R))
      BY <2>2, <2>3, <3>4, <3>7, <3>8, <3>9, <3>10
    <3>12. /\ WordAt(new, x) = R
           /\ \A a \in 0..(NumPhysPages * PageSize - 1) :
                (\A m \in 0..3 : a # PA(x + m)) => new[a] = old[a]
      BY <3>5, <3>6, <3>11, PairStores
    <3> QED
      BY <3>5, <3>8, <3>9, <3>10, <3>12
  <2> QED
    BY <2>1, <2>2, <2>3, <2>7, <2>8
<1>5. PairDone(s, j, registers', mainMemory')
  BY <1>4 DEF PairDone
<1> HIDE DEF s, i, x
<1> QED
  BY <1>1, <1>5 DEF PairsDone

\* An interrupt does not disturb a pair.
LEMMA PairTick ==
  ASSUME StateOK, LoadsPending, PairsPending, PairsDone, OneTick
  PROVE  PairsPending' /\ PairsDone'
<1>1. /\ Arrived(registers', registers) /\ UNCHANGED <<mainMemory, trap, last, Done>>
      /\ trap # "HostFault" /\ registers'[0] = registers[0]
  BY TickFacts DEF Arrived, StateOK
<1>2. \A r \in GPRegs : r # 0 => Awaited(registers', r) = Awaited(registers, r)
  BY TickAwaited
<1>3. PairsPending'
  <2> SUFFICES ASSUME last # <<>> PROVE PairPending(Done, registers', mainMemory, trap)
    BY <1>1 DEF PairsPending
  <2> DEFINE s == Done
  <2>1. PairPending(s, registers, mainMemory, trap) /\ LoadFrom(s, registers)
    BY <1>1 DEF PairsPending, LoadsPending
  <2> HIDE DEF s
  <2>2. ASSUME Op(s) \in {"LWR", "SWR"}, Kept(s, registers) PROVE Kept(s, registers')
    <3> SUFFICES ASSUME NEW r \in GPRegs, s.registers[LoadReg] # 0 => s.registers[LoadReg] # r,
                        Op(s) = "LWR" => r # s.instr.rt
                 PROVE  registers'[r] = s.registers[r]
      BY DEF Kept
    <3>1. registers[r] = s.registers[r]
      BY <2>2 DEF Kept
    <3>2. CASE r = 0
      BY <1>1, <3>1, <3>2
    <3>3. CASE r # 0
      <4>1. registers[LoadReg] # r
        <5>1. Op(s) = "SWR" => Op(s) \notin Loads
          BY DEF Loads
        <5> QED
          BY <2>1, <2>2, <3>3, <5>1 DEF LoadFrom
      <4> QED
        BY <1>1, <3>1, <3>3, <4>1 DEF Arrived
    <3> QED
      BY <3>2, <3>3
  <2>3. PairPending(s, registers', mainMemory, trap)
    BY <1>2, <2>1, <2>2 DEF PairPending
  <2> QED
    BY <2>3 DEF s
<1>4. PairsDone'
  <2> SUFFICES ASSUME Len(last) = 2, trap = "NoException"
               PROVE  PairDone(last[1], last[2].instr, registers', mainMemory)
    BY <1>1 DEF PairsDone
  <2> DEFINE s == last[1]
             j == last[2].instr
  <2>1. PairDone(s, j, registers, mainMemory)
    BY DEF PairsDone
  <2> HIDE DEF s, j
  <2>2. Pair(s, j) /\ Op(s) = "LWR" => s.instr.rt # 0
    BY DEF Pair
  <2>3. PairDone(s, j, registers', mainMemory)
    BY <1>2, <2>1, <2>2 DEF PairDone
  <2> QED
    BY <2>3 DEF s, j
<1> QED
  BY <1>3, <1>4

LEMMA PairStep ==
  ASSUME StateOK, LoadsPending, PairsPending, PairsDone, [Next]_vars
  PROVE  PairsPending' /\ PairsDone'
<1>1. CASE UNCHANGED vars
  BY <1>1 DEF vars, PairsPending, PairsDone, Done
<1>2. CASE FetchFault
  <2> DEFINE i == [op |-> "fetch"]
             s == RecordOf(i)
  <2>1. Faulted(i) /\ Recorded(i)
    BY <1>2, FetchFaultStep DEF Faulted
  <2>2. Done' = s /\ s.instr = i
    BY <2>1, RecordFields DEF Recorded
  <2>3. Op(s) = "fetch"
    BY <2>2 DEF Op
  <2>4. trap' # "NoException"
    BY <2>1 DEF Faulted, Faults
  <2> HIDE DEF i, s
  <2>5. PairPending(s, registers', mainMemory', trap')
    BY <2>3 DEF PairPending
  <2> QED
    BY <2>2, <2>4, <2>5 DEF PairsPending, PairsDone
<1>3. ASSUME NEW w \in Program, OneInstruction(w) PROVE PairsPending' /\ PairsDone'
  BY <1>3, InstructionStep, InstructionArrives, PairBegins, PairEnds
<1>4. CASE OneTick
  BY <1>4, PairTick
<1> QED
  BY <1>1, <1>2, <1>3, <1>4 DEF Next

\* LWR and LWL load a word that is not aligned, SWR and SWL store it, byte for
\* byte, also when it lies in two pages and when an interrupt is due between the
\* two (OneInstruction, CheckIfDue).
THEOREM UnalignedPairsWork == Spec => []UnalignedPairs
<1> DEFINE Inv == StateOK /\ LoadsPending /\ PairsPending /\ PairsDone
<1>1. Init => Inv
  BY InitState, PairsInit DEF LoadsPending
<1>2. Inv /\ [Next]_vars => Inv'
  BY StateStep, LoadsStep, PairStep
<1>3. Inv => UnalignedPairs
  BY PairsAre
<1> HIDE DEF Inv
<1> QED
  BY <1>1, <1>2, <1>3, PTL DEF Spec

=============================================================================
