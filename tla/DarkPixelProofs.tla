--------------------------- MODULE DarkPixelProofs ---------------------------
(***************************************************************************)
(* Proofs about DarkPixel.                                                 *)
(***************************************************************************)
EXTENDS DarkPixel, TLAPS, WellFoundedInduction

-----------------------------------------------------------------------------
(***************************************************************************)
(* Natural numbers: a set of them has a least element, and induction.      *)
(***************************************************************************)
LEMMA LeastElement ==
  ASSUME NEW X \in SUBSET Nat, X # {}
  PROVE  \E m \in X : \A k \in X : m <= k
<1>1. \E m \in X : \A k \in X : ~ (<<k, m>> \in OpToRel(<, Nat))
  BY NatLessThanWellFounded, WFMin
<1>2. PICK m \in X : \A k \in X : ~ (<<k, m>> \in OpToRel(<, Nat))
  BY <1>1
<1>3. ASSUME NEW k \in X PROVE m <= k
  <2>1. ~ (<<k, m>> \in OpToRel(<, Nat))
    BY <1>2
  <2>2. <<k, m>> \in Nat \X Nat
    OBVIOUS
  <2>3. ~ (k < m)
    BY <2>1, <2>2 DEF OpToRel
  <2> QED BY <2>3
<1> QED BY <1>3

LEMMA Induction ==
  ASSUME NEW X \in SUBSET Nat, 0 \in X, \A n \in X : n + 1 \in X
  PROVE  X = Nat
<1> SUFFICES ASSUME X # Nat PROVE FALSE
  OBVIOUS
<1> DEFINE Out == Nat \ X
<1>1. PICK m \in Out : \A k \in Out : m <= k
  <2>1. Out # {} /\ Out \in SUBSET Nat
    OBVIOUS
  <2> HIDE DEF Out
  <2> QED BY <2>1, LeastElement
<1>2. m - 1 \in Nat /\ m - 1 \notin Out
  BY <1>1
<1>3. m - 1 \in X
  BY <1>2
<1>4. (m - 1) + 1 \in X
  BY <1>3
<1> QED BY <1>1, <1>4

-----------------------------------------------------------------------------
(***************************************************************************)
(* Division, and words of a given width.                                   *)
(***************************************************************************)
LEMMA Division ==
  ASSUME NEW n \in Int, NEW m \in Nat \ {0}
  PROVE  /\ n % m \in 0..(m - 1) /\ n \div m \in Int
         /\ n = m * (n \div m) + (n % m)
OBVIOUS

LEMMA DivisionUnique ==
  ASSUME NEW n \in Int, NEW m \in Nat \ {0}, NEW q \in Int, NEW r \in 0..(m - 1),
         n = m * q + r
  PROVE  n % m = r /\ n \div m = q
<1> DEFINE Q == n \div m
           R == n % m
<1>1. R \in 0..(m - 1) /\ Q \in Int /\ n = m * Q + R
  BY Division
<1> HIDE DEF Q, R
<1>2. m * (Q - q) = r - R
  BY <1>1
<1>3. CASE Q - q >= 1
  <2>1. m * (Q - q) >= m
    BY <1>1, <1>3
  <2> QED BY <1>1, <1>2, <2>1
<1>4. CASE Q - q <= -1
  <2>1. m * (Q - q) <= -m
    BY <1>1, <1>4
  <2> QED BY <1>1, <1>2, <2>1
<1>5. CASE Q = q
  BY <1>1, <1>5 DEF Q, R
<1> QED BY <1>1, <1>3, <1>4, <1>5

\* The number of values of a word, and adding multiples of it.
Size == 2 * Half

LEMMA SizePositive == Half \in Nat \ {0} /\ Size \in Nat \ {0} /\ Size = Half + Half
BY PixelAssumption DEF Size

LEMMA Wrap ==
  ASSUME NEW n \in Int, NEW k \in Int
  PROVE  (n + Size * k) % Size = n % Size
<1>1. n % Size \in 0..(Size - 1) /\ n \div Size \in Int /\ n = Size * (n \div Size) + (n % Size)
  BY SizePositive, Division
<1> DEFINE q == n \div Size
           r == n % Size
<1> HIDE DEF q, r
<1>2. r \in 0..(Size - 1) /\ q \in Int /\ n = Size * q + r
  BY <1>1 DEF q, r
<1>3. Size * (q + k) = Size * q + Size * k
  BY <1>2, SizePositive
<1>4. n + Size * k = Size * (q + k) + r /\ n + Size * k \in Int
  BY <1>2, <1>3, SizePositive
<1>5. (n + Size * k) % Size = r
  BY <1>2, <1>4, SizePositive, DivisionUnique
<1> QED BY <1>5 DEF r

LEMMA UnsignedFits ==
  ASSUME NEW n \in Word PROVE Unsigned(n) = n
<1>1. n = Size * 0 + n /\ n \in 0..(Size - 1) /\ n \in Int
  BY SizePositive DEF Word, Size
<1>2. n % Size = n
  BY <1>1, SizePositive, DivisionUnique
<1> QED BY <1>2 DEF Unsigned, Size

LEMMA UnsignedWord ==
  ASSUME NEW n \in Int
  PROVE  /\ Unsigned(n) \in Word
         /\ \E k \in Int : Unsigned(n) = n + Size * k
<1>1. n % Size \in 0..(Size - 1) /\ n \div Size \in Int /\ n = Size * (n \div Size) + (n % Size)
  BY SizePositive, Division
<1>2. Unsigned(n) = n % Size
  BY DEF Unsigned, Size
<1>3. -(n \div Size) \in Int /\ n + Size * (-(n \div Size)) = n % Size
  <2> DEFINE q == n \div Size
             r == n % Size
  <2>1. q \in Int /\ r \in Int /\ n = Size * q + r
    BY <1>1, SizePositive
  <2> HIDE DEF q, r
  <2>2. Size * (-q) = -(Size * q)
    BY <2>1, SizePositive
  <2>3. -q \in Int /\ n + Size * (-q) = r
    BY <2>1, <2>2, SizePositive
  <2> QED BY <2>3 DEF q, r
<1> QED BY <1>1, <1>2, <1>3 DEF Word, Size

LEMMA UnsignedWrap ==
  ASSUME NEW n \in Int, NEW k \in Int
  PROVE  Unsigned(n + Size * k) = Unsigned(n)
BY Wrap DEF Unsigned, Size

LEMMA SignedWraps ==
  ASSUME NEW n \in Int
  PROVE  /\ Signed(n) \in SignedWord
         /\ \E k \in Int : Signed(n) = n + Size * k
<1>1. PICK k \in Int : Unsigned(n) = n + Size * k
  BY UnsignedWord
<1>2. Unsigned(n) \in Word
  BY UnsignedWord
<1>3. Signed(n) = IF Unsigned(n) >= Half THEN Unsigned(n) - Size ELSE Unsigned(n)
  BY DEF Signed, Size
<1>4. Signed(n) \in SignedWord
  BY <1>2, <1>3, SizePositive DEF Word, SignedWord, Size
<1>5. CASE Unsigned(n) >= Half
  <2>1. k - 1 \in Int /\ Size * (k - 1) = Size * k - Size
    BY <1>1, SizePositive
  <2>2. Signed(n) = n + Size * (k - 1)
    BY <1>1, <1>3, <1>5, <2>1, SizePositive
  <2> QED BY <1>4, <2>1, <2>2
<1>6. CASE ~ (Unsigned(n) >= Half)
  BY <1>1, <1>3, <1>4, <1>6
<1> QED BY <1>5, <1>6

LEMMA SignedFits ==
  ASSUME NEW n \in SignedWord PROVE Signed(n) = n
<1>1. n \in Int /\ n >= -Half /\ n <= Half - 1
  BY SizePositive DEF SignedWord
<1>2. CASE n >= 0
  <2>1. n \in Word
    BY <1>1, <1>2, SizePositive DEF Word, Size
  <2> QED BY <1>1, <2>1, UnsignedFits, SizePositive DEF Signed
<1>3. CASE n < 0
  <2>1. n + Size * 1 \in Word /\ n + Size * 1 = n + Size
    BY <1>1, <1>3, SizePositive DEF Word, Size
  <2>2. Unsigned(n) = n + Size
    BY <1>1, <2>1, UnsignedFits, UnsignedWrap
  <2> QED BY <1>1, <2>2, SizePositive DEF Signed, Size
<1> QED BY <1>1, <1>2, <1>3

\* Only the value modulo the size matters to a conversion.
LEMMA SignedWrap ==
  ASSUME NEW n \in Int, NEW k \in Int
  PROVE  Signed(n + Size * k) = Signed(n)
BY UnsignedWrap DEF Signed

LEMMA SignedSum ==
  ASSUME NEW n \in Int, NEW d \in Int
  PROVE  Signed(Signed(n) + d) = Signed(n + d)
<1>1. PICK k \in Int : Signed(n) = n + Size * k
  BY SignedWraps
<1>2. Signed(n) + d = (n + d) + Size * k /\ n + d \in Int
  BY <1>1, SizePositive
<1> QED BY <1>2, SignedWrap

LEMMA UnsignedOfSigned ==
  ASSUME NEW n \in Int
  PROVE  Unsigned(Signed(n)) = Unsigned(n)
<1>1. PICK k \in Int : Signed(n) = n + Size * k
  BY SignedWraps
<1> QED BY <1>1, UnsignedWrap

LEMMA SignedOfUnsigned ==
  ASSUME NEW n \in Int
  PROVE  Signed(Unsigned(n)) = Signed(n)
<1>1. PICK k \in Int : Unsigned(n) = n + Size * k
  BY UnsignedWord
<1> QED BY <1>1, SignedWrap

\* A double of the size of a word is stored exactly.
LEMMA ToWordFits ==
  ASSUME NEW n \in Word PROVE ToWord(n) = n
<1>1. n < 2 * Half * Half
  BY SizePositive DEF Word
<1> QED BY <1>1, UnsignedFits DEF ToWord

LEMMA ToWordWord ==
  ASSUME NEW n \in Int PROVE ToWord(n) \in Word
<1>1. 0 \in Word
  BY SizePositive DEF Word, Size
<1> QED BY <1>1, UnsignedWord DEF ToWord

-----------------------------------------------------------------------------
(***************************************************************************)
(* C's division, rounding and square root.                                 *)
(***************************************************************************)
LEMMA QuotBounds ==
  ASSUME NEW a \in Int, NEW b \in Nat \ {0}
  PROVE  /\ Quot(a, b) \in Int
         /\ a >= 0 => Quot(a, b) >= 0 /\ b * Quot(a, b) <= a /\ a < b * Quot(a, b) + b
         /\ a <= 0 => Quot(a, b) <= 0 /\ a <= b * Quot(a, b) /\ b * Quot(a, b) < a + b
<1>1. CASE a >= 0
  <2> DEFINE q == a \div b
  <2>1. q \in Int /\ a >= b * q /\ a < b * q + b
    BY Division
  <2>2. Quot(a, b) = q
    BY <1>1 DEF Quot
  <2> HIDE DEF q
  <2>3. q >= 0
    <3>1. q <= -1 => b * q <= -b
      BY <2>1
    <3> QED BY <1>1, <2>1, <3>1
  <2>4. a = 0 => q <= 0
    <3>1. q >= 1 => b * q >= b
      BY <2>1
    <3> QED BY <2>1, <3>1
  <2>5. a = 0 => q = 0 /\ b * q = 0
    BY <2>1, <2>3, <2>4
  <2> QED BY <1>1, <2>1, <2>2, <2>3, <2>5
<1>2. CASE a < 0
  <2> DEFINE q == (-a) \div b
  <2>1. q \in Int /\ -a >= b * q /\ -a < b * q + b
    BY Division
  <2>2. Quot(a, b) = -q
    BY <1>2 DEF Quot
  <2> HIDE DEF q
  <2>3. q >= 0
    <3>1. q <= -1 => b * q <= -b
      BY <2>1
    <3> QED BY <1>2, <2>1, <3>1
  <2>4. b * (-q) = -(b * q)
    BY <2>1
  <2> QED BY <1>2, <2>1, <2>2, <2>3, <2>4
<1> QED BY <1>1, <1>2

LEMMA RoundBounds ==
  ASSUME NEW a \in Int, NEW b \in Nat \ {0}
  PROVE  Round(a, b) \in Int /\ 2 * (b * Round(a, b) - a) \in -b..b
<1> DEFINE m == 2 * b
           n == 2 * a + b
           q == n \div m
<1>1. m \in Nat \ {0} /\ n \in Int
  OBVIOUS
<1> HIDE DEF m, n
<1>2. q \in Int /\ n >= m * q /\ n < m * q + m
  BY <1>1, Division
<1> HIDE DEF q
<1>3. m * q = 2 * (b * q)
  BY <1>2 DEF m
<1>4. Round(a, b) = q
  BY DEF Round, q, n, m
<1>5. b * q \in Int /\ 2 * (b * q) <= 2 * a + b /\ 2 * a + b < 2 * (b * q) + 2 * b
  BY <1>2, <1>3 DEF n, m
<1> QED BY <1>2, <1>4, <1>5

LEMMA SqrtBounds ==
  ASSUME NEW n \in Nat
  PROVE  /\ Sqrt(n) \in 0..n
         /\ Sqrt(n) * Sqrt(n) <= n /\ n < (Sqrt(n) + 1) * (Sqrt(n) + 1)
<1> DEFINE X == {k \in Nat : n < k * k}
<1>1. n + 1 \in X
  <2>1. (n + 1) * (n + 1) = n * n + 2 * n + 1 /\ n * n >= 0
    OBVIOUS
  <2> QED BY <2>1
<1>2. PICK m \in X : \A k \in X : m <= k
  <2>1. X # {} /\ X \in SUBSET Nat
    BY <1>1
  <2> HIDE DEF X
  <2> QED BY <2>1, LeastElement
<1>3. m \in Nat /\ n < m * m /\ m # 0
  BY <1>2
<1> DEFINE r == m - 1
<1>4. r \in Nat /\ r \notin X /\ r + 1 = m
  BY <1>2, <1>3
<1>5. r * r <= n
  BY <1>4
<1>6. r <= r * r
  <2>1. CASE r = 0
    BY <2>1
  <2>2. CASE r >= 1
    BY <1>4, <2>2
  <2> QED BY <1>4, <2>1, <2>2
<1>7. r \in 0..n /\ r * r <= n /\ n < (r + 1) * (r + 1)
  BY <1>3, <1>4, <1>5, <1>6
<1> HIDE DEF r
<1>8. Sqrt(n) = CHOOSE k \in 0..n : k * k <= n /\ n < (k + 1) * (k + 1)
  BY DEF Sqrt
<1> QED BY <1>7, <1>8

-----------------------------------------------------------------------------
(***************************************************************************)
(* The sum of a sequence is defined by recursion over its prefixes.  That  *)
(* the definition describes a function is shown by induction.              *)
(***************************************************************************)
Prefixes(s) == CHOOSE f : f = [n \in 0..Len(s) |-> IF n = 0 THEN 0 ELSE f[n - 1] + s[n]]

\* f holds the sums of the first prefixes of s, up to the n-th.
SumsUpTo(f, s, n) ==
  f \in [0..n -> Int] /\ f[0] = 0 /\ \A i \in 1..n : f[i] = f[i - 1] + s[i]

LEMMA SumsExist ==
  ASSUME NEW s \in Seq(Int)
  PROVE  \E f : SumsUpTo(f, s, Len(s))
<1> DEFINE X == {n \in Nat : n <= Len(s) => \E f : SumsUpTo(f, s, n)}
<1>1. 0 \in X
  <2>1. SumsUpTo([i \in 0..0 |-> 0], s, 0)
    BY DEF SumsUpTo
  <2> QED BY <2>1
<1>2. ASSUME NEW n \in X PROVE n + 1 \in X
  <2> SUFFICES ASSUME n + 1 <= Len(s) PROVE \E f : SumsUpTo(f, s, n + 1)
    OBVIOUS
  <2>1. PICK f : SumsUpTo(f, s, n)
    BY <1>2
  <2> DEFINE g == [i \in 0..(n + 1) |-> IF i = n + 1 THEN f[n] + s[n + 1] ELSE f[i]]
  <2>2. n \in Nat /\ s[n + 1] \in Int /\ f[n] \in Int
    BY <2>1 DEF SumsUpTo
  <2>3. \A i \in 0..n : g[i] = f[i] /\ f[i] \in Int
    BY <2>1, <2>2 DEF SumsUpTo
  <2>4. g[n + 1] = f[n] + s[n + 1] /\ g \in [0..(n + 1) -> Int]
    BY <2>1, <2>2 DEF SumsUpTo
  <2>5. \A i \in 1..n : i \in 0..n /\ i - 1 \in 0..n
    BY <2>2
  <2>6. \A i \in 1..n : g[i] = g[i - 1] + s[i]
    BY <2>1, <2>3, <2>5 DEF SumsUpTo
  <2>7. g[0] = 0 /\ g[n] = f[n]
    BY <2>1, <2>2, <2>3 DEF SumsUpTo
  <2> HIDE DEF g
  <2>8. \A i \in 1..(n + 1) : i \in 1..n \/ i = n + 1
    BY <2>2
  <2>9. \A i \in 1..(n + 1) : g[i] = g[i - 1] + s[i]
    <3> SUFFICES ASSUME NEW i \in 1..(n + 1) PROVE g[i] = g[i - 1] + s[i]
      OBVIOUS
    <3>1. CASE i = n + 1
      <4>1. i - 1 = n
        BY <2>2, <3>1
      <4> QED BY <2>4, <2>7, <3>1, <4>1
    <3> QED BY <2>6, <2>8, <3>1
  <2>10. SumsUpTo(g, s, n + 1)
    BY <2>4, <2>7, <2>9 DEF SumsUpTo
  <2> QED BY <2>10
<1>3. X \in SUBSET Nat
  OBVIOUS
<1> HIDE DEF X
<1>4. X = Nat
  BY <1>1, <1>2, <1>3, Induction
<1>5. Len(s) \in X
  BY <1>4
<1> QED BY <1>5 DEF X

LEMMA PrefixesSum ==
  ASSUME NEW s \in Seq(Int)
  PROVE  SumsUpTo(Prefixes(s), s, Len(s))
<1>1. PICK f : SumsUpTo(f, s, Len(s))
  BY SumsExist
<1> DEFINE Def(g) == [n \in 0..Len(s) |-> IF n = 0 THEN 0 ELSE g[n - 1] + s[n]]
<1>2. f = Def(f)
  BY <1>1 DEF SumsUpTo
<1>3. Prefixes(s) = Def(Prefixes(s))
  BY <1>2 DEF Prefixes
<1> DEFINE p == Prefixes(s)
<1> HIDE DEF p
<1>4. p = Def(p)
  BY <1>3 DEF p
<1>5. \A i \in 0..Len(s) : p[i] = IF i = 0 THEN 0 ELSE p[i - 1] + s[i]
  BY <1>4
<1> DEFINE X == {n \in Nat : n <= Len(s) => p[n] \in Int}
<1>6. 0 \in X
  BY <1>5
<1>7. ASSUME NEW n \in X PROVE n + 1 \in X
  <2>1. n + 1 <= Len(s) => p[n + 1] = p[n] + s[n + 1] /\ s[n + 1] \in Int
    BY <1>5
  <2> QED BY <2>1
<1>8. X \in SUBSET Nat
  OBVIOUS
<1>9. \A n \in 0..Len(s) : p[n] \in Int
  <2> HIDE DEF X
  <2>1. X = Nat
    BY <1>6, <1>7, <1>8, Induction
  <2> QED BY <2>1 DEF X
<1>10. p \in [0..Len(s) -> Int]
  <2>1. DOMAIN p = 0..Len(s) /\ p = [i \in DOMAIN p |-> p[i]]
    BY <1>4
  <2> QED BY <1>9, <2>1
<1>11. p[0] = 0 /\ \A i \in 1..Len(s) : p[i] = p[i - 1] + s[i]
  BY <1>5
<1> QED BY <1>10, <1>11 DEF SumsUpTo, p

LEMMA TotalEmpty == Total(<<>>) = 0
<1>1. <<>> \in Seq(Int) /\ Len(<<>>) = 0
  OBVIOUS
<1>2. Prefixes(<<>>)[Len(<<>>)] = 0
  BY <1>1, PrefixesSum DEF SumsUpTo
<1>3. Total(<<>>) = Prefixes(<<>>)[Len(<<>>)]
  BY DEF Total, Prefixes
<1> QED BY <1>2, <1>3

\* Adding a value at the end adds it to the sum.
LEMMA TotalAppend ==
  ASSUME NEW s \in Seq(Int), NEW v \in Int
  PROVE  Total(s) \in Int /\ Total(Append(s, v)) = Total(s) + v
<1> DEFINE t == Append(s, v)
           m == Len(s)
           f == Prefixes(s)
           g == Prefixes(t)
<1>1. /\ t \in Seq(Int) /\ Len(t) = m + 1 /\ m \in Nat
      /\ t[m + 1] = v /\ \A i \in 1..m : t[i] = s[i]
  OBVIOUS
<1>2. SumsUpTo(f, s, m) /\ SumsUpTo(g, t, m + 1)
  BY <1>1, PrefixesSum
<1>3. Total(s) = f[m] /\ Total(t) = g[m + 1]
  BY <1>1 DEF Total, Prefixes
<1> HIDE DEF f, g, t, m
<1>4. \A n \in 0..m : f[n] = g[n]
  <2> DEFINE X == {n \in Nat : n <= m => f[n] = g[n]}
  <2>1. 0 \in X
    BY <1>2 DEF SumsUpTo
  <2>2. ASSUME NEW n \in X PROVE n + 1 \in X
    <3> SUFFICES ASSUME n + 1 <= m PROVE f[n + 1] = g[n + 1]
      OBVIOUS
    <3>1. n \in Nat /\ n + 1 \in 1..m /\ n + 1 \in 1..(m + 1) /\ (n + 1) - 1 = n
      BY <1>1
    <3>2. f[n] = g[n]
      BY <1>1, <3>1
    <3>3. f[n + 1] = f[n] + s[n + 1] /\ g[n + 1] = g[n] + t[n + 1]
      BY <1>2, <3>1 DEF SumsUpTo
    <3> QED BY <1>1, <3>1, <3>2, <3>3
  <2>3. X \in SUBSET Nat
    OBVIOUS
  <2> HIDE DEF X
  <2>4. X = Nat
    BY <2>1, <2>2, <2>3, Induction
  <2> QED BY <1>1, <2>4 DEF X
<1>5. f[m] \in Int /\ f[m] = g[m]
  BY <1>1, <1>2, <1>4 DEF SumsUpTo
<1>6. g[m + 1] = g[m] + t[m + 1]
  <2>1. m + 1 \in 1..(m + 1) /\ (m + 1) - 1 = m
    BY <1>1
  <2> QED BY <1>2, <2>1 DEF SumsUpTo
<1> QED BY <1>1, <1>3, <1>5, <1>6 DEF t

-----------------------------------------------------------------------------
(***************************************************************************)
(* Types.                                                                  *)
(***************************************************************************)

\* C's division and conversions of the synthesis stay within their types.
LEMMA SynTypes ==
  ASSUME TypeOK
  PROVE  /\ Quot(avg, pages) \in Int /\ Average \in SignedWord
         /\ pages # 1 => RmsSq \in Int /\ ToWord(Sqrt(RmsSq)) \in Word
<1>1. pages \in Nat \ {0} /\ avg \in Int /\ rms \in Int /\ dk0 \in Int
  BY PixelAssumption, SizePositive DEF TypeOK, Word, SignedWord
<1>2. Quot(avg, pages) \in Int /\ Quot(avg, pages) + dk0 \in Int
  BY <1>1, QuotBounds
<1>3. Average \in SignedWord
  BY <1>2, SignedWraps DEF Average
<1>4. ASSUME pages # 1 PROVE RmsSq \in Int /\ ToWord(Sqrt(RmsSq)) \in Word
  <2>1. pages - 1 \in Nat \ {0} /\ avg * avg \in Int
    BY <1>1, <1>4
  <2>2. Quot(avg * avg, pages) \in Int
    BY <1>1, <2>1, QuotBounds
  <2>3. rms - Quot(avg * avg, pages) \in Int
    BY <1>1, <2>2
  <2>4. RmsSq \in Int
    BY <2>1, <2>3, QuotBounds DEF RmsSq
  <2>5. Sqrt(RmsSq) \in Int
    <3>1. CASE RmsSq < 0
      BY <3>1 DEF Sqrt
    <3>2. CASE RmsSq \in Nat
      BY <3>2, SqrtBounds
    <3> QED BY <2>4, <3>1, <3>2
  <2> QED BY <2>4, <2>5, ToWordWord
<1> QED BY <1>2, <1>3, <1>4

LEMMA WordZero == 0 \in Word /\ 0 \in SignedWord
BY SizePositive DEF Word, SignedWord, Size

LEMMA TypeInit == Init => TypeOK
<1> SUFFICES ASSUME Init PROVE TypeOK
  OBVIOUS
<1>1. pages \in Nat /\ seen = <<>> /\ Len(seen) = 0 /\ seen \in Seq(Pixels)
  BY PixelAssumption DEF Init
<1>2. Len(seen) <= pages
  BY <1>1
<1> QED BY <1>1, <1>2, WordZero DEF Init, TypeOK

\* A loop over the pages accumulates words.
LEMMA TypeNextPage ==
  ASSUME TypeOK, NEW v \in Pixels, NextPage(v)
  PROVE  /\ v \in Word /\ v \in Int /\ v - dk0 \in Int /\ (v - dk0) * (v - dk0) \in Int
         /\ method' \in Methods /\ pc' \in {"dark", "syn"} /\ pages' \in PageCounts
         /\ seen' \in Seq(Pixels) /\ Len(seen') <= pages'
         /\ out_avg' \in Word /\ out_std' \in Word /\ data' \in Word /\ res' \in Word
<1>1. v \in Word
  BY PixelAssumption DEF Word
<1>2. v \in Int /\ dk0 \in Int
  BY <1>1, SizePositive DEF Word, TypeOK
<1>3. seen' = Append(seen, v) /\ seen \in Seq(Pixels) /\ Len(seen) + 1 <= pages
  BY PixelAssumption DEF NextPage, TypeOK
<1>4. seen' \in Seq(Pixels) /\ Len(seen') = Len(seen) + 1
  BY <1>3
<1> QED BY <1>1, <1>2, <1>3, <1>4 DEF NextPage, TypeOK

LEMMA SumWord ==
  ASSUME TypeOK, NEW d \in Int
  PROVE  Sum(d) \in SignedWord
<1>1. avg + d \in Int
  BY SizePositive DEF TypeOK, SignedWord
<1> QED BY <1>1, SignedWraps DEF Sum

LEMMA TypeNext ==
  ASSUME TypeOK, [Next]_vars
  PROVE  TypeOK'
<1>1. ASSUME NEW v \in Pixels, AvgOp1(v) PROVE TypeOK'
  <2>1. NextPage(v) /\ avg' = Sum(Round(v, pages)) /\ UNCHANGED <<dk0, rms>>
    BY <1>1 DEF AvgOp1
  <2>2. pages \in Nat \ {0} /\ v \in Int
    BY <2>1, TypeNextPage, PixelAssumption DEF TypeOK
  <2>3. avg' \in SignedWord
    BY <2>1, <2>2, RoundBounds, SumWord
  <2> QED BY <2>1, <2>3, TypeNextPage DEF TypeOK
<1>2. ASSUME NEW v \in Pixels, AvgOp2(v) PROVE TypeOK'
  <2>1. NextPage(v)
    BY <1>2 DEF AvgOp2
  <2>2. Sum(v - dk0) \in SignedWord
    BY <2>1, TypeNextPage, SumWord
  <2>3. dk0' \in Word /\ avg' \in SignedWord /\ rms' \in Word
    BY <1>2, <2>1, <2>2, TypeNextPage DEF AvgOp2, TypeOK
  <2> QED BY <2>1, <2>3, TypeNextPage DEF TypeOK
<1>3. ASSUME NEW v \in Pixels, RmsOp(v) PROVE TypeOK'
  <2>1. NextPage(v)
    BY <1>3 DEF RmsOp
  <2>2. Sum(v - dk0) \in SignedWord
    BY <2>1, TypeNextPage, SumWord
  <2>3. rms + (v - dk0) * (v - dk0) \in Int
    BY <2>1, TypeNextPage, SizePositive DEF TypeOK, Word
  <2>4. ToWord(rms + (v - dk0) * (v - dk0)) \in Word
    BY <2>3, ToWordWord
  <2>5. dk0' \in Word /\ avg' \in SignedWord /\ rms' \in Word
    BY <1>3, <2>1, <2>2, <2>4, TypeNextPage DEF RmsOp, TypeOK
  <2> QED BY <2>1, <2>5, TypeNextPage DEF TypeOK
<1>4. ASSUME NEW v \in Pixels, SubOp(v) PROVE TypeOK'
  <2>1. v \in Word /\ v - avg \in Int
    BY PixelAssumption, SizePositive DEF TypeOK, Word, SignedWord
  <2>2. res' \in Word
    BY <1>4, <2>1, UnsignedWord, WordZero DEF SubOp
  <2> QED BY <1>4, <2>1, <2>2 DEF SubOp, TypeOK
<1>5. CASE AvgSyn1
  <2>1. Unsigned(avg) \in Word
    BY UnsignedWord, SizePositive DEF TypeOK, SignedWord
  <2> QED BY <1>5, <2>1 DEF AvgSyn1, TypeOK
<1>6. CASE AvgSyn2
  <2>1. avg' = Average /\ out_avg' = Unsigned(avg')
    BY <1>6 DEF AvgSyn2
  <2>2. avg' \in SignedWord /\ avg' \in Int
    BY <2>1, SynTypes, SizePositive DEF SignedWord
  <2>3. out_avg' \in Word
    BY <2>1, <2>2, UnsignedWord
  <2> QED BY <1>6, <2>2, <2>3 DEF AvgSyn2, TypeOK
<1>7. CASE ImageSyn
  <2>1. avg' = Average /\ out_avg' = Unsigned(avg') /\ rms' = ToWord(Sqrt(RmsSq)) /\ out_std' = rms'
    BY <1>7 DEF ImageSyn
  <2>2. avg' \in SignedWord /\ avg' \in Int /\ rms' \in Word
    BY <1>7, <2>1, SynTypes, SizePositive DEF SignedWord, ImageSyn
  <2>3. out_avg' \in Word
    BY <2>1, <2>2, UnsignedWord
  <2> QED BY <1>7, <2>1, <2>2, <2>3 DEF ImageSyn, TypeOK
<1>8. CASE DivideByZero
  BY <1>8 DEF DivideByZero, TypeOK
<1>9. CASE UNCHANGED vars
  BY <1>9 DEF vars, TypeOK
<1> QED BY <1>1, <1>2, <1>3, <1>4, <1>5, <1>6, <1>7, <1>8, <1>9 DEF Next

\* Every buffer keeps its width, whatever the pages and the arithmetic do.
THEOREM TypeCorrect == Spec => []TypeOK
<1>1. Init => TypeOK
  BY TypeInit
<1>2. TypeOK /\ [Next]_vars => TypeOK'
  BY TypeNext
<1> QED BY <1>1, <1>2, PTL DEF Spec

-----------------------------------------------------------------------------
(***************************************************************************)
(* What one more page adds to the sums.                                    *)
(***************************************************************************)

\* A sequence that agrees with s where s is defined, and has v after it.
LEMMA IsAppend ==
  ASSUME NEW s \in Seq(Int), NEW v \in Int, NEW t,
         t = [n \in 1..(Len(s) + 1) |-> t[n]],
         t[Len(s) + 1] = v, \A n \in 1..Len(s) : t[n] = s[n]
  PROVE  t = Append(s, v)
<1> DEFINE u == Append(s, v)
           m == Len(s)
<1>1. u \in Seq(Int) /\ Len(u) = m + 1 /\ m \in Nat
  OBVIOUS
<1>2. u[m + 1] = v /\ \A n \in 1..m : u[n] = s[n]
  OBVIOUS
<1> HIDE DEF u
<1>3. DOMAIN u = 1..(m + 1) /\ u = [n \in DOMAIN u |-> u[n]]
  <2>1. u \in [1..Len(u) -> Int]
    BY <1>1
  <2> QED BY <1>1, <2>1
<1>4. \A n \in 1..(m + 1) : n \in 1..m \/ n = m + 1
  BY <1>1
<1>5. \A n \in 1..(m + 1) : t[n] = u[n]
  BY <1>2, <1>4
<1>6. u = [n \in 1..(m + 1) |-> t[n]]
  BY <1>3, <1>5
<1> QED BY <1>6 DEF u

\* The sequences whose sums are compared are sequences of integers.
LEMMA SequenceTypes ==
  ASSUME TypeOK
  PROVE  /\ seen \in Seq(Int) /\ Squares \in Seq(Int) /\ Diffs \in Seq(Int)
         /\ DiffSquares \in Seq(Int) /\ Quotients \in Seq(Int)
         /\ Len(Squares) = Len(seen) /\ Len(Diffs) = Len(seen)
         /\ Len(DiffSquares) = Len(seen) /\ Len(Quotients) = Len(seen)
<1>1. /\ pages \in Nat \ {0} /\ dk0 \in Int /\ Len(seen) \in Nat
      /\ DOMAIN seen = 1..Len(seen) /\ \A n \in 1..Len(seen) : seen[n] \in Int
  <2>1. pages \in Nat \ {0} /\ dk0 \in Int
    BY PixelAssumption, SizePositive DEF TypeOK, Word
  <2>2. seen \in Seq(Pixels) /\ Pixels \subseteq Int
    BY PixelAssumption, SizePositive DEF TypeOK
  <2>3. Len(seen) \in Nat /\ DOMAIN seen = 1..Len(seen) /\ \A n \in 1..Len(seen) : seen[n] \in Pixels
    BY <2>2
  <2> QED BY <2>1, <2>2, <2>3
<1> DEFINE m == Len(seen)
<1>2. seen = [n \in 1..m |-> seen[n]] /\ seen \in Seq(Int)
  BY <1>1, SizePositive, PixelAssumption DEF TypeOK
<1>3. Squares \in [1..m -> Int]
  BY <1>1 DEF Squares
<1>4. Diffs \in [1..m -> Int]
  BY <1>1 DEF Diffs
<1>5. DiffSquares \in [1..m -> Int]
  <2>1. \A n \in 1..m : Diffs[n] \in Int
    BY <1>4
  <2>2. \A n \in 1..m : Diffs[n] * Diffs[n] \in Int
    BY <2>1
  <2> QED BY <1>1, <2>2 DEF DiffSquares
<1>6. Quotients \in [1..m -> Int]
  <2>1. \A n \in 1..m : Round(seen[n], pages) \in Int
    BY <1>1, RoundBounds
  <2> QED BY <1>1, <2>1 DEF Quotients
<1>7. \A s \in [1..m -> Int] : s \in Seq(Int) /\ Len(s) = m
  BY <1>1
<1> QED BY <1>2, <1>3, <1>4, <1>5, <1>6, <1>7

LEMMA NextSums ==
  ASSUME TypeOK, TypeOK', NEW v \in Pixels, NextPage(v), seen # <<>> => dk0' = dk0
  PROVE  /\ Len(seen') = Len(seen) + 1
         /\ Total(seen') = Total(seen) + v
         /\ Total(Squares') = Total(Squares) + v * v
         /\ Total(Diffs') = Total(Diffs) + (v - dk0')
         /\ Total(DiffSquares') = Total(DiffSquares) + (v - dk0') * (v - dk0')
         /\ Total(Quotients') = Total(Quotients) + Round(v, pages)
<1> DEFINE m == Len(seen)
           d == v - dk0'
<1>1. /\ v \in Int /\ d \in Int /\ d * d \in Int /\ v * v \in Int /\ m \in Nat
      /\ pages \in Nat \ {0} /\ pages' = pages
  BY PixelAssumption, SizePositive DEF TypeOK, Word, NextPage
<1>2. seen' = Append(seen, v) /\ seen \in Seq(Int)
  BY SequenceTypes DEF NextPage
<1>3. /\ DOMAIN seen' = 1..(m + 1) /\ seen'[m + 1] = v /\ Len(seen') = m + 1
      /\ \A n \in 1..m : seen'[n] = seen[n]
      /\ DOMAIN seen = 1..m
  BY <1>1, <1>2
<1>4. \A n \in 1..m : n \in 1..(m + 1) /\ dk0' = dk0
  <2>1. m > 0 => seen # <<>>
    BY <1>2
  <2> QED BY <1>1, <2>1
<1>5. m + 1 \in 1..(m + 1)
  BY <1>1
<1> HIDE DEF d
<1>6. Squares' = Append(Squares, v * v)
  <2>1. \A n \in 1..m : Squares'[n] = Squares[n]
    BY <1>3, <1>4 DEF Squares
  <2>2. Squares' = [n \in 1..(m + 1) |-> Squares'[n]] /\ Squares'[m + 1] = v * v
    BY <1>3, <1>5 DEF Squares
  <2>3. Squares \in Seq(Int) /\ Len(Squares) = m
    BY SequenceTypes
  <2> QED BY <1>1, <2>1, <2>2, <2>3, IsAppend
<1>7. Diffs' = Append(Diffs, d)
  <2>1. \A n \in 1..m : Diffs'[n] = Diffs[n]
    BY <1>3, <1>4 DEF Diffs
  <2>2. Diffs' = [n \in 1..(m + 1) |-> Diffs'[n]] /\ Diffs'[m + 1] = d
    BY <1>3, <1>5 DEF Diffs, d
  <2>3. Diffs \in Seq(Int) /\ Len(Diffs) = m
    BY SequenceTypes
  <2> QED BY <1>1, <2>1, <2>2, <2>3, IsAppend
<1>8. DiffSquares' = Append(DiffSquares, d * d)
  <2>1. (\A n \in 1..m : Diffs'[n] = Diffs[n]) /\ Diffs'[m + 1] = d
    BY <1>1, <1>7, SequenceTypes
  <2>2. \A n \in 1..m : DiffSquares'[n] = DiffSquares[n]
    BY <1>3, <1>4, <2>1 DEF DiffSquares
  <2>3. DiffSquares' = [n \in 1..(m + 1) |-> DiffSquares'[n]] /\ DiffSquares'[m + 1] = d * d
    BY <1>3, <1>5, <2>1 DEF DiffSquares
  <2>4. DiffSquares \in Seq(Int) /\ Len(DiffSquares) = m
    BY SequenceTypes
  <2> QED BY <1>1, <2>2, <2>3, <2>4, IsAppend
<1>9. Quotients' = Append(Quotients, Round(v, pages))
  <2>1. \A n \in 1..m : Quotients'[n] = Quotients[n]
    BY <1>1, <1>3, <1>4 DEF Quotients
  <2>2. Quotients' = [n \in 1..(m + 1) |-> Quotients'[n]] /\ Quotients'[m + 1] = Round(v, pages)
    BY <1>1, <1>3, <1>5 DEF Quotients
  <2>3. Quotients \in Seq(Int) /\ Len(Quotients) = m /\ Round(v, pages) \in Int
    BY <1>1, SequenceTypes, RoundBounds
  <2> QED BY <2>1, <2>2, <2>3, IsAppend
<1>10. Total(seen') = Total(seen) + v /\ Total(Squares') = Total(Squares) + v * v
  BY <1>1, <1>2, <1>6, SequenceTypes, TotalAppend
<1>11. Total(Diffs') = Total(Diffs) + d /\ Total(DiffSquares') = Total(DiffSquares) + d * d
  BY <1>1, <1>7, <1>8, SequenceTypes, TotalAppend
<1>12. Total(Quotients') = Total(Quotients) + Round(v, pages)
  BY <1>1, <1>9, SequenceTypes, TotalAppend, RoundBounds
<1> QED BY <1>3, <1>10, <1>11, <1>12 DEF d

-----------------------------------------------------------------------------
(***************************************************************************)
(* The arithmetic of mean and variance.  n values with sum S and sum of    *)
(* squares Q have, taken relative to k, the sums D and E below.            *)
(***************************************************************************)

\* n E >= D^2 stays true when a value d is added.
LEMMA CauchyStep ==
  ASSUME NEW n \in Nat, NEW E \in Int, NEW D \in Int, NEW d \in Int,
         E >= 0, n * E >= D * D
  PROVE  (n + 1) * (E + d * d) >= (D + d) * (D + d)
<1> DEFINE X == E + n * (d * d) - 2 * (D * d)
<1>1. (n + 1) * (E + d * d) - (D + d) * (D + d) = (n * E - D * D) + X
  OBVIOUS
<1>2. X \in Int /\ (D - n * d) * (D - n * d) >= 0
  OBVIOUS
<1>3. n * X = (n * E - D * D) + (D - n * d) * (D - n * d)
  OBVIOUS
<1>4. X >= 0
  <2> HIDE DEF X
  <2>1. n * X >= 0
    BY <1>2, <1>3
  <2>2. CASE n = 0
    <3>1. D * D <= 0
      BY <2>2
    <3>2. D = 0
      BY <3>1
    <3> QED BY <2>2, <3>2 DEF X
  <2>3. CASE n >= 1
    <3>1. X <= -1 => n * X <= -n
      BY <1>2, <2>3
    <3> QED BY <1>2, <2>1, <2>3, <3>1
  <2> QED BY <2>2, <2>3
<1>5. (n + 1) * (E + d * d) \in Int /\ (D + d) * (D + d) \in Int
  OBVIOUS
<1> HIDE DEF X
<1> QED BY <1>1, <1>2, <1>4, <1>5

LEMMA ShiftStep ==
  ASSUME NEW n \in Nat, NEW S \in Int, NEW Q \in Int, NEW k \in Int, NEW v \in Int
  PROVE  /\ (S - n * k) + (v - k) = (S + v) - (n + 1) * k
         /\ (Q - 2 * (k * S) + n * (k * k)) + (v - k) * (v - k)
              = (Q + v * v) - 2 * (k * (S + v)) + (n + 1) * (k * k)
OBVIOUS

\* n E - D^2 does not depend on k.
LEMMA SpreadShift ==
  ASSUME NEW n \in Nat, NEW S \in Int, NEW Q \in Int, NEW k \in Int
  PROVE  n * (Q - 2 * (k * S) + n * (k * k)) - (S - n * k) * (S - n * k) = n * Q - S * S
OBVIOUS

\* The quotient of the sum of differences, plus the reference value.
LEMMA MeanBounds ==
  ASSUME NEW p \in Nat \ {0}, NEW S \in Nat, S <= p * (Size - 1), NEW k \in Word
  PROVE  LET A == Quot(S - p * k, p) + k
         IN  A \in Word /\ A * p - S \in (1 - p)..(p - 1)
<1> DEFINE q == Quot(S - p * k, p)
           A == q + k
<1>1. k \in Nat /\ k <= Size - 1 /\ S - p * k \in Int
  BY SizePositive DEF Word, Size
<1>2. /\ q \in Int
      /\ S - p * k >= 0 => q >= 0 /\ p * q <= S - p * k /\ S - p * k < p * q + p
      /\ S - p * k <= 0 => q <= 0 /\ S - p * k <= p * q /\ p * q < S - p * k + p
  BY <1>1, QuotBounds
<1> HIDE DEF q
<1>3. p * A = p * q + p * k /\ A \in Int /\ p * q \in Int /\ p * k \in Int /\ A * p = p * A
  BY <1>1, <1>2
<1>4. A <= -1 => p * A <= -p
  BY <1>3
<1>5. A >= Size => p * A >= p * Size
  BY <1>3, SizePositive
<1>6. p * (Size - 1) = p * Size - p /\ p * Size \in Int
  BY SizePositive
<1>7. CASE S - p * k >= 0
  <2>1. p * A <= S /\ S < p * A + p /\ A >= 0
    BY <1>1, <1>2, <1>3, <1>7
  <2>2. A <= Size - 1
    BY <1>3, <1>5, <1>6, <2>1, SizePositive
  <2> HIDE DEF A
  <2>3. A \in Word
    BY <1>3, <2>1, <2>2, SizePositive DEF Word, Size
  <2>4. A * p - S \in (1 - p)..(p - 1)
    BY <1>3, <2>1
  <2> QED BY <2>3, <2>4 DEF A, q
<1>8. CASE S - p * k <= 0
  <2>1. S <= p * A /\ p * A < S + p /\ A <= Size - 1
    BY <1>1, <1>2, <1>3, <1>8, SizePositive
  <2>2. A >= 0
    BY <1>3, <1>4, <2>1
  <2> HIDE DEF A
  <2>3. A \in Word
    BY <1>3, <2>1, <2>2, SizePositive DEF Word, Size
  <2>4. A * p - S \in (1 - p)..(p - 1)
    BY <1>3, <2>1
  <2> QED BY <2>3, <2>4 DEF A, q
<1> QED BY <1>1, <1>7, <1>8

\* The variance is truncated twice and its root once.
LEMMA DeviationBounds ==
  ASSUME NEW p \in Nat \ {0}, p # 1, NEW E \in Word, NEW D \in Int, p * E >= D * D
  PROVE  LET r == Sqrt(Quot(E - Quot(D * D, p), p - 1))
         IN  /\ r \in Word
             /\ r * r * p * (p - 1) < (p * E - D * D) + p
             /\ (r + 1) * (r + 1) * p * (p - 1) > p * E - D * D
<1> DEFINE q == Quot(D * D, p)
           V == E - q
           R == Quot(V, p - 1)
           r == Sqrt(R)
<1>1. /\ D * D \in Nat /\ E \in Nat /\ E <= Size - 1 /\ p * E \in Nat
      /\ p - 1 \in Nat \ {0} /\ p \in Nat
  BY SizePositive DEF Word, Size
<1>2. q \in Int /\ q >= 0 /\ p * q <= D * D /\ D * D < p * q + p
  <2> DEFINE a == D * D
  <2>1. a \in Int /\ a >= 0
    BY <1>1
  <2> HIDE DEF a
  <2>2. Quot(a, p) \in Int /\ Quot(a, p) >= 0 /\ p * Quot(a, p) <= a /\ a < p * Quot(a, p) + p
    BY <2>1, QuotBounds
  <2> QED BY <2>2 DEF a
<1> HIDE DEF q
<1>3. p * V = p * E - p * q /\ V \in Int /\ p * q \in Int
  BY <1>1, <1>2
<1>4. V >= 0
  <2>1. V <= -1 => p * V <= -p
    BY <1>1, <1>3
  <2> HIDE DEF V
  <2> QED BY <1>1, <1>2, <1>3, <2>1
<1>5. V <= E
  BY <1>1, <1>2
<1> HIDE DEF V
<1>6. R \in Int /\ R >= 0 /\ (p - 1) * R <= V /\ V < (p - 1) * R + (p - 1)
  BY <1>1, <1>3, <1>4, QuotBounds
<1> HIDE DEF R
<1>7. R <= V
  <2>1. (p - 1) * R >= R
    BY <1>1, <1>6
  <2> QED BY <1>3, <1>6, <2>1
<1>8. r \in 0..R /\ r * r <= R /\ R < (r + 1) * (r + 1)
  <2>1. R \in Nat
    BY <1>6
  <2>2. Sqrt(R) \in 0..R /\ Sqrt(R) * Sqrt(R) <= R /\ R < (Sqrt(R) + 1) * (Sqrt(R) + 1)
    BY <2>1, SqrtBounds
  <2> QED BY <2>2
<1> HIDE DEF r
<1>9. r \in Word
  BY <1>1, <1>3, <1>5, <1>6, <1>7, <1>8, SizePositive DEF Word, Size
<1>10. /\ r \in Int /\ r * r \in Int /\ (r + 1) * (r + 1) \in Int
       /\ (p - 1) * (r * r) \in Int /\ (p - 1) * ((r + 1) * (r + 1)) \in Int
  BY <1>1, <1>8
<1> DEFINE x == r * r
           y == (r + 1) * (r + 1)
           lo == (p - 1) * x
           hi == (p - 1) * y
<1>11. lo <= V
  <2>1. x \in Int /\ x <= R /\ p - 1 \in Nat
    BY <1>1, <1>8, <1>10
  <2> HIDE DEF x
  <2>2. (p - 1) * x <= (p - 1) * R
    BY <1>6, <2>1
  <2> QED BY <1>1, <1>3, <1>6, <2>1, <2>2
<1>12. hi > V
  <2>1. y \in Int /\ y >= R + 1 /\ p - 1 \in Nat
    BY <1>1, <1>6, <1>8, <1>10
  <2> HIDE DEF y
  <2>2. (p - 1) * y >= (p - 1) * (R + 1) /\ (p - 1) * (R + 1) = (p - 1) * R + (p - 1)
    BY <1>6, <2>1
  <2> QED BY <1>1, <1>3, <1>6, <2>1, <2>2
<1>13. r * r * p * (p - 1) = p * lo /\ (r + 1) * (r + 1) * p * (p - 1) = p * hi
  BY <1>1, <1>10
<1>14. lo \in Int /\ hi \in Int
  BY <1>10
<1> HIDE DEF lo, hi
<1>15. p * lo <= p * V /\ p * hi >= p * (V + 1) /\ p * (V + 1) = p * V + p
  BY <1>1, <1>3, <1>11, <1>12, <1>14
<1>16. p * lo < (p * E - D * D) + p /\ p * hi > p * E - D * D
  <2>1. p * lo \in Int /\ p * hi \in Int /\ p * V \in Int
    BY <1>1, <1>3, <1>14
  <2> QED BY <1>1, <1>2, <1>3, <1>15, <2>1
<1> QED BY <1>9, <1>13, <1>16 DEF r, R, V, q

-----------------------------------------------------------------------------
(***************************************************************************)
(* The inductive invariant.                                                *)
(***************************************************************************)

\* How many pages have been read where.
Reading ==
  /\ pc = "dark" => Len(seen) < pages
  /\ pc # "dark" => Len(seen) = pages
  /\ pc = "sub" => method = "rms"

\* The exact sums, without words, over the pages read so far.
Sums ==
  /\ Total(seen) \in Nat /\ Total(seen) <= Len(seen) * (Size - 1)
  /\ seen = <<>> => Total(Squares) = 0
  /\ Total(Diffs) = Total(seen) - Len(seen) * dk0
  /\ Total(DiffSquares) =
       Total(Squares) - 2 * (dk0 * Total(seen)) + Len(seen) * (dk0 * dk0)
  /\ Total(DiffSquares) >= 0
  /\ Len(seen) * Total(DiffSquares) >= Total(Diffs) * Total(Diffs)
  /\ 2 * (pages * Total(Quotients) - Total(seen)) \in -(pages * Len(seen))..(pages * Len(seen))

\* What the buffers hold of them: the sum of differences modulo the size of a
\* word; the sum of squares as long as it fits.
Accumulated ==
  pc \in {"dark", "syn"} =>
    /\ avg = Signed(IF method = "avg_1" THEN Total(Quotients) ELSE Total(Diffs))
    /\ method = "rms" /\ Total(DiffSquares) \in Word => rms = Total(DiffSquares)

\* The results, and what the subtraction starts from.
Results ==
  /\ Computed /\ method = "rms" => avg = Signed(out_avg) /\ rms = out_std
  /\ AverageRight /\ StdRightIfFits /\ SignalKept

IInv == TypeOK /\ Reading /\ Sums /\ Accumulated /\ Results

LEMMA SumTypes ==
  ASSUME TypeOK
  PROVE  /\ Total(seen) \in Int /\ Total(Squares) \in Int /\ Total(Diffs) \in Int
         /\ Total(DiffSquares) \in Int /\ Total(Quotients) \in Int
BY SequenceTypes, TotalAppend, 0 \in Int

LEMMA InvInit == Init => IInv
<1> SUFFICES ASSUME Init PROVE IInv
  OBVIOUS
<1>1. TypeOK
  BY TypeInit
<1>2. seen = <<>> /\ Len(seen) = 0 /\ dk0 = 0 /\ pages \in Nat \ {0} /\ pc = "dark"
  BY PixelAssumption DEF Init
<1>3. seen = <<>> /\ Squares = <<>> /\ Diffs = <<>> /\ DiffSquares = <<>> /\ Quotients = <<>>
  BY <1>1, <1>2, SequenceTypes
<1>4. /\ Total(seen) = 0 /\ Total(Squares) = 0 /\ Total(Diffs) = 0
      /\ Total(DiffSquares) = 0 /\ Total(Quotients) = 0
  BY <1>3, TotalEmpty
<1>5. Reading
  BY <1>2 DEF Reading
<1>6. Sums
  BY <1>2, <1>4, SizePositive DEF Sums
<1>7. Accumulated
  <2>1. Signed(0) = 0
    BY WordZero, SignedFits
  <2> QED BY <1>4, <2>1 DEF Accumulated, Init
<1>8. Results
  BY <1>2 DEF Results, AverageRight, StdRightIfFits, SignalKept, Computed
<1> QED BY <1>1, <1>5, <1>6, <1>7, <1>8 DEF IInv

\* A value has been read and added to the exact sums.
LEMMA SumsNextPage ==
  ASSUME TypeOK, TypeOK', Sums, NEW v \in Pixels, NextPage(v), seen # <<>> => dk0' = dk0
  PROVE  Sums'
<1> DEFINE n == Len(seen)
           S == Total(seen)
           Q == Total(Squares)
           D == Total(Diffs)
           E == Total(DiffSquares)
           K == Total(Quotients)
           k == dk0'
           d == v - dk0'
<1>1. /\ n \in Nat /\ v \in Nat /\ v <= Size - 1 /\ k \in Int /\ d \in Int
      /\ pages \in Nat \ {0} /\ pages' = pages /\ seen' # <<>>
  <2>1. n \in Nat /\ v \in Word /\ dk0' \in Word /\ pages \in Nat \ {0} /\ pages' = pages
    BY PixelAssumption DEF TypeOK, NextPage, Word
  <2>2. seen' = Append(seen, v) /\ seen \in Seq(Int) /\ v \in Int
    BY <2>1, SequenceTypes, SizePositive DEF NextPage, Word
  <2>3. seen' # <<>>
    <3>1. Len(seen') = n + 1
      BY <2>2
    <3> QED BY <2>1, <3>1
  <2> QED BY <2>1, <2>3, SizePositive DEF Word, Size
<1>2. S \in Int /\ Q \in Int /\ D \in Int /\ E \in Int /\ K \in Int
  BY SumTypes
<1>3. n = 0 => seen = <<>> /\ S = 0 /\ Q = 0
  <2>1. n = 0 => seen = <<>>
    BY SequenceTypes
  <2>2. n = 0 => S \in Nat /\ S <= n * (Size - 1) /\ n * (Size - 1) = 0
    BY SizePositive DEF Sums
  <2> QED BY <2>1, <2>2 DEF Sums
<1>4. n # 0 => k = dk0
  BY <1>1
\* the sums before, relative to the reference value after
<1>5. D = S - n * k /\ E = Q - 2 * (k * S) + n * (k * k)
  <2>1. dk0 \in Int
    BY SizePositive DEF TypeOK, Word
  <2>2. CASE n = 0
    <3>1. D = S - n * dk0 /\ E = Q - 2 * (dk0 * S) + n * (dk0 * dk0)
      BY DEF Sums
    <3>2. D = 0 /\ E = 0
      BY <1>3, <2>1, <2>2, <3>1
    <3>3. n * k = 0 /\ n * (k * k) = 0 /\ k * S = 0
      <4>1. k \in Int /\ k * k \in Int /\ n = 0 /\ S = 0
        BY <1>1, <1>3, <2>2
      <4> HIDE DEF k, n, S
      <4> QED BY <4>1
    <3> QED BY <1>3, <2>2, <3>2, <3>3
  <2>3. CASE n # 0
    BY <1>4, <2>3 DEF Sums
  <2> QED BY <2>2, <2>3
<1>6. /\ Len(seen') = n + 1 /\ Total(seen') = S + v /\ Total(Squares') = Q + v * v
      /\ Total(Diffs') = D + d /\ Total(DiffSquares') = E + d * d
      /\ Total(Quotients') = K + Round(v, pages)
  BY NextSums
<1>7. S \in Nat /\ S <= n * (Size - 1) /\ E >= 0 /\ n * E >= D * D
  BY DEF Sums
<1>8. 2 * (pages * K - S) \in -(pages * n)..(pages * n)
  BY DEF Sums
<1>9. Round(v, pages) \in Int /\ 2 * (pages * Round(v, pages) - v) \in -pages..pages
  <2>1. v \in Int /\ pages \in Nat \ {0}
    BY <1>1
  <2> QED BY <2>1, RoundBounds
<1> HIDE DEF n, S, Q, D, E, K, k, d
<1>10. S + v \in Nat /\ S + v <= (n + 1) * (Size - 1)
  <2>1. (n + 1) * (Size - 1) = n * (Size - 1) + (Size - 1) /\ n * (Size - 1) \in Int
    BY <1>1, SizePositive
  <2> QED BY <1>1, <1>7, <2>1, SizePositive
<1>11. D + d = (S + v) - (n + 1) * k
  <2>1. (S - n * k) + (v - k) = (S + v) - (n + 1) * k
    BY <1>1, <1>2, ShiftStep
  <2> QED BY <1>5, <2>1 DEF d, k
<1>12. E + d * d = (Q + v * v) - 2 * (k * (S + v)) + (n + 1) * (k * k)
  <2>1. (Q - 2 * (k * S) + n * (k * k)) + (v - k) * (v - k)
          = (Q + v * v) - 2 * (k * (S + v)) + (n + 1) * (k * k)
    BY <1>1, <1>2, ShiftStep
  <2> QED BY <1>5, <2>1 DEF d, k
<1>13. E + d * d >= 0
  BY <1>1, <1>2, <1>7
<1>14. (n + 1) * (E + d * d) >= (D + d) * (D + d)
  BY <1>1, <1>2, <1>7, CauchyStep
<1>15. 2 * (pages * (K + Round(v, pages)) - (S + v)) \in -(pages * (n + 1))..(pages * (n + 1))
  <2> DEFINE R == Round(v, pages)
             pk == pages * K
             pr == pages * R
             pn == pages * n
  <2>1. pages * (K + R) = pk + pr /\ pages * (n + 1) = pn + pages
    BY <1>1, <1>2, <1>9
  <2>2. pk \in Int /\ pr \in Int /\ pn \in Int
    BY <1>1, <1>2, <1>9
  <2>3. 2 * (pk - S) \in -pn..pn /\ 2 * (pr - v) \in -pages..pages
    BY <1>8, <1>9
  <2> HIDE DEF pk, pr, pn, R
  <2>4. 2 * ((pk + pr) - (S + v)) \in -(pn + pages)..(pn + pages)
    BY <1>1, <1>2, <2>2, <2>3
  <2> QED BY <2>1, <2>4 DEF R
<1>16. seen' = <<>> => Total(Squares') = 0
  BY <1>1
<1> QED BY <1>1, <1>6, <1>10, <1>11, <1>12, <1>13, <1>14, <1>15, <1>16 DEF Sums, k

\* Steps that read no dark page leave the exact sums alone.
LEMMA SumsKept ==
  ASSUME UNCHANGED <<seen, dk0, pages>>
  PROVE  /\ Total(seen') = Total(seen) /\ Total(Squares') = Total(Squares)
         /\ Total(Diffs') = Total(Diffs) /\ Total(DiffSquares') = Total(DiffSquares)
         /\ Total(Quotients') = Total(Quotients)
<1>1. Squares' = Squares /\ Diffs' = Diffs /\ Quotients' = Quotients
  BY DEF Squares, Diffs, Quotients
<1>2. DiffSquares' = DiffSquares
  BY <1>1 DEF DiffSquares
<1> QED BY <1>1, <1>2

\* The wrapped sum follows the exact one.
LEMMA AccumulatedNextPage ==
  ASSUME TypeOK, TypeOK', Sums, Accumulated, NEW v \in Pixels,
         AvgOp1(v) \/ AvgOp2(v) \/ RmsOp(v)
  PROVE  Sums' /\ Accumulated'
<1>1. NextPage(v) /\ (seen # <<>> => dk0' = dk0) /\ pc \in {"dark", "syn"} /\ method' = method
  BY DEF AvgOp1, AvgOp2, RmsOp, NextPage
<1>2. Sums'
  BY <1>1, SumsNextPage
<1>3. /\ v \in Int /\ dk0 \in Int /\ dk0' \in Int /\ pages \in Nat \ {0}
      /\ Total(Diffs) \in Int /\ Total(DiffSquares) \in Int /\ Total(Quotients) \in Int
  BY <1>1, TypeNextPage, SumTypes, PixelAssumption, SizePositive DEF TypeOK, Word
<1>4. /\ Total(Diffs') = Total(Diffs) + (v - dk0')
      /\ Total(DiffSquares') = Total(DiffSquares) + (v - dk0') * (v - dk0')
      /\ Total(Quotients') = Total(Quotients) + Round(v, pages)
  BY <1>1, NextSums
<1>5. CASE AvgOp1(v)
  <2>1. method = "avg_1" /\ avg' = Sum(Round(v, pages)) /\ avg = Signed(Total(Quotients))
    BY <1>1, <1>5 DEF AvgOp1, Accumulated
  <2>2. Round(v, pages) \in Int
    BY <1>3, RoundBounds
  <2>3. avg' = Signed(Total(Quotients'))
    BY <1>3, <1>4, <2>1, <2>2, SignedSum DEF Sum
  <2> QED BY <1>1, <1>2, <2>1, <2>3 DEF Accumulated
<1>6. ASSUME AvgOp2(v) \/ RmsOp(v), seen = <<>> PROVE Accumulated'
  <2>1. method # "avg_1" /\ dk0' = v /\ avg' = avg /\ rms' = rms
    BY <1>6 DEF AvgOp2, RmsOp
  <2>2. v - dk0' = 0 /\ (v - dk0') * (v - dk0') = 0
    BY <1>3, <2>1
  <2>3. Total(Diffs') = Total(Diffs) /\ Total(DiffSquares') = Total(DiffSquares)
    <3> DEFINE D == Total(Diffs)
               E == Total(DiffSquares)
    <3>1. Total(Diffs') = D + 0 /\ Total(DiffSquares') = E + 0
      BY <1>4, <2>2
    <3>2. D \in Int /\ E \in Int
      BY <1>3
    <3> HIDE DEF D, E
    <3>3. D + 0 = D /\ E + 0 = E
      BY <3>2
    <3> QED BY <3>1, <3>3 DEF D, E
  <2> QED BY <1>1, <2>1, <2>3 DEF Accumulated
<1>7. ASSUME AvgOp2(v) \/ RmsOp(v), seen # <<>> PROVE Accumulated'
  <2>1. method # "avg_1" /\ dk0' = dk0 /\ avg' = Sum(v - dk0) /\ avg = Signed(Total(Diffs))
    BY <1>1, <1>7 DEF AvgOp2, RmsOp, Accumulated
  <2>2. avg' = Signed(Total(Diffs'))
    <3>1. v - dk0 \in Int
      BY <1>3
    <3> QED BY <1>3, <1>4, <2>1, <3>1, SignedSum DEF Sum
  <2>3. ASSUME method' = "rms", Total(DiffSquares') \in Word
        PROVE  rms' = Total(DiffSquares')
    <3> DEFINE sq == (v - dk0) * (v - dk0)
    <3>1. RmsOp(v) /\ rms' = ToWord(rms + sq)
      BY <1>1, <1>7, <2>3 DEF AvgOp2, RmsOp
    <3>2. sq \in Int /\ sq >= 0 /\ Total(DiffSquares') = Total(DiffSquares) + sq
      BY <1>3, <1>4, <2>1
    <3>3. Total(DiffSquares) >= 0
      BY DEF Sums
    <3> HIDE DEF sq
    <3>4. Total(DiffSquares) \in Word
      BY <1>3, <2>3, <3>2, <3>3, SizePositive DEF Word
    <3>5. rms = Total(DiffSquares)
      BY <1>1, <2>3, <3>4 DEF Accumulated
    <3> QED BY <2>3, <3>1, <3>2, <3>5, ToWordFits
  <2> QED BY <1>1, <2>1, <2>2, <2>3 DEF Accumulated
<1> QED BY <1>2, <1>5, <1>6, <1>7

-----------------------------------------------------------------------------
(***************************************************************************)
(* The synthesis turns the sums into the results.                          *)
(***************************************************************************)

\* The average by differences from the first page.
LEMMA AverageBySums ==
  ASSUME TypeOK, Sums, Len(seen) = pages, avg = Signed(Total(Diffs)),
         Total(Diffs) \in SignedWord
  PROVE  Unsigned(Average) * pages - Total(seen) \in (1 - pages)..(pages - 1)
<1> DEFINE S == Total(seen)
           A == Quot(S - pages * dk0, pages) + dk0
<1>1. pages \in Nat \ {0} /\ dk0 \in Word /\ dk0 \in Int
  BY PixelAssumption, SizePositive DEF TypeOK, Word
<1>2. S \in Nat /\ S <= pages * (Size - 1) /\ Total(Diffs) = S - pages * dk0
  BY DEF Sums
<1>3. avg = S - pages * dk0
  BY <1>2, SignedFits
<1>4. A \in Word /\ A * pages - S \in (1 - pages)..(pages - 1)
  BY <1>1, <1>2, MeanBounds
<1>5. Average = Signed(A)
  BY <1>3 DEF Average
<1> HIDE DEF A
<1>6. A \in Int
  BY <1>4, SizePositive DEF Word
<1>7. Unsigned(Average) = A
  BY <1>4, <1>5, <1>6, UnsignedOfSigned, UnsignedFits
<1> QED BY <1>4, <1>7

\* What the range conditions are about does not change any more.
LEMMA RangesKept ==
  ASSUME UNCHANGED <<seen, dk0, pages, method>>
  PROVE  (SumFits' <=> SumFits) /\ (SquaresFit' <=> SquaresFit) /\ Spread' = Spread
BY SumsKept DEF SumFits, SquaresFit, Spread

LEMMA SumsUnchanged ==
  ASSUME Sums, UNCHANGED <<seen, dk0, pages>>
  PROVE  Sums'
BY SumsKept DEF Sums

\* The deviation, from sums that fit.
LEMMA DeviationBySums ==
  ASSUME TypeOK, Sums, Len(seen) = pages, pages # 1, avg = Signed(Total(Diffs)),
         Total(Diffs) \in SignedWord, rms = Total(DiffSquares), SquaresFit
  PROVE  LET r == ToWord(Sqrt(RmsSq))
         IN  /\ r * r * pages * (pages - 1) < Spread + pages
             /\ (r + 1) * (r + 1) * pages * (pages - 1) > Spread
<1> DEFINE S == Total(seen)
           Q == Total(Squares)
           D == Total(Diffs)
           E == Total(DiffSquares)
           r == Sqrt(Quot(E - Quot(D * D, pages), pages - 1))
<1>1. pages \in Nat \ {0} /\ dk0 \in Int
  BY PixelAssumption, SizePositive DEF TypeOK, Word
<1>2. S \in Int /\ Q \in Int /\ D \in Int /\ E \in Word
  BY SumTypes DEF SquaresFit
<1>3. pages * E >= D * D /\ D = S - pages * dk0
      /\ E = Q - 2 * (dk0 * S) + pages * (dk0 * dk0)
  BY DEF Sums
<1>4. avg = D
  BY SignedFits
<1>5. Sqrt(RmsSq) = r
  BY <1>4 DEF RmsSq
<1> HIDE DEF S, Q, D, E
<1>6. /\ r \in Word
      /\ r * r * pages * (pages - 1) < (pages * E - D * D) + pages
      /\ (r + 1) * (r + 1) * pages * (pages - 1) > pages * E - D * D
  BY <1>1, <1>2, <1>3, DeviationBounds
<1>7. pages * E - D * D = pages * Q - S * S
  <2>1. pages * (Q - 2 * (dk0 * S) + pages * (dk0 * dk0)) - (S - pages * dk0) * (S - pages * dk0)
          = pages * Q - S * S
    BY <1>1, <1>2, SpreadShift
  <2> QED BY <1>3, <2>1
<1>8. Spread = pages * E - D * D
  BY <1>7 DEF Spread, S, Q
<1> HIDE DEF r
<1>9. ToWord(Sqrt(RmsSq)) = r
  BY <1>5, <1>6, ToWordFits
<1> QED BY <1>6, <1>8, <1>9

\* What the synthesis by differences leaves.
LEMMA ImageSynStep ==
  ASSUME IInv, ImageSyn
  PROVE  Results' /\ Reading' /\ Accumulated'
<1>1. /\ pc = "syn" /\ method = "rms" /\ pages # 1 /\ pc' = "sub" /\ Len(seen) = pages
      /\ UNCHANGED <<seen, dk0, pages, method>>
      /\ rms' = ToWord(Sqrt(RmsSq)) /\ out_std' = rms'
      /\ avg' = Average /\ out_avg' = Unsigned(avg')
  BY DEF ImageSyn, IInv, Reading
<1>2. TypeOK /\ Sums /\ avg = Signed(Total(Diffs))
      /\ (Total(DiffSquares) \in Word => rms = Total(DiffSquares))
  BY <1>1 DEF IInv, Accumulated
<1>3. avg' \in SignedWord /\ avg' \in Int
  BY <1>1, <1>2, SynTypes, SizePositive DEF SignedWord
<1>4. avg' = Signed(out_avg')
  BY <1>1, <1>3, SignedOfUnsigned, SignedFits
<1>5. AverageRight'
  <2>1. SumFits' => Total(Diffs) \in SignedWord
    BY <1>1, RangesKept DEF SumFits
  <2>2. SumFits' => out_avg' * pages' - Total(seen') \in (1 - pages')..(pages' - 1)
    BY <1>1, <1>2, <2>1, AverageBySums
  <2> QED BY <1>1, <2>2 DEF AverageRight
<1>6. StdRightIfFits'
  <2>1. SumFits' /\ SquaresFit' => SquaresFit /\ Total(Diffs) \in SignedWord
    BY <1>1, RangesKept DEF SumFits
  <2>2. SquaresFit => rms = Total(DiffSquares)
    BY <1>2 DEF SquaresFit
  <2>3. SumFits' /\ SquaresFit' => StdRight'
    BY <1>1, <1>2, <2>1, <2>2, DeviationBySums, RangesKept DEF StdRight
  <2> QED BY <2>3 DEF StdRightIfFits
<1>7. SignalKept' /\ Reading' /\ Accumulated'
  BY <1>1 DEF SignalKept, Reading, Accumulated
<1> QED BY <1>1, <1>4, <1>5, <1>6, <1>7 DEF Results

LEMMA AvgSyn2Step ==
  ASSUME IInv, AvgSyn2
  PROVE  Results' /\ Reading' /\ Accumulated'
<1>1. /\ pc = "syn" /\ method = "avg_2" /\ pc' = "done" /\ Len(seen) = pages
      /\ UNCHANGED <<seen, dk0, pages, method>> /\ out_avg' = Unsigned(Average)
  BY DEF AvgSyn2, IInv, Reading
<1>2. TypeOK /\ Sums /\ avg = Signed(Total(Diffs))
  BY <1>1 DEF IInv, Accumulated
<1>3. AverageRight'
  <2>1. SumFits' => Total(Diffs) \in SignedWord
    BY <1>1, RangesKept DEF SumFits
  <2>2. SumFits' => out_avg' * pages' - Total(seen') \in (1 - pages')..(pages' - 1)
    BY <1>1, <1>2, <2>1, AverageBySums
  <2> QED BY <1>1, <2>2 DEF AverageRight
<1> QED BY <1>1, <1>3 DEF Results, StdRightIfFits, SignalKept, Reading, Accumulated

\* The average by rounded quotients is the sum itself.
LEMMA AvgSyn1Step ==
  ASSUME IInv, AvgSyn1
  PROVE  Results' /\ Reading' /\ Accumulated'
<1>1. /\ pc = "syn" /\ method = "avg_1" /\ pc' = "done" /\ Len(seen) = pages
      /\ UNCHANGED <<seen, dk0, pages, method>> /\ out_avg' = Unsigned(avg)
  BY DEF AvgSyn1, IInv, Reading
<1>2. TypeOK /\ Sums /\ avg = Signed(Total(Quotients))
  BY <1>1 DEF IInv, Accumulated
<1>3. AverageRight'
  <2> DEFINE K == Total(Quotients)
             S == Total(seen)
  <2>1. SumFits' => K \in Word
    BY <1>1, RangesKept DEF SumFits
  <2>2. K \in Int /\ S \in Int /\ pages \in Nat \ {0}
    BY <1>2, SumTypes, PixelAssumption DEF TypeOK
  <2>3. SumFits' => out_avg' = K
    BY <1>1, <1>2, <2>1, <2>2, UnsignedOfSigned, UnsignedFits
  <2>4. 2 * (pages * K - S) \in -(pages * pages)..(pages * pages)
    BY <1>1, <1>2 DEF Sums
  <2> HIDE DEF K
  <2>5. pages * K = K * pages
    BY <2>2
  <2>6. SumFits' => 2 * (out_avg' * pages' - Total(seen')) \in -(pages' * pages')..(pages' * pages')
    BY <1>1, <2>3, <2>4, <2>5
  <2> QED BY <1>1, <2>6 DEF AverageRight
<1> QED BY <1>1, <1>3 DEF Results, StdRightIfFits, SignalKept, Reading, Accumulated

\* A signal beyond the threshold, measured against the average that has been written.
LEMMA SignalBounds ==
  ASSUME NEW v \in Int, NEW a \in Int, NEW t \in Nat, NEW p \in Nat \ {0}, NEW S \in Int,
         a * p - S \in (1 - p)..(p - 1), v * p - S >= (t + 1) * p
  PROVE  v - a >= t /\ (v - a) * p - (v * p - S) \in (1 - p)..(p - 1)
<1> DEFINE x == v - a
<1>1. x \in Int /\ x * p = v * p - a * p /\ (t + 1) * p = t * p + p
  OBVIOUS
<1>2. /\ v * p \in Int /\ a * p \in Int /\ t * p \in Int /\ x * p \in Int
      /\ x * p > t * p /\ x * p - (v * p - S) \in (1 - p)..(p - 1)
  BY <1>1
<1> HIDE DEF x
<1>3. (t - x) * p = t * p - x * p
  BY <1>1
<1>4. t - x > 0 => (t - x) * p >= 0
  BY <1>1
<1>5. x >= t
  BY <1>1, <1>2, <1>3, <1>4
<1> QED BY <1>2, <1>5 DEF x

\* A word read as a signed one.
LEMMA SignedOfWord ==
  ASSUME NEW n \in Word
  PROVE  \E k \in {0, 1} : Signed(n) = n - Size * k
<1>1. Unsigned(n) = n /\ n \in Int
  BY UnsignedFits, SizePositive DEF Word
<1> QED BY <1>1, SizePositive DEF Signed, Size

\* A data page: the difference fits because it is not below the threshold, and
\* wraps back to it where the average is negative.
LEMMA SubOpStep ==
  ASSUME IInv, NEW v \in Pixels, SubOp(v)
  PROVE  Results' /\ Reading' /\ Accumulated'
<1>1. /\ pc = "sub" /\ pc' = "done" /\ data' = v
      /\ res' = IF v - avg >= Lld THEN Unsigned(v - avg) ELSE 0
      /\ UNCHANGED <<method, pages, seen, dk0, avg, rms, out_avg, out_std>>
  BY DEF SubOp
<1>2. method = "rms" /\ avg = Signed(out_avg) /\ rms = out_std
      /\ AverageRight /\ StdRightIfFits /\ TypeOK /\ Reading
  BY <1>1 DEF IInv, Reading, Results, Computed
<1>3. Computed /\ Computed'
  BY <1>1 DEF Computed
<1>4. AverageRight'
  BY <1>1, <1>2, <1>3, RangesKept DEF AverageRight
<1>5. StdRightIfFits'
  BY <1>1, <1>2, <1>3, RangesKept DEF StdRightIfFits, StdRight
<1>6. SignalKept'
  <2> DEFINE S == Total(seen)
  <2>1. /\ out_avg \in Word /\ out_avg \in Nat /\ out_std \in Nat /\ v \in Nat /\ v <= Size - 1
        /\ Alpha \in Nat /\ Beta \in Nat /\ pages \in Nat \ {0} /\ S \in Int
    BY <1>2, SumTypes, PixelAssumption, SizePositive DEF TypeOK, Word, Size
  <2>2. Lld = Threshold /\ Lld \in Nat /\ Threshold' = Threshold
    BY <1>1, <1>2, <2>1 DEF Lld, Threshold
  <2>3. (SumFits' <=> SumFits) /\ Signal' = v * pages - S
    BY <1>1, RangesKept DEF Signal
  <2> SUFFICES ASSUME SumFits, v * pages - S >= (Lld + 1) * pages
               PROVE  res' * pages - (v * pages - S) \in (1 - pages)..(pages - 1)
    BY <1>1, <2>2, <2>3 DEF SignalKept
  <2>4. out_avg * pages - S \in (1 - pages)..(pages - 1)
    BY <1>2, <1>3 DEF AverageRight
  <2> HIDE DEF S
  <2>5. /\ v - out_avg >= Lld
        /\ (v - out_avg) * pages - (v * pages - S) \in (1 - pages)..(pages - 1)
    BY <2>1, <2>2, <2>4, SignalBounds
  <2>6. v - out_avg \in Word
    BY <2>1, <2>2, <2>5, SizePositive DEF Word, Size
  <2>7. PICK k \in {0, 1} : avg = out_avg - Size * k
    BY <1>2, <2>1, SignedOfWord
  <2>8. v - avg = (v - out_avg) + Size * k /\ Size * k >= 0
    BY <2>1, <2>7, SizePositive
  <2>9. Unsigned(v - avg) = v - out_avg
    BY <2>1, <2>6, <2>8, UnsignedWrap, UnsignedFits
  <2>10. res' = v - out_avg
    <3>1. v - out_avg \in Int /\ Size * k \in Int
      BY <2>1, <2>7, SizePositive
    <3>2. v - avg >= Lld
      BY <2>2, <2>5, <2>8, <3>1
    <3> QED BY <1>1, <2>9, <3>2
  <2> QED BY <2>5, <2>10
<1> QED BY <1>1, <1>2, <1>4, <1>5, <1>6 DEF Results, Reading, Accumulated

LEMMA InvNext ==
  ASSUME IInv, [Next]_vars
  PROVE  IInv'
<1>1. TypeOK /\ TypeOK' /\ Reading /\ Sums /\ Accumulated /\ Results
  BY TypeNext DEF IInv
<1>2. ASSUME NEW v \in Pixels, AvgOp1(v) \/ AvgOp2(v) \/ RmsOp(v) PROVE IInv'
  <2>1. NextPage(v)
    BY <1>2 DEF AvgOp1, AvgOp2, RmsOp
  <2>2. Sums' /\ Accumulated'
    BY <1>1, <1>2, AccumulatedNextPage
  <2>3. Len(seen') = Len(seen) + 1 /\ Len(seen) \in Nat /\ pages \in Nat
    BY <1>1, <2>1, SequenceTypes, PixelAssumption DEF NextPage, TypeOK
  <2>4. Reading'
    BY <2>1, <2>3 DEF Reading, NextPage
  <2>5. pc' \in {"dark", "syn"}
    BY <2>1 DEF NextPage
  <2>6. Results'
    BY <2>5 DEF Results, Computed, AverageRight, StdRightIfFits, SignalKept
  <2> QED BY <1>1, <2>2, <2>4, <2>6 DEF IInv
<1>3. ASSUME NEW v \in Pixels, SubOp(v) PROVE IInv'
  <2>1. UNCHANGED <<seen, dk0, pages>>
    BY <1>3 DEF SubOp
  <2> QED BY <1>1, <1>3, <2>1, SubOpStep, SumsUnchanged DEF IInv
<1>4. CASE AvgSyn1
  <2>1. UNCHANGED <<seen, dk0, pages>>
    BY <1>4 DEF AvgSyn1
  <2> QED BY <1>1, <1>4, <2>1, AvgSyn1Step, SumsUnchanged DEF IInv
<1>5. CASE AvgSyn2
  <2>1. UNCHANGED <<seen, dk0, pages>>
    BY <1>5 DEF AvgSyn2
  <2> QED BY <1>1, <1>5, <2>1, AvgSyn2Step, SumsUnchanged DEF IInv
<1>6. CASE ImageSyn
  <2>1. UNCHANGED <<seen, dk0, pages>>
    BY <1>6 DEF ImageSyn
  <2> QED BY <1>1, <1>6, <2>1, ImageSynStep, SumsUnchanged DEF IInv
<1>7. CASE DivideByZero
  <2>1. UNCHANGED <<seen, dk0, pages>> /\ pc = "syn" /\ pc' = "killed"
    BY <1>7 DEF DivideByZero
  <2>2. Results' /\ Accumulated'
    BY <2>1 DEF Results, Computed, AverageRight, StdRightIfFits, SignalKept, Accumulated
  <2>3. Reading'
    BY <1>1, <1>7 DEF Reading, DivideByZero
  <2> QED BY <1>1, <2>1, <2>2, <2>3, SumsUnchanged DEF IInv
<1>8. CASE UNCHANGED vars
  <2>1. UNCHANGED <<seen, dk0, pages, method, pc, avg, rms, out_avg, out_std, data, res>>
    BY <1>8 DEF vars
  <2>2. Sums' /\ Reading'
    BY <1>1, <2>1, SumsUnchanged DEF Reading
  <2>3. Accumulated'
    BY <1>1, <2>1, SumsKept DEF Accumulated
  <2>4. AverageRight' /\ StdRightIfFits'
    BY <1>1, <2>1, RangesKept
       DEF Results, AverageRight, StdRightIfFits, StdRight, Computed
  <2>5. SignalKept'
    BY <1>1, <2>1, RangesKept DEF Results, SignalKept, Signal, Threshold
  <2>6. Results'
    BY <1>1, <2>1, <2>4, <2>5 DEF Results, Computed
  <2> QED BY <1>1, <2>2, <2>3, <2>6 DEF IInv
<1> QED BY <1>2, <1>3, <1>4, <1>5, <1>6, <1>7, <1>8 DEF Next

\* In every state the buffers hold what IInv says of them: the wrapped sums of the
\* pages read so far, and after image_syn the results computed from them.
THEOREM InvCorrect == Spec => []IInv
<1>1. Init => IInv
  BY InvInit
<1>2. IInv /\ [Next]_vars => IInv'
  BY InvNext
<1> QED BY <1>1, <1>2, PTL DEF Spec

\* In words of any width, for any number of pages: the average that is written
\* is less than 1 from the mean (avg_1: at most half a unit per page), however
\* often the sum wrapped while the pages were added, if in the end it fits.
THEOREM AverageIsMean == Spec => []AverageRight
<1>1. IInv => AverageRight
  BY DEF IInv, Results
<1> QED BY <1>1, InvCorrect, PTL

\* The standard deviation that is written is that of the pages, rounded down up
\* to what two truncating divisions lose, if both sums fit.
THEOREM DeviationIsStd == Spec => []StdRightIfFits
<1>1. IInv => StdRightIfFits
  BY DEF IInv, Results
<1> QED BY <1>1, InvCorrect, PTL

\* From the dark pages to the result, for any alpha and beta: a signal beyond the
\* threshold is neither cut off nor distorted by more than the average's rounding.
THEOREM SignalIsKept == Spec => []SignalKept
<1>1. IInv => SignalKept
  BY DEF IInv, Results
<1> QED BY <1>1, InvCorrect, PTL

-----------------------------------------------------------------------------
(***************************************************************************)
(* When the sums fit.                                                      *)
(***************************************************************************)

\* No partial sum is larger than its number of pages allows.
Bounded ==
  \A d \in Nat : NoiseWithin(d) =>
    /\ Total(Diffs) \in -(Len(seen) * d)..(Len(seen) * d)
    /\ Total(DiffSquares) <= Len(seen) * (d * d)

LEMMA SquareBound ==
  ASSUME NEW d \in Nat, NEW x \in -d..d
  PROVE  x * x \in Nat /\ x * x <= d * d
<1>1. CASE x >= 0
  <2>1. x * x <= x * d /\ x * d <= d * d
    BY <1>1
  <2> QED BY <1>1, <2>1
<1>2. CASE x <= 0
  <2>1. (-x) * (-x) <= (-x) * d /\ (-x) * d <= d * d /\ (-x) * (-x) = x * x
    BY <1>2
  <2> QED BY <1>2, <2>1
<1> QED BY <1>1, <1>2

LEMMA BoundedInit == Init => Bounded
<1> SUFFICES ASSUME Init, NEW d \in Nat
             PROVE  /\ Total(Diffs) \in -(Len(seen) * d)..(Len(seen) * d)
                    /\ Total(DiffSquares) <= Len(seen) * (d * d)
  BY DEF Bounded
<1>1. seen = <<>> /\ Diffs = <<>> /\ DiffSquares = <<>>
  BY DEF Init, Diffs, DiffSquares
<1>2. Total(Diffs) = 0 /\ Total(DiffSquares) = 0 /\ Len(seen) = 0
  BY <1>1, TotalEmpty
<1>3. 0 * d = 0 /\ 0 * (d * d) = 0
  OBVIOUS
<1> QED BY <1>2, <1>3

LEMMA BoundedNextPage ==
  ASSUME IInv, TypeOK', Bounded, NEW v \in Pixels, NextPage(v), seen # <<>> => dk0' = dk0
  PROVE  Bounded'
<1> SUFFICES ASSUME NEW d \in Nat, NoiseWithin(d)'
             PROVE  /\ Total(Diffs') \in -(Len(seen') * d)..(Len(seen') * d)
                    /\ Total(DiffSquares') <= Len(seen') * (d * d)
  BY DEF Bounded
<1> DEFINE n == Len(seen)
           x == v - dk0'
           D == Total(Diffs)
           E == Total(DiffSquares)
<1>1. /\ seen' = Append(seen, v) /\ seen \in Seq(Int) /\ n \in Nat /\ v \in Int /\ dk0' \in Int
      /\ D \in Int /\ E \in Int
  BY SequenceTypes, SumTypes, PixelAssumption, SizePositive DEF IInv, TypeOK, Word, NextPage
<1>2. /\ DOMAIN seen' = 1..(n + 1) /\ seen'[n + 1] = v
      /\ DOMAIN seen = 1..n /\ \A i \in 1..n : seen'[i] = seen[i]
  BY <1>1
<1>3. x \in -d..d
  <2>1. n + 1 \in DOMAIN seen'
    BY <1>1, <1>2
  <2>2. \A i \in DOMAIN seen' : seen'[i] - dk0' \in -d..d
    BY DEF NoiseWithin
  <2> QED BY <1>2, <2>1, <2>2
<1>4. NoiseWithin(d)
  <2>1. n # 0 => dk0' = dk0
    BY <1>1
  <2>2. \A i \in 1..n : i \in 1..(n + 1) /\ dk0' = dk0
    BY <1>1, <2>1
  <2> QED BY <1>2, <2>2 DEF NoiseWithin
<1>5. /\ Len(seen') = n + 1 /\ Total(Diffs') = D + x /\ Total(DiffSquares') = E + x * x
  BY NextSums DEF IInv
<1>6. D \in -(n * d)..(n * d) /\ E <= n * (d * d)
  BY <1>4 DEF Bounded
<1>7. x * x \in Nat /\ x * x <= d * d
  BY <1>3, SquareBound
<1> HIDE DEF x, D, E, n
<1> DEFINE xx == x * x
           dd == d * d
           nd == n * d
           ndd == n * dd
<1>8. (n + 1) * d = nd + d /\ (n + 1) * dd = ndd + dd
  BY <1>1
<1>9. xx \in Nat /\ dd \in Int /\ nd \in Int /\ ndd \in Int
  BY <1>1, <1>7
<1>10. /\ D \in -nd..nd /\ E <= ndd /\ xx <= dd
  BY <1>6, <1>7
<1> HIDE DEF xx, dd, nd, ndd
<1>11. D + x \in -(nd + d)..(nd + d) /\ E + xx <= ndd + dd
  BY <1>1, <1>3, <1>9, <1>10
<1> QED BY <1>5, <1>8, <1>11 DEF xx, dd

LEMMA BoundedStep == IInv /\ IInv' /\ Bounded /\ [Next]_vars => Bounded'
<1> SUFFICES ASSUME IInv, IInv', Bounded, [Next]_vars PROVE Bounded'
  OBVIOUS
<1>1. ASSUME NEW v \in Pixels, AvgOp1(v) \/ AvgOp2(v) \/ RmsOp(v) PROVE Bounded'
  BY <1>1, BoundedNextPage DEF IInv, AvgOp1, AvgOp2, RmsOp
<1>2. CASE UNCHANGED <<seen, dk0, pages>>
  BY <1>2, SumsKept DEF Bounded, NoiseWithin
<1> QED BY <1>1, <1>2
    DEF Next, SubOp, AvgSyn1, AvgSyn2, ImageSyn, DivideByZero, vars

\* A quiet pixel overflows neither sum, for any width of words and number of pages:
\* its average and deviation are right without any assumption on the sums.
THEOREM QuietFits == Spec => []FitsIfQuiet
<1>1. ASSUME IInv, Bounded PROVE FitsIfQuiet
  <2> SUFFICES ASSUME NEW d \in Word, NoiseWithin(d)
               PROVE  /\ method # "avg_1" /\ pages * d < Half => SumFits
                      /\ pages * (d * d) < 2 * Half => SquaresFit
    BY DEF FitsIfQuiet
  <2> DEFINE n == Len(seen)
             dd == d * d
  <2>1. /\ d \in Nat /\ dd \in Nat /\ n \in Nat /\ pages \in Nat /\ n <= pages /\ Half \in Nat
        /\ Total(Diffs) \in Int /\ Total(DiffSquares) \in Int /\ Total(DiffSquares) >= 0
    BY <1>1, SequenceTypes, SumTypes, PixelAssumption, SizePositive DEF IInv, Sums, TypeOK, Word
  <2>2. Total(Diffs) \in -(n * d)..(n * d) /\ Total(DiffSquares) <= n * dd
    BY <1>1, <2>1 DEF Bounded
  <2> HIDE DEF n, dd
  <2>3. n * d <= pages * d /\ n * dd <= pages * dd /\ n * d \in Int /\ n * dd \in Int
    BY <2>1
  <2>4. pages * d < Half => Total(Diffs) \in -Half..(Half - 1)
    BY <2>1, <2>2, <2>3
  <2>5. pages * dd < 2 * Half => Total(DiffSquares) \in 0..(2 * Half - 1)
    BY <2>1, <2>2, <2>3
  <2> QED BY <2>4, <2>5 DEF SumFits, SquaresFit, SignedWord, Word, dd
<1> QED BY <1>1, InvCorrect, BoundedInit, BoundedStep, PTL DEF Spec
=============================================================================
