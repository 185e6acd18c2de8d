--------------------------- MODULE FormatsProofs ---------------------------
(* What the formatters of the browser kernel write, read back: for every   *)
(* number, duration and instant, by induction over the digits they write.  *)
EXTENDS FiniteSetTheorems, SequenceTheorems, KernelContract, TLAPS

-----------------------------------------------------------------------------
(* Induction and recursion over the naturals, with sets for predicates     *)

\* A set of naturals that is not empty has a least element: the intervals
\* below its elements are finite sets, and inclusion of finite sets is well
\* founded.
LEMMA LeastOf ==
  ASSUME NEW S \in SUBSET Nat, S # {}
  PROVE  \E m \in S : \A n \in S : m <= n
<1> DEFINE Below(n) == 0 .. n - 1
           T == {Below(n) : n \in S}
<1>1. IsWellFoundedOn(StrictSubsetOrdering(Nat), FiniteSubsetsOf(Nat))
  BY FS_StrictSubsetOrderingWellFounded
<1>2. \A n \in S : IsFiniteSet(Below(n)) /\ Below(n) \in SUBSET Nat
  BY FS_Interval
<1>3. T \subseteq FiniteSubsetsOf(Nat) /\ T # {}
  BY <1>2 DEF FiniteSubsetsOf
<1>4. PICK t \in T : \A u \in T : <<u, t>> \notin StrictSubsetOrdering(Nat)
  <2> HIDE DEF T
  <2> QED BY <1>1, <1>3, WFMin, Zenon
<1>5. PICK m \in S : t = Below(m)
  BY <1>4
<1>6. ASSUME NEW n \in S, n < m PROVE FALSE
  <2>1. Below(n) \in T /\ Below(n) \subseteq Below(m)
    BY <1>6
  <2>2. n \in Below(m) /\ n \notin Below(n)
    BY <1>6
  <2>3. <<Below(n), Below(m)>> \in StrictSubsetOrdering(Nat)
    BY <2>1, <2>2 DEF StrictSubsetOrdering
  <2> QED BY <2>1, <2>3, <1>4, <1>5
<1> QED BY <1>6

\* Induction: a set that holds zero and the successor of each of its elements
\* holds every natural.
LEMMA Induction ==
  ASSUME NEW S, 0 \in S, \A n \in Nat : n \in S => n + 1 \in S
  PROVE  Nat \subseteq S
<1> DEFINE T == Nat \ S
<1> SUFFICES ASSUME T # {} PROVE FALSE
  OBVIOUS
<1>1. PICK m \in T : \A n \in T : m <= n
  BY LeastOf
<1>2. m # 0 /\ m - 1 \in Nat /\ m - 1 \notin T
  BY <1>1
<1> QED BY <1>1, <1>2

\* Strong induction: a set that holds a natural whenever it holds all the
\* smaller ones holds every natural.
LEMMA StrongInduction ==
  ASSUME NEW S, \A n \in Nat : (\A m \in 0 .. n - 1 : m \in S) => n \in S
  PROVE  Nat \subseteq S
<1> DEFINE T == Nat \ S
<1> SUFFICES ASSUME T # {} PROVE FALSE
  OBVIOUS
<1>1. PICK m \in T : \A n \in T : m <= n
  BY LeastOf
<1>2. \A n \in 0 .. m - 1 : n \in S
  BY <1>1
<1> QED BY <1>1, <1>2

\* The first k + 1 values of a function defined by recursion: its value at
\* zero, and the next one from each argument and value.
Approximates(g, k, V, first, step) ==
  /\ g \in [0 .. k -> V]
  /\ g[0] = first
  /\ \A i \in 0 .. k - 1 : g[i + 1] = step[<<i, g[i]>>]

\* By induction, the first values of a recursion exist for every k.
LEMMA ApproximationsExist ==
  ASSUME NEW V, NEW first \in V, NEW step \in [Nat \X V -> V]
  PROVE  \A k \in Nat : \E g : Approximates(g, k, V, first, step)
<1> DEFINE S == {k \in Nat : \E g : Approximates(g, k, V, first, step)}
<1>1. 0 \in S
  <2>1. Approximates([i \in 0 .. 0 |-> first], 0, V, first, step)
    BY DEF Approximates
  <2> QED BY <2>1
<1>2. ASSUME NEW k \in Nat, k \in S PROVE k + 1 \in S
  <2>1. PICK g : Approximates(g, k, V, first, step)
    BY <1>2
  <2> DEFINE h == [i \in 0 .. k + 1 |-> IF i = k + 1 THEN step[<<k, g[k]>>] ELSE g[i]]
  <2>2. g[k] \in V /\ step[<<k, g[k]>>] \in V
    BY <2>1 DEF Approximates
  <2>3. \A i \in 0 .. k : h[i] = g[i] /\ h[i] \in V
    BY <2>1 DEF Approximates
  <2>4. h[k + 1] = step[<<k, g[k]>>]
    OBVIOUS
  <2>5. h \in [0 .. k + 1 -> V]
    BY <2>2, <2>1 DEF Approximates
  <2>6. h[0] = first
    BY <2>1, <2>3 DEF Approximates
  <2> HIDE DEF h
  <2>7. ASSUME NEW i \in 0 .. k PROVE h[i + 1] = step[<<i, h[i]>>]
    <3>1. CASE i = k
      BY <2>3, <2>4, <3>1
    <3>2. CASE i < k
      <4>1. i \in 0 .. k - 1 /\ i + 1 \in 0 .. k
        BY <3>2
      <4>2. g[i + 1] = step[<<i, g[i]>>]
        BY <2>1, <4>1 DEF Approximates
      <4> QED BY <2>3, <4>1, <4>2
    <3> QED BY <3>1, <3>2
  <2>8. Approximates(h, k + 1, V, first, step)
    BY <2>5, <2>6, <2>7 DEF Approximates
  <2> QED BY <2>8
<1> HIDE DEF S
<1>3. Nat \subseteq S
  BY <1>1, <1>2, Induction
<1> QED BY <1>3 DEF S

\* By induction, two of them agree as far as both go.
LEMMA ApproximationsAgree ==
  ASSUME NEW V, NEW first \in V, NEW step \in [Nat \X V -> V],
         NEW k \in Nat, NEW l \in Nat, k <= l, NEW g, NEW h,
         Approximates(g, k, V, first, step), Approximates(h, l, V, first, step)
  PROVE  \A i \in 0 .. k : g[i] = h[i]
<1> DEFINE S == {i \in Nat : i <= k => g[i] = h[i]}
<1>1. 0 \in S
  BY DEF Approximates
<1>2. ASSUME NEW i \in Nat, i \in S PROVE i + 1 \in S
  <2> SUFFICES ASSUME i + 1 <= k PROVE g[i + 1] = h[i + 1]
    OBVIOUS
  <2>1. g[i] = h[i] /\ i \in 0 .. k - 1 /\ i \in 0 .. l - 1
    BY <1>2
  <2>2. g[i + 1] = step[<<i, g[i]>>] /\ h[i + 1] = step[<<i, h[i]>>]
    BY <2>1 DEF Approximates
  <2> QED BY <2>1, <2>2
<1> HIDE DEF S
<1>3. Nat \subseteq S
  BY <1>1, <1>2, Induction
<1> QED BY <1>3 DEF S

\* A function on the naturals that is defined by recursion.
Recurs(f, V, first, step) ==
  /\ f \in [Nat -> V]
  /\ f[0] = first
  /\ \A n \in Nat : f[n + 1] = step[<<n, f[n]>>]

\* A definition by recursion has a solution.
LEMMA Recursion ==
  ASSUME NEW V, NEW first, NEW step, first \in V, step \in [Nat \X V -> V]
  PROVE  \E f : Recurs(f, V, first, step)
<1> DEFINE G(k) == CHOOSE g : Approximates(g, k, V, first, step)
           f == [n \in Nat |-> G(n)[n]]
<1>1. \A k \in Nat : Approximates(G(k), k, V, first, step)
  BY ApproximationsExist, Zenon
<1>2. f \in [Nat -> V] /\ f[0] = first
  <2> HIDE DEF G
  <2>1. \A k \in Nat : G(k)[k] \in V
    BY <1>1 DEF Approximates
  <2> QED BY <1>1, <2>1 DEF Approximates
<1>3. ASSUME NEW n \in Nat PROVE f[n + 1] = step[<<n, f[n]>>]
  <2> HIDE DEF G
  <2>1. Approximates(G(n), n, V, first, step) /\ Approximates(G(n + 1), n + 1, V, first, step)
    BY <1>1
  <2>2. G(n)[n] = G(n + 1)[n]
    BY <2>1, ApproximationsAgree
  <2>3. G(n + 1)[n + 1] = step[<<n, G(n + 1)[n]>>]
    BY <2>1 DEF Approximates
  <2> QED BY <2>2, <2>3
<1> HIDE DEF f
<1>4. Recurs(f, V, first, step)
  BY <1>2, <1>3 DEF Recurs
<1> QED BY <1>4

-----------------------------------------------------------------------------
(* Rounding                                                                *)

\* Division with remainder, as the solver needs it beside products.
LEMMA DivMod ==
  ASSUME NEW x \in Nat, NEW y \in Nat \ {0}
  PROVE  /\ x \div y \in Nat /\ x % y \in 0 .. y - 1
         /\ x = y * (x \div y) + (x % y)
  OBVIOUS

\* A number of units no further than half a unit from a magnitude.
NearestAbove(text, num, den, scale) ==
  LET twice == 2 * (text * den - num * scale)
  IN  text \in Nat /\ -den < twice /\ twice <= den

\* toFixed is the nearest number of units, and a tie is left above.
LEMMA ToFixedIsNearest ==
  ASSUME NEW num \in Nat, NEW den \in Nat \ {0}, NEW scale \in {1, 100}
  PROVE  NearestAbove(ToFixed(num, den, scale), num, den, scale)
<1> DEFINE x == 2 * num * scale + den
           y == 2 * den
           q == x \div y
<1>1. x \in Nat /\ y \in Nat \ {0}
  OBVIOUS
<1>2. q \in Nat /\ x % y \in 0 .. y - 1 /\ x = y * q + (x % y)
  BY <1>1, DivMod
<1> HIDE DEF q
<1>3. y * q = 2 * (q * den)
  BY <1>2
<1>4. q * den \in Nat
  BY <1>2
<1>5. PICK p \in Nat : p = q * den
  BY <1>4
<1>6. PICK r \in 0 .. y - 1 : 2 * num * scale + den = 2 * p + r
  BY <1>2, <1>3, <1>5
<1>7. 2 * (p - num * scale) = den - r
  BY <1>6
<1> QED
  BY <1>2, <1>5, <1>6, <1>7 DEF ToFixed, NearestAbove, q

\* The test on the remainder, as a multiple.
LEMMA OddMultiple ==
  ASSUME NEW n \in Nat, NEW den \in Nat \ {0}
  PROVE  IsOdd(n, den) <=> \E k \in Nat : n = k * den /\ k % 2 = 1
<1>1. ASSUME IsOdd(n, den)
      PROVE  \E k \in Nat : n = k * den /\ k % 2 = 1
  <2> DEFINE q == n \div den
  <2>1. q \in Nat /\ n = den * q + (n % den)
    BY DivMod
  <2>2. n % den = 0 /\ q % 2 = 1
    BY <1>1 DEF IsOdd
  <2> HIDE DEF q
  <2>3. n = q * den
    BY <2>1, <2>2
  <2> QED
    BY <2>1, <2>2, <2>3
<1>2. ASSUME NEW k \in Nat, n = k * den, k % 2 = 1
      PROVE  IsOdd(n, den)
  <2> DEFINE q == n \div den
             r == n % den
  <2>1. q \in Nat /\ r \in 0 .. den - 1 /\ n = den * q + r
    BY DivMod
  <2> HIDE DEF q, r
  <2>2. (k - q) * den = r
    BY <1>2, <2>1
  <2>3. k = q
    <3>1. CASE k > q
      <4>1. (k - q) * den >= den
        BY <2>1, <3>1
      <4> QED
        BY <2>1, <2>2, <4>1
    <3>2. CASE k < q
      <4>1. (k - q) * den <= -den
        BY <2>1, <3>2
      <4> QED
        BY <2>1, <2>2, <4>1
    <3> QED
      BY <2>1, <3>1, <3>2
  <2>4. r = 0
    BY <2>1, <2>2, <2>3
  <2> QED
    BY <1>2, <2>3, <2>4 DEF IsOdd, q, r
<1> QED
  BY <1>1, <1>2

\* den has no factor 5, as no power of two has: 25 * a + den * b = 1 for
\* some a and b.
NoFive(den) == \E a, b \in Int : 25 * a + den * b = 1

\* A sum of multiples of den strictly within den on either side of zero.
LEMMA SmallMultiple ==
  ASSUME NEW den \in Nat \ {0}, NEW i \in Int, -den < i * den, i * den <= den
  PROVE  i \in {0, 1}
<1>1. CASE i >= 2
  <2>1. i * den >= 2 * den
    BY <1>1
  <2> QED
    BY <2>1
<1>2. CASE i <= -1
  <2>1. i * den <= -den
    BY <1>2
  <2> QED
    BY <2>1
<1> QED
  BY <1>1, <1>2

\* The kernel's test of the binary scale finds the exact ties of an integer.
LEMMA TieOfInteger ==
  ASSUME NEW num \in Nat, NEW den \in Nat \ {0},
         NEW text \in Nat, -den < 2 * (text * den - num),
         2 * (text * den - num) <= den
  PROVE  IsOdd(num * 2, den) <=> 2 * (text * den - num) = den
<1> DEFINE twice == 2 * (text * den - num)
<1>1. ASSUME IsOdd(num * 2, den)  PROVE twice = den
  <2>1. PICK k \in Nat : num * 2 = k * den /\ k % 2 = 1
    BY <1>1, OddMultiple
  <2>2. twice = (2 * text - k) * den
    BY <2>1
  <2>3. 2 * text - k \in {0, 1}
    BY <2>2, SmallMultiple
  <2>4. 2 * text - k = 1
    BY <2>1, <2>3
  <2> QED
    BY <2>2, <2>4
<1>2. ASSUME twice = den  PROVE IsOdd(num * 2, den)
  <2> DEFINE k == 2 * text - 1
  <2>1. num * 2 = k * den
    BY <1>2
  <2>2. text # 0
    BY <1>2
  <2>3. k \in Nat /\ k % 2 = 1
    BY <2>2
  <2>4. num * 2 \in Nat
    OBVIOUS
  <2> HIDE DEF k
  <2> QED
    BY <2>1, <2>3, <2>4, OddMultiple
<1> QED
  BY <1>1, <1>2

\* The same of a decimal; here it matters that den has no factor 5.
LEMMA TieOfDecimal ==
  ASSUME NEW num \in Nat, NEW den \in Nat \ {0}, NoFive(den),
         NEW text \in Nat, -den < 2 * (text * den - num * 100),
         2 * (text * den - num * 100) <= den
  PROVE  IsOdd(num * 8, den) <=> 2 * (text * den - num * 100) = den
<1> DEFINE twice == 2 * (text * den - num * 100)
<1>1. ASSUME IsOdd(num * 8, den)  PROVE twice = den
  <2>1. PICK k \in Nat : num * 8 = k * den /\ k % 2 = 1
    BY <1>1, OddMultiple
  <2>2. num * 200 = 25 * (k * den)
    BY <2>1
  <2>3. twice = (2 * text - 25 * k) * den
    BY <2>2
  <2>4. 2 * text - 25 * k \in {0, 1}
    BY <2>3, SmallMultiple
  <2>5. 2 * text - 25 * k = 1
    BY <2>1, <2>4
  <2> QED
    BY <2>3, <2>5
<1>2. ASSUME twice = den  PROVE IsOdd(num * 8, den)
  <2> DEFINE i == 2 * text - 1
  <2>1. PICK a \in Int, b \in Int : 25 * a + den * b = 1
    BY DEF NoFive
  <2>2. 25 * (num * 8) = i * den
    BY <1>2
  <2>3. PICK k \in Int : k = a * i + (num * 8) * b
    OBVIOUS
  <2>4. num * 8 = k * den
    <3>1. num * 8 = (num * 8) * (25 * a + den * b)
      BY <2>1
    <3>2. (num * 8) * (25 * a + den * b)
            = a * (25 * (num * 8)) + ((num * 8) * b) * den
      OBVIOUS
    <3>3. a * (i * den) + ((num * 8) * b) * den = k * den
      BY <2>3
    <3> QED
      BY <2>2, <3>1, <3>2, <3>3
  <2>5. (25 * k - i) * den = 0
    BY <2>2, <2>4
  <2>6. 25 * k = i
    BY <2>5
  <2>7. k % 2 = 1 /\ k >= 0
    BY <2>6
  <2> QED
    BY <2>4, <2>7, OddMultiple
<1> QED
  BY <1>1, <1>2

\* formatNumber rounds half to even, for every magnitude, at both places.
THEOREM RoundsHalfEven ==
  ASSUME NEW num \in Nat, NEW den \in Nat \ {0}, NoFive(den),
         NEW p \in Places
  PROVE  IsHalfEven(Rounded(num, den, p.scale, p.binary), num, den, p.scale)
<1> DEFINE text  == ToFixed(num, den, p.scale)
           twice == 2 * (text * den - num * p.scale)
<1>1. p.scale \in {1, 100}
  BY DEF Places
<1>2. text \in Nat /\ -den < twice /\ twice <= den
  <2>1. NearestAbove(text, num, den, p.scale)
    BY <1>1, ToFixedIsNearest
  <2> QED
    BY <2>1 DEF NearestAbove
<1>3. IsOdd(num * p.binary, den) <=> twice = den
  <2>1. CASE p.scale = 1
    <3>1. p.binary = 2
      BY <2>1 DEF Places
    <3>2. num * 1 = num
      OBVIOUS
    <3> HIDE DEF text
    <3> QED
      BY <1>2, <2>1, <3>1, <3>2, TieOfInteger
  <2>2. CASE p.scale = 100
    <3>1. p.binary = 8
      BY <2>2 DEF Places
    <3> HIDE DEF text
    <3> QED
      BY <1>2, <2>2, <3>1, TieOfDecimal
  <2> QED
    BY <1>1, <2>1, <2>2
<1> HIDE DEF text
<1>4. (text % 10) % 2 = text % 2
  BY <1>2
<1>5. CASE twice = den
  <2>1. CASE text % 2 = 1
    <3>1. Rounded(num, den, p.scale, p.binary) = text - 1
      BY <1>3, <1>4, <1>5, <2>1 DEF Rounded, text
    <3>2. (text - 1) * den = text * den - den
      BY <1>2
    <3>3. 2 * ((text - 1) * den - num * p.scale) = -den
      BY <1>1, <1>2, <1>5, <3>2
    <3>4. (text - 1) % 2 = 0
      BY <1>2, <2>1
    <3> QED
      BY <3>1, <3>3, <3>4 DEF IsHalfEven
  <2>2. CASE text % 2 = 0
    <3>1. Rounded(num, den, p.scale, p.binary) = text
      BY <1>4, <2>2 DEF Rounded, text
    <3> QED
      BY <1>5, <2>2, <3>1 DEF IsHalfEven
  <2> QED
    BY <1>2, <2>1, <2>2
<1>6. CASE twice # den
  <2>1. Rounded(num, den, p.scale, p.binary) = text
    BY <1>3, <1>6 DEF Rounded, text
  <2>2. twice \in -den .. den /\ twice # -den
    BY <1>1, <1>2
  <2> QED
    BY <1>6, <2>1, <2>2 DEF IsHalfEven
<1> QED
  BY <1>5, <1>6

\* What the kernel rounds a magnitude to is a natural: the correction lowers
\* odd digits only, so never zero.
LEMMA RoundedNat ==
  ASSUME NEW num \in Nat, NEW den \in Nat \ {0}, NEW p \in Places
  PROVE  Rounded(num, den, p.scale, p.binary) \in Nat
<1> DEFINE text == ToFixed(num, den, p.scale)
<1>1. p.scale \in {1, 100}
  BY DEF Places
<1>2. text \in Nat
  BY <1>1, ToFixedIsNearest DEF NearestAbove
<1>3. Rounded(num, den, p.scale, p.binary) =
        IF IsOdd(num * p.binary, den) /\ (text % 10) % 2 = 1 THEN text - 1 ELSE text
  BY Zenon DEF Rounded
<1> HIDE DEF text
<1>4. (text % 10) % 2 = 1 => text - 1 \in Nat
  BY <1>2
<1> QED BY <1>2, <1>3, <1>4

\* What is no multiple of five has an inverse modulo 25.
LEMMA Inverses ==
  \A r \in 1 .. 24 : r % 5 # 0 => \E b \in 1 .. 24, c \in 0 .. 24 : r * b = 1 + 25 * c
  OBVIOUS

\* A denominator without the factor five is prime to 25, as RoundsHalfEven
\* needs it.
LEMMA DivideByTwentyFive ==
  ASSUME NEW den \in Nat \ {0}, den % 5 # 0
  PROVE  NoFive(den)
<1>1. PICK q \in Nat, r \in 0 .. 24 : den = 25 * q + r
  <2>1. den = 25 * (den \div 25) + (den % 25) /\ den \div 25 \in Nat /\ den % 25 \in 0 .. 24
    OBVIOUS
  <2> QED BY <2>1
<1>2. r % 5 # 0
  <2>1. (25 * q + r) % 5 = r % 5
    OBVIOUS
  <2> QED BY <1>1, <2>1
<1>3. r \in 1 .. 24
  BY <1>2
<1>4. PICK b \in 1 .. 24, c \in 0 .. 24 : r * b = 1 + 25 * c
  BY <1>2, <1>3, Inverses
<1>5. den * b = 25 * (q * b) + r * b
  BY <1>1
<1>6. PICK k \in Nat : k = q * b
  OBVIOUS
<1>7. PICK a \in Int : a = -(k + c)
  OBVIOUS
<1>8. 25 * a + den * b = 1 /\ b \in Int
  BY <1>4, <1>5, <1>6, <1>7
<1> QED BY <1>7, <1>8, Zenon DEF NoFive

-----------------------------------------------------------------------------
(* Digits, and the number they make                                        *)

\* The ten digits, one by one.
LEMMA DigitTable ==
  /\ Digit(0) = "0" /\ Digit(1) = "1" /\ Digit(2) = "2" /\ Digit(3) = "3"
  /\ Digit(4) = "4" /\ Digit(5) = "5" /\ Digit(6) = "6" /\ Digit(7) = "7"
  /\ Digit(8) = "8" /\ Digit(9) = "9"
BY DEF Digit

\* The body of Digits, as an operator of the function it calls.
Longer(h, n) ==
  IF n < 10 THEN <<Digit(n % 10)>> ELSE h[n \div 10] \o <<Digit(n % 10)>>

\* The recursion of Digits has a solution: Recursion builds the tables of the
\* first digits, and each entry is final once it is reached.
LEMMA DigitsExist == \E f : f = [n \in Nat |-> Longer(f, n)]
<1> DEFINE T == Seq(DigitSymbols)
           V == [Nat -> T]
           first == [n \in Nat |-> <<>>]
           step == [p \in Nat \X V |-> [p[2] EXCEPT ![p[1]] = Longer(p[2], p[1])]]
<1>1. first \in V
  OBVIOUS
<1>2. ASSUME NEW h \in V, NEW n \in Nat PROVE Longer(h, n) \in T
  <2>1. n % 10 \in 0 .. 9 /\ n \div 10 \in Nat
    OBVIOUS
  <2>2. Digit(n % 10) \in DigitSymbols
    BY <2>1 DEF DigitSymbols
  <2>3. <<Digit(n % 10)>> \in T
    BY <2>2
  <2>4. h[n \div 10] \in T
    BY <2>1
  <2>5. h[n \div 10] \o <<Digit(n % 10)>> \in T
    BY <2>3, <2>4
  <2> QED BY <2>3, <2>5 DEF Longer
<1>3. step \in [Nat \X V -> V]
  BY <1>2
<1> HIDE DEF V
<1> HIDE DEF first, step
<1>4. PICK F : Recurs(F, V, first, step)
  BY <1>1, <1>3, Recursion, Zenon
<1>5. \A n \in Nat : F[n + 1] = [F[n] EXCEPT ![n] = Longer(F[n], n)]
  BY <1>4 DEF step, Recurs
<1>6. \A n \in Nat : /\ F[n + 1][n] = Longer(F[n], n)
                     /\ \A m \in Nat : m # n => F[n + 1][m] = F[n][m]
  <2> TAKE n \in Nat
  <2>1. F[n] \in V
    BY <1>4 DEF Recurs
  <2>2. DOMAIN F[n] = Nat
    BY <2>1 DEF V
  <2> QED BY <1>5, <2>2
<1>7. \A k \in Nat : \A n \in 0 .. k - 1 : F[k][n] = F[n + 1][n]
  <2> DEFINE S == {k \in Nat : \A n \in 0 .. k - 1 : F[k][n] = F[n + 1][n]}
  <2>1. 0 \in S
    OBVIOUS
  <2>2. ASSUME NEW k \in Nat, k \in S PROVE k + 1 \in S
    <3>1. ASSUME NEW n \in 0 .. k PROVE F[k + 1][n] = F[n + 1][n]
      BY <1>6, <2>2
    <3> QED BY <3>1
  <2> HIDE DEF S
  <2>3. Nat \subseteq S
    BY <2>1, <2>2, Induction
  <2> QED BY <2>3 DEF S
<1> DEFINE f == [n \in Nat |-> F[n + 1][n]]
<1>8. ASSUME NEW n \in Nat PROVE f[n] = Longer(f, n)
  <2>1. n >= 10 => n \div 10 \in 0 .. n - 1
    OBVIOUS
  <2>2. n >= 10 => F[n][n \div 10] = f[n \div 10]
    BY <1>7, <2>1
  <2>3. f[n] = Longer(F[n], n)
    BY <1>6
  <2> QED BY <2>2, <2>3 DEF Longer
<1>9. f = [n \in Nat |-> Longer(f, n)]
  <2>1. f = [n \in Nat |-> f[n]]
    OBVIOUS
  <2> HIDE DEF f
  <2> QED BY <2>1, <1>8
<1> QED BY <1>9

\* So Digits is a function that satisfies its definition.
LEMMA DigitsAre == \A n \in Nat : Digits[n] = Longer(Digits, n)
<1>1. Digits = CHOOSE f : f = [n \in Nat |-> Longer(f, n)]
  BY DEF Digits, Longer
<1>2. Digits = [n \in Nat |-> Longer(Digits, n)]
  BY <1>1, DigitsExist, Zenon
<1> QED
  BY <1>2, Zenon

\* The digits of a number are digits, and it has at least one.
LEMMA DigitsType == \A n \in Nat : Digits[n] \in Seq(DigitSymbols) /\ Len(Digits[n]) > 0
<1> DEFINE Good(n) == Digits[n] \in Seq(DigitSymbols) /\ Len(Digits[n]) > 0
           S == {n \in Nat : Good(n)}
<1>1. ASSUME NEW n \in Nat, \A m \in 0 .. n - 1 : m \in S PROVE n \in S
  <2> DEFINE last == <<Digit(n % 10)>>
  <2>1. n % 10 \in 0 .. 9
    OBVIOUS
  <2>2. Digit(n % 10) \in DigitSymbols
    BY <2>1 DEF DigitSymbols
  <2>3. last \in Seq(DigitSymbols)
    BY <2>2
  <2>4. Len(last) = 1
    OBVIOUS
  <2>5. Digits[n] = Longer(Digits, n)
    BY DigitsAre
  <2>6. CASE n < 10
    <3>1. Digits[n] = last
      BY <2>5, <2>6 DEF Longer
    <3> HIDE DEF last
    <3> QED
      BY <2>3, <2>4, <3>1
  <2>7. CASE n >= 10
    <3>1. n \div 10 \in 0 .. n - 1
      BY <2>7
    <3>2. Digits[n] = Digits[n \div 10] \o last
      BY <2>5, <2>7 DEF Longer
    <3>3. Good(n \div 10)
      BY <1>1, <3>1
    <3> HIDE DEF last
    <3>4. ASSUME NEW s \in Seq(DigitSymbols), Len(s) > 0
          PROVE  s \o last \in Seq(DigitSymbols) /\ Len(s \o last) > 0
      BY <2>3, <2>4
    <3> QED BY <3>2, <3>3, <3>4
  <2> QED BY <2>6, <2>7
<1> HIDE DEF S
<1>2. Nat \subseteq S
  BY <1>1, StrongInduction
<1> QED BY <1>2 DEF S

\* Each symbol of the table is the digit of one value.
LEMMA DigitsDiffer == \A c, d \in 0 .. 9 : Digit(c) = Digit(d) => c = d
<1> TAKE c, d \in 0 .. 9
<1> USE DigitTable
<1> QED OBVIOUS

\* Reading a digit gives the value it was written for.
LEMMA ValueOfDigit ==
  ASSUME NEW d \in 0 .. 9
  PROVE  IsDigit(Digit(d)) /\ DigitValue(Digit(d)) = d
<1>1. IsDigit(Digit(d))
  BY DEF IsDigit
<1>2. \A c \in 0 .. 9 : Digit(c) = Digit(d) => c = d
  BY DigitsDiffer
<1> QED
  BY <1>1, <1>2 DEF DigitValue

\* Every digit has a value below ten.
LEMMA DigitsHaveValues == \A symbol : IsDigit(symbol) => DigitValue(symbol) \in 0 .. 9
  BY DEF IsDigit, DigitValue

\* The body of NumberIn, as an operator of the function it calls.
ReadOne(text, r, i) ==
  IF i = 0 THEN 0
  ELSE IF IsDigit(text[i]) THEN 10 * r[i - 1] + DigitValue(text[i])
  ELSE r[i - 1]

\* A function that reads a text as NumberIn does.
Reads(r, text) == r = [i \in 0 .. Len(text) |-> ReadOne(text, r, i)]

\* Every text can be read.
LEMMA ReadingExists ==
  ASSUME NEW text, Len(text) \in Nat
  PROVE  \E r : Reads(r, text) /\ r \in [0 .. Len(text) -> Nat]
<1> DEFINE Step(i, n) == IF IsDigit(text[i + 1]) THEN 10 * n + DigitValue(text[i + 1]) ELSE n
           step == [p \in Nat \X Nat |-> Step(p[1], p[2])]
<1>1. \A i \in Nat, n \in Nat : Step(i, n) \in Nat
  BY DigitsHaveValues
<1> HIDE DEF Step
<1>2. step \in [Nat \X Nat -> Nat]
  BY <1>1
<1>3. \A i \in Nat, n \in Nat : step[<<i, n>>] = Step(i, n)
  OBVIOUS
<1> HIDE DEF step
<1>4. PICK F : Recurs(F, Nat, 0, step)
  BY <1>2, Recursion, Zenon
<1> DEFINE r == [i \in 0 .. Len(text) |-> F[i]]
<1>5. F \in [Nat -> Nat] /\ F[0] = 0 /\ \A i \in Nat : F[i + 1] = Step(i, F[i])
  BY <1>3, <1>4 DEF Recurs
<1>6. ASSUME NEW i \in 0 .. Len(text) PROVE r[i] = ReadOne(text, r, i)
  <2>1. CASE i = 0
    BY <1>5, <2>1 DEF ReadOne
  <2>2. CASE i > 0
    <3>1. i - 1 \in Nat /\ i - 1 \in 0 .. Len(text) /\ (i - 1) + 1 = i
      BY <2>2
    <3>2. F[i] = Step(i - 1, F[i - 1])
      BY <1>5, <3>1
    <3>3. Step(i - 1, F[i - 1]) = IF IsDigit(text[i]) THEN 10 * F[i - 1] + DigitValue(text[i]) ELSE F[i - 1]
      BY <3>1 DEF Step
    <3> QED BY <2>2, <3>1, <3>2, <3>3 DEF ReadOne
  <2> QED BY <2>1, <2>2
<1>7. r = [i \in 0 .. Len(text) |-> r[i]]
  OBVIOUS
<1>8. r \in [0 .. Len(text) -> Nat]
  BY <1>5
<1> HIDE DEF r
<1>9. Reads(r, text)
  BY <1>6, <1>7 DEF Reads
<1> QED BY <1>8, <1>9

\* Texts that agree on their first k symbols read the same so far.
LEMMA ReadingsAgree ==
  ASSUME NEW s, NEW t, NEW k \in Nat, Len(s) \in Nat, Len(t) \in Nat, k <= Len(s), k <= Len(t),
         \A i \in 1 .. k : s[i] = t[i],
         NEW q, NEW r, Reads(q, s), Reads(r, t)
  PROVE  q[k] = r[k]
<1> DEFINE S == {i \in Nat : i <= k => q[i] = r[i]}
<1>1. /\ \A i \in 0 .. Len(s) : q[i] = ReadOne(s, q, i)
      /\ \A i \in 0 .. Len(t) : r[i] = ReadOne(t, r, i)
  BY Zenon DEF Reads
<1>2. 0 \in S
  BY <1>1 DEF ReadOne
<1>3. ASSUME NEW i \in Nat, i \in S PROVE i + 1 \in S
  <2> SUFFICES ASSUME i + 1 <= k PROVE q[i + 1] = r[i + 1]
    OBVIOUS
  <2>1. q[i] = r[i] /\ s[i + 1] = t[i + 1] /\ i + 1 \in 0 .. Len(s) /\ i + 1 \in 0 .. Len(t)
    BY <1>3
  <2>2. q[i + 1] = ReadOne(s, q, i + 1) /\ r[i + 1] = ReadOne(t, r, i + 1)
    BY <1>1, <2>1
  <2>3. (i + 1) - 1 = i /\ i + 1 # 0
    OBVIOUS
  <2> QED BY <2>1, <2>2, <2>3 DEF ReadOne
<1> HIDE DEF S
<1>4. Nat \subseteq S
  BY <1>2, <1>3, Induction
<1> QED BY <1>4 DEF S

\* The reading NumberIn chooses.
Reading(text) == CHOOSE r : Reads(r, text)

\* NumberIn is the last value of that reading.
LEMMA NumberInIs == \A text : NumberIn(text) = Reading(text)[Len(text)]
  BY DEF NumberIn, Reading, Reads, ReadOne

\* And that reading satisfies its definition.
LEMMA ReadingReads ==
  ASSUME NEW text, Len(text) \in Nat
  PROVE  Reads(Reading(text), text)
  BY ReadingExists DEF Reading

\* No digits make the number zero.
LEMMA NumberOfEmpty == NumberIn(<<>>) = 0
<1>1. Len(<<>>) = 0
  OBVIOUS
<1>2. Reads(Reading(<<>>), <<>>)
  BY <1>1, ReadingReads
<1> QED BY <1>1, <1>2, NumberInIs DEF Reads, ReadOne

\* The number a text makes is a natural.
LEMMA NumberInNat ==
  ASSUME NEW text, Len(text) \in Nat
  PROVE  NumberIn(text) \in Nat
<1>1. PICK r : Reads(r, text) /\ r \in [0 .. Len(text) -> Nat]
  BY ReadingExists
<1>2. Reading(text)[Len(text)] = r[Len(text)]
  BY <1>1, ReadingReads, ReadingsAgree
<1> QED BY <1>1, <1>2, NumberInIs

\* A text with one more symbol.
LEMMA Appended ==
  ASSUME NEW T, NEW s \in Seq(T), NEW c \in T
  PROVE  /\ s \o <<c>> \in Seq(T)
         /\ Len(s \o <<c>>) = Len(s) + 1
         /\ \A i \in 1 .. Len(s) : (s \o <<c>>)[i] = s[i]
         /\ (s \o <<c>>)[Len(s) + 1] = c
<1>1. Append(s, c) = s \o <<c>>
  BY AppendIsConcat
<1>2. /\ Append(s, c) \in Seq(T)
      /\ Len(Append(s, c)) = Len(s) + 1
      /\ \A i \in 1 .. Len(s) : Append(s, c)[i] = s[i]
      /\ Append(s, c)[Len(s) + 1] = c
  BY AppendProperties
<1> QED BY <1>1, <1>2, Zenon

\* One more digit makes ten times the number and the digit more; any other
\* symbol changes nothing.
LEMMA NumberOfMore ==
  ASSUME NEW T, NEW text \in Seq(T), NEW c \in T
  PROVE  NumberIn(text \o <<c>>) =
           IF IsDigit(c) THEN 10 * NumberIn(text) + DigitValue(c) ELSE NumberIn(text)
<1> DEFINE more == text \o <<c>>
           n == Len(text)
           r == Reading(more)
<1>1. /\ n \in Nat /\ Len(more) = n + 1
      /\ \A i \in 1 .. n : more[i] = text[i]
      /\ more[n + 1] = c
  <2>1. Len(text) \in Nat
    BY LenProperties, Zenon
  <2>2. /\ Len(text \o <<c>>) = Len(text) + 1
        /\ \A i \in 1 .. Len(text) : (text \o <<c>>)[i] = text[i]
        /\ (text \o <<c>>)[Len(text) + 1] = c
    BY Appended
  <2> QED BY <2>1, <2>2, Zenon
<1> HIDE DEF more, n
<1>2. Reads(r, more) /\ Reads(Reading(text), text)
  BY <1>1, ReadingReads DEF n
<1>3. Reading(text)[n] = r[n]
  BY <1>1, <1>2, ReadingsAgree DEF n
<1>4. r[n + 1] = ReadOne(more, r, n + 1)
  <2>1. \A i \in 0 .. Len(more) : r[i] = ReadOne(more, r, i)
    BY <1>2, Zenon DEF Reads
  <2>2. n + 1 \in 0 .. Len(more)
    BY <1>1
  <2> QED BY <2>1, <2>2, Zenon
<1>5. NumberIn(text) = r[n] /\ NumberIn(more) = r[n + 1]
  BY <1>1, <1>3, NumberInIs DEF n
<1>6. (n + 1) - 1 = n /\ n + 1 # 0
  BY <1>1
<1> HIDE DEF r
<1>7. r[n + 1] = IF IsDigit(c) THEN 10 * r[n] + DigitValue(c) ELSE r[n]
  BY <1>1, <1>4, <1>6 DEF ReadOne
<1>8. NumberIn(more) = IF IsDigit(c) THEN 10 * NumberIn(text) + DigitValue(c) ELSE NumberIn(text)
  BY <1>5, <1>7
<1> QED BY <1>8 DEF more

\* A mark that is no digit is passed over.
LEMMA NumberOfMark ==
  ASSUME NEW T, NEW text \in Seq(T), NEW c \in T, c \notin DigitSymbols
  PROVE  NumberIn(text \o <<c>>) = NumberIn(text)
<1>1. ~IsDigit(c)
  BY DEF IsDigit, DigitSymbols
<1> QED BY <1>1, NumberOfMore

\* A digit at the end of a text.
LEMMA NumberOfDigit ==
  ASSUME NEW T, NEW text \in Seq(T), DigitSymbols \subseteq T, NEW d \in 0 .. 9
  PROVE  NumberIn(text \o <<Digit(d)>>) = 10 * NumberIn(text) + d
<1>1. Digit(d) \in T
  BY DEF DigitSymbols
<1>2. IsDigit(Digit(d)) /\ DigitValue(Digit(d)) = d
  BY ValueOfDigit
<1>3. NumberIn(text \o <<Digit(d)>>) =
        IF IsDigit(Digit(d)) THEN 10 * NumberIn(text) + DigitValue(Digit(d)) ELSE NumberIn(text)
  BY <1>1, NumberOfMore
<1> QED BY <1>2, <1>3

\* The digits of a number read back as that number.
LEMMA NumberOfDigits == \A n \in Nat : NumberIn(Digits[n]) = n
<1> DEFINE S == {n \in Nat : NumberIn(Digits[n]) = n}
<1>1. ASSUME NEW n \in Nat, \A m \in 0 .. n - 1 : m \in S PROVE n \in S
  <2> DEFINE d == n % 10
             last == <<Digit(d)>>
  <2>1. d \in 0 .. 9 /\ n = 10 * (n \div 10) + d
    OBVIOUS
  <2>2. Digits[n] = IF n < 10 THEN last ELSE Digits[n \div 10] \o last
    BY DigitsAre, Zenon DEF Longer
  <2>3. CASE n < 10
    <3>1. Digit(d) \in DigitSymbols
      BY <2>1 DEF DigitSymbols
    <3>2. last = <<>> \o last
      <4>1. last \in Seq(DigitSymbols)
        BY <3>1
      <4> QED BY <4>1, ConcatEmptySeq
    <3>3. <<>> \in Seq(DigitSymbols)
      OBVIOUS
    <3>4. NumberIn(<<>> \o last) = 10 * NumberIn(<<>>) + d
      BY <2>1, <3>3, NumberOfDigit
    <3>5. d = n
      BY <2>3
    <3>6. Digits[n] = <<>> \o last
      BY <2>2, <2>3, <3>2, Zenon
    <3> HIDE DEF last, d
    <3> QED BY <3>4, <3>5, <3>6, NumberOfEmpty
  <2>4. CASE n >= 10
    <3>1. n \div 10 \in 0 .. n - 1
      BY <2>4
    <3>2. Digits[n] = Digits[n \div 10] \o last
      BY <2>2, <2>4
    <3>3. Digits[n \div 10] \in Seq(DigitSymbols)
      BY <3>1, DigitsType
    <3>4. NumberIn(Digits[n \div 10] \o last) = 10 * NumberIn(Digits[n \div 10]) + d
      BY <2>1, <3>3, NumberOfDigit
    <3>5. NumberIn(Digits[n \div 10]) = n \div 10
      BY <1>1, <3>1
    <3> HIDE DEF last, d
    <3> QED BY <2>1, <3>2, <3>4, <3>5
  <2> QED BY <2>3, <2>4
<1> HIDE DEF S
<1>2. Nat \subseteq S
  BY <1>1, StrongInduction
<1> QED BY <1>2 DEF S

\* A number below ten is written with one digit.
LEMMA OneDigit == \A n \in 0 .. 9 : Digits[n] = <<Digit(n)>>
<1> TAKE n \in 0 .. 9
<1>1. n % 10 = n /\ n < 10 /\ n \in Nat
  OBVIOUS
<1>2. Digits[n] = Longer(Digits, n)
  BY <1>1, DigitsAre, Zenon
<1> QED BY <1>1, <1>2 DEF Longer

\* A number from ten to 99 is written with two.
LEMMA TwoDigits == \A n \in 10 .. 99 : Digits[n] = <<Digit(n \div 10)>> \o <<Digit(n % 10)>>
<1> TAKE n \in 10 .. 99
<1>1. n \in Nat /\ ~(n < 10) /\ n \div 10 \in 0 .. 9
  OBVIOUS
<1>2. Digits[n] = Longer(Digits, n)
  BY <1>1, DigitsAre, Zenon
<1>3. Digits[n] = Digits[n \div 10] \o <<Digit(n % 10)>>
  BY <1>1, <1>2, Zenon DEF Longer
<1>4. Digits[n \div 10] = <<Digit(n \div 10)>>
  BY <1>1, OneDigit
<1> QED BY <1>3, <1>4

\* A padded number always has two digits.
LEMMA Pad2Is == \A n \in 0 .. 99 : Pad2(n) = <<Digit(n \div 10)>> \o <<Digit(n % 10)>>
<1> TAKE n \in 0 .. 99
<1>1. CASE n < 10
  <2>1. n \in 0 .. 9 /\ n \div 10 = 0 /\ n % 10 = n
    BY <1>1
  <2>2. Digits[n] = <<Digit(n)>>
    BY <2>1, OneDigit
  <2>3. Pad2(n) = <<"0">> \o Digits[n]
    BY <1>1 DEF Pad2
  <2>4. Digit(0) = "0"
    BY DigitTable
  <2> QED BY <2>1, <2>2, <2>3, <2>4
<1>2. CASE n >= 10
  <2>1. n \in 10 .. 99 /\ ~(n < 10)
    BY <1>2
  <2> QED BY <2>1, TwoDigits DEF Pad2
<1> QED BY <1>1, <1>2

\* Two more digits of a number.
Pairs      == 0 .. 99
Then(a, b) == 100 * a + b

\* A padded number at the end of a text.
LEMMA NumberOfPair ==
  ASSUME NEW T, NEW text \in Seq(T), DigitSymbols \subseteq T, NEW n \in Pairs
  PROVE  /\ Pad2(n) \in Seq(DigitSymbols) /\ Len(Pad2(n)) = 2
         /\ text \o Pad2(n) \in Seq(T)
         /\ Len(text \o Pad2(n)) = Len(text) + 2
         /\ NumberIn(text \o Pad2(n)) = Then(NumberIn(text), n)
<1> DEFINE c == Digit(n \div 10)
           d == Digit(n % 10)
<1>1. n \div 10 \in 0 .. 9 /\ n % 10 \in 0 .. 9 /\ n = 10 * (n \div 10) + (n % 10)
  BY DEF Pairs
<1>2. c \in DigitSymbols /\ d \in DigitSymbols
  BY <1>1 DEF DigitSymbols
<1>3. NumberIn(text \o <<c>>) = 10 * NumberIn(text) + (n \div 10)
  BY <1>1, NumberOfDigit
<1>4. text \o <<c>> \in Seq(T) /\ Len(text \o <<c>>) = Len(text) + 1
  BY <1>2, Appended
<1>5. NumberIn((text \o <<c>>) \o <<d>>) = 10 * NumberIn(text \o <<c>>) + (n % 10)
  BY <1>1, <1>4, NumberOfDigit
<1>6. Pad2(n) = <<c>> \o <<d>>
  BY Pad2Is DEF Pairs
<1> HIDE DEF c, d
<1>7. <<c>> \in Seq(DigitSymbols) /\ <<d>> \in Seq(DigitSymbols)
  BY <1>2
<1>8. Len(<<c>>) = 1 /\ Len(<<d>>) = 1
  OBVIOUS
<1>9. Pad2(n) \in Seq(DigitSymbols) /\ Len(Pad2(n)) = 2
  BY <1>6, <1>7, <1>8, ConcatProperties
<1>10. <<c>> \in Seq(T) /\ <<d>> \in Seq(T)
  BY <1>2
<1>11. (text \o <<c>>) \o <<d>> = text \o Pad2(n)
  BY <1>6, <1>10, ConcatAssociative
<1>12. text \o Pad2(n) \in Seq(T) /\ Len(text \o Pad2(n)) = Len(text) + 2
  <2>1. /\ (text \o <<c>>) \o <<d>> \in Seq(T)
        /\ Len((text \o <<c>>) \o <<d>>) = Len(text \o <<c>>) + 1
    BY <1>2, <1>4, Appended
  <2>2. Len(text) \in Nat
    OBVIOUS
  <2>3. /\ text \o Pad2(n) \in Seq(T)
        /\ Len(text \o Pad2(n)) = Len(text \o <<c>>) + 1
    BY <1>11, <2>1, Zenon
  <2> QED BY <1>4, <2>2, <2>3
<1>13. NumberIn(text) \in Nat
  <2>1. Len(text) \in Nat
    OBVIOUS
  <2> QED BY <2>1, NumberInNat
<1>14. NumberIn(text \o Pad2(n)) = 100 * NumberIn(text) + n
  <2>1. NumberIn(text \o Pad2(n)) = 10 * NumberIn(text \o <<c>>) + (n % 10)
    BY <1>5, <1>11, Zenon
  <2>2. n \in Int
    BY DEF Pairs
  <2> QED BY <1>1, <1>3, <1>13, <2>1, <2>2
<1> QED BY <1>9, <1>12, <1>14 DEF Then

-----------------------------------------------------------------------------
(* Durations                                                               *)

\* The symbols of durations and stamps.
Symbols == DigitSymbols \cup Marks

\* No mark is read for a digit.
LEMMA MarksAreNoDigits == DigitSymbols \cap Marks = {}
<1>1. Space \notin {"0", "1", "2", "3", "4", "5", "6", "7", "8", "9"}
  BY Zenon DEF Space
<1>2. \A d \in 0 .. 9 : Digit(d) \notin Marks
  BY <1>1, DigitTable DEF Marks
<1> QED BY <1>2 DEF DigitSymbols

\* A mark at the end of a text changes nothing.
LEMMA NumberOfMarks ==
  ASSUME NEW text \in Seq(Symbols), NEW c \in Marks
  PROVE  /\ text \o <<c>> \in Seq(Symbols)
         /\ Len(text \o <<c>>) = Len(text) + 1
         /\ (text \o <<c>>)[Len(text) + 1] = c
         /\ \A i \in 1 .. Len(text) : (text \o <<c>>)[i] = text[i]
         /\ NumberIn(text \o <<c>>) = NumberIn(text)
<1>1. c \in Symbols /\ c \notin DigitSymbols
  BY MarksAreNoDigits DEF Symbols
<1> QED BY <1>1, NumberOfMark, Appended

\* A text of digits is a text of symbols.
LEMMA DigitsAreSymbols == Seq(DigitSymbols) \subseteq Seq(Symbols)
<1>1. DigitSymbols \subseteq Symbols
  BY DEF Symbols
<1> QED BY <1>1, SeqMonotonic

\* Joining texts is associative.
LEMMA Associates ==
  ASSUME NEW T, NEW s, NEW t, NEW u, s \in Seq(T), t \in Seq(T), u \in Seq(T)
  PROVE  (s \o t) \o u = s \o (t \o u)
BY ConcatAssociative

\* The symbols of two texts joined.
LEMMA Joined ==
  ASSUME NEW T, NEW s, NEW t, s \in Seq(T), t \in Seq(T)
  PROVE  /\ s \o t \in Seq(T)
         /\ Len(s \o t) = Len(s) + Len(t)
         /\ \A i \in 1 .. Len(s) : (s \o t)[i] = s[i]
         /\ \A i \in 1 .. Len(t) : (s \o t)[Len(s) + i] = t[i]
  OBVIOUS

\* A text with two units.
TwoUnits(a, u, b, w) == a \o <<u, Space>> \o b \o <<w>>

\* A text with two units, read back: the space parts its larger unit from its
\* smaller one.
LEMMA Halves ==
  ASSUME NEW a \in Seq(DigitSymbols), NEW b \in Seq(DigitSymbols),
         NEW u \in Marks \ {Space}, NEW w \in Marks \ {Space, "h"}, NEW text,
         text = TwoUnits(a, u, b, w)
  PROVE  /\ SmallestUnit(text) = IF u = "h" THEN 60 ELSE 1
         /\ SpaceIn(text) > 0
         /\ Larger(text) = NumberIn(a) /\ Smaller(text) = NumberIn(b)
<1> DEFINE first == (a \o <<u>>) \o <<Space>>
           last  == b \o <<w>>
           k     == Len(a) + 2
<1> HIDE DEF first, last
<1>1. a \in Seq(Symbols) /\ b \in Seq(Symbols)
  BY DigitsAreSymbols
<1>2. u \in Marks /\ w \in Marks /\ Space \in Marks
  BY DEF Marks
<1>3. /\ a \o <<u>> \in Seq(Symbols) /\ Len(a \o <<u>>) = Len(a) + 1
      /\ (a \o <<u>>)[Len(a) + 1] = u
      /\ \A i \in 1 .. Len(a) : (a \o <<u>>)[i] = a[i]
      /\ NumberIn(a \o <<u>>) = NumberIn(a)
  BY <1>1, <1>2, NumberOfMarks
<1>4. /\ first \in Seq(Symbols) /\ Len(first) = Len(a \o <<u>>) + 1
      /\ first[Len(a \o <<u>>) + 1] = Space
      /\ \A i \in 1 .. Len(a \o <<u>>) : first[i] = (a \o <<u>>)[i]
      /\ NumberIn(first) = NumberIn(a \o <<u>>)
  BY <1>2, <1>3, NumberOfMarks DEF first
<1>5. /\ last \in Seq(Symbols) /\ Len(last) = Len(b) + 1 /\ last[Len(b) + 1] = w
      /\ \A i \in 1 .. Len(b) : last[i] = b[i]
      /\ NumberIn(last) = NumberIn(b)
  BY <1>1, <1>2, NumberOfMarks DEF last
<1>6. first \in Seq(Symbols)
  BY <1>4
<1>7. last \in Seq(Symbols)
  BY <1>5
<1>8. text = first \o last
  <2> DEFINE x == <<u>>
             y == <<Space>>
             z == <<w>>
  <2>1. <<u, Space>> = x \o y
    OBVIOUS
  <2>2. u \in Symbols /\ Space \in Symbols /\ w \in Symbols
    BY <1>2 DEF Symbols
  <2>3. x \in Seq(Symbols) /\ y \in Seq(Symbols) /\ z \in Seq(Symbols)
    BY <2>2
  <2>4. text = ((a \o (x \o y)) \o b) \o z
    BY <2>1, Zenon DEF TwoUnits
  <2>5. first = (a \o x) \o y /\ last = b \o z
    BY DEF first, last
  <2> HIDE DEF x, y, z
  <2>6. (a \o x) \o y = a \o (x \o y)
    BY <1>1, <2>3, Associates
  <2>7. (first \o b) \o z = first \o (b \o z)
    <3>1. b \in Seq(Symbols)
      BY <1>1
    <3>2. z \in Seq(Symbols)
      BY <2>3
    <3> QED BY <1>6, <3>1, <3>2, Associates
  <2> QED BY <2>4, <2>5, <2>6, <2>7, Zenon
<1>9. Len(a) \in Nat /\ Len(b) \in Nat
  OBVIOUS
<1>10. Len(first) = k /\ k \in Nat
  BY <1>3, <1>4, <1>9
<1>11. /\ \A i \in 1 .. Len(a) : first[i] = a[i]
      /\ first[Len(a) + 1] = u
      /\ first[k] = Space
  BY <1>3, <1>4, <1>9
<1>12. /\ Len(text) = k + Len(b) + 1
       /\ \A i \in 1 .. k : text[i] = first[i]
       /\ \A i \in 1 .. Len(b) + 1 : text[k + i] = last[i]
  <2>1. /\ Len(first \o last) = Len(first) + Len(last)
        /\ \A i \in 1 .. Len(first) : (first \o last)[i] = first[i]
        /\ \A i \in 1 .. Len(last) : (first \o last)[Len(first) + i] = last[i]
    BY <1>6, <1>7, Joined
  <2>2. /\ Len(text) = Len(first) + Len(last)
        /\ \A i \in 1 .. Len(first) : text[i] = first[i]
        /\ \A i \in 1 .. Len(last) : text[Len(first) + i] = last[i]
    BY <1>8, <2>1, Zenon
  <2> QED BY <1>5, <1>9, <1>10, <2>2
<1>13. DOMAIN text = 1 .. k + Len(b) + 1
  <2>1. first \o last \in Seq(Symbols)
    BY <1>4, <1>5, ConcatProperties
  <2> QED BY <1>8, <1>12, <2>1, LenProperties
<1>14. /\ \A i \in 1 .. Len(a) : text[i] \in DigitSymbols
       /\ text[Len(a) + 1] = u /\ text[k] = Space
       /\ \A i \in 1 .. Len(b) : text[k + i] \in DigitSymbols
       /\ text[k + Len(b) + 1] = w
  <2>1. /\ \A i \in 1 .. Len(a) : a[i] \in DigitSymbols
        /\ \A i \in 1 .. Len(b) : b[i] \in DigitSymbols
    OBVIOUS
  <2>2. \A i \in 1 .. Len(a) : text[i] \in DigitSymbols
    BY <1>9, <1>11, <1>12, <2>1
  <2>3. Len(a) + 1 \in 1 .. k /\ k \in 1 .. k /\ Len(b) + 1 \in 1 .. Len(b) + 1
    BY <1>9
  <2>4. text[Len(a) + 1] = u /\ text[k] = Space
    BY <1>11, <1>12, <2>3
  <2>5. ASSUME NEW i \in 1 .. Len(b) PROVE text[k + i] \in DigitSymbols
    <3>1. i \in 1 .. Len(b) + 1
      BY <1>9
    <3>2. text[k + i] = b[i]
      BY <1>5, <1>12, <3>1
    <3> QED BY <2>1, <3>2
  <2>6. text[k + (Len(b) + 1)] = w
    BY <1>5, <1>12, <2>3
  <2>7. k + (Len(b) + 1) = k + Len(b) + 1
    BY <1>9
  <2> QED BY <2>2, <2>4, <2>5, <2>6, <2>7
<1>15. \A i \in 1 .. k + Len(b) + 1 :
         /\ text[i] = Space <=> i = k
         /\ text[i] = "h" => u = "h"
  <2>1. Space \notin DigitSymbols /\ "h" \notin DigitSymbols
    BY MarksAreNoDigits DEF Marks
  <2>2. Space # "h"
    BY Zenon DEF Space
  <2> TAKE i \in 1 .. k + Len(b) + 1
  <2>3. CASE i \in 1 .. Len(a)
    BY <1>9, <1>14, <2>1, <2>3
  <2>4. CASE i = Len(a) + 1
    BY <1>9, <1>14, <2>4
  <2>5. CASE i = k
    BY <1>14, <2>2, <2>5
  <2>6. CASE i \in k + 1 .. k + Len(b)
    <3>1. i - k \in 1 .. Len(b) /\ i = k + (i - k)
      BY <1>9, <2>6
    <3>2. text[i] \in DigitSymbols
      BY <1>14, <3>1
    <3> QED BY <1>9, <2>1, <2>6, <3>2
  <2>7. CASE i = k + Len(b) + 1
    BY <1>9, <1>14, <2>7
  <2> QED BY <1>9, <2>3, <2>4, <2>5, <2>6, <2>7
<1>16. Space \in SymbolsOf(text) /\ ("h" \in SymbolsOf(text) <=> u = "h")
  <2>1. k \in DOMAIN text /\ Len(a) + 1 \in DOMAIN text
    BY <1>9, <1>13
  <2>2. Space \in SymbolsOf(text)
    BY <1>14, <2>1 DEF SymbolsOf
  <2>3. u = "h" => "h" \in SymbolsOf(text)
    BY <1>14, <2>1 DEF SymbolsOf
  <2>4. "h" \in SymbolsOf(text) => u = "h"
    BY <1>13, <1>15 DEF SymbolsOf
  <2> QED BY <2>2, <2>3, <2>4
<1>17. SpaceIn(text) = k
  <2>1. k \in 0 .. Len(text) /\ k > 0 /\ text[k] = Space
    BY <1>9, <1>12, <1>14
  <2>2. \A i \in 0 .. Len(text) : i > 0 /\ text[i] = Space => i = k
    BY <1>9, <1>12, <1>15
  <2> QED BY <1>16, <2>1, <2>2 DEF SpaceIn
<1>18. SubSeq(text, 1, k) = first
  <2>1. SubSeq(first \o last, 1, k) = SubSeq(first, 1, k)
    BY <1>4, <1>5, <1>9, <1>10, SubSeqOfConcat1
  <2>2. SubSeq(first, 1, k) = first
    BY <1>4, <1>10, SubSeqFull
  <2> QED BY <1>8, <2>1, <2>2
<1>19. SubSeq(text, k + 1, Len(text)) = last
  <2>1. Len(text) = Len(first) + Len(last)
    BY <1>5, <1>9, <1>10, <1>12
  <2>2. /\ k + 1 \in Len(first) + 1 .. Len(first) + Len(last)
        /\ Len(text) \in Len(first) + 1 .. Len(first) + Len(last)
    BY <1>5, <1>9, <1>10, <2>1
  <2>3. SubSeq(first \o last, k + 1, Len(text)) =
          SubSeq(last, (k + 1) - Len(first), Len(text) - Len(first))
    BY <1>4, <1>5, <2>2, SubSeqOfConcat2
  <2>4. (k + 1) - Len(first) = 1 /\ Len(text) - Len(first) = Len(last)
    BY <1>5, <1>9, <1>10, <2>1
  <2>5. SubSeq(last, 1, Len(last)) = last
    BY <1>5, SubSeqFull
  <2> QED BY <1>8, <2>3, <2>4, <2>5
<1>20. Larger(text) = NumberIn(a) /\ Smaller(text) = NumberIn(b)
  BY <1>3, <1>4, <1>5, <1>17, <1>18, <1>19 DEF Larger, Smaller
<1>21. SmallestUnit(text) = IF u = "h" THEN 60 ELSE 1
  BY <1>16 DEF SmallestUnit
<1> QED BY <1>9, <1>17, <1>20, <1>21

\* A text with one unit.
OneUnit(a, u) == a \o <<u>>

\* A text with one unit, read back.
LEMMA WholeOfSeconds ==
  ASSUME NEW a \in Seq(DigitSymbols), NEW c \in Marks \ {Space, "h"},
         NEW text, text = OneUnit(a, c)
  PROVE  SmallestUnit(text) = 1 /\ SpaceIn(text) = 0 /\ Smaller(text) = NumberIn(a)
<1>1. a \in Seq(Symbols) /\ c \in Marks /\ Len(a) \in Nat
  BY DigitsAreSymbols DEF Marks
<1>2. /\ text \in Seq(Symbols) /\ Len(text) = Len(a) + 1 /\ text[Len(a) + 1] = c
      /\ \A i \in 1 .. Len(a) : text[i] = a[i]
      /\ NumberIn(text) = NumberIn(a)
  BY <1>1, NumberOfMarks DEF OneUnit
<1>3. DOMAIN text = 1 .. Len(a) + 1
  BY <1>2, LenProperties
<1>4. Space \notin DigitSymbols /\ "h" \notin DigitSymbols
  BY MarksAreNoDigits DEF Marks
<1>5. \A i \in 1 .. Len(a) + 1 : text[i] # Space /\ text[i] # "h"
  <2>1. \A i \in 1 .. Len(a) : a[i] \in DigitSymbols
    OBVIOUS
  <2> QED BY <1>1, <1>2, <1>4, <2>1
<1>6. Space \notin SymbolsOf(text) /\ "h" \notin SymbolsOf(text)
  BY <1>3, <1>5 DEF SymbolsOf
<1>7. SpaceIn(text) = 0
  BY <1>1, <1>2, <1>6 DEF SpaceIn
<1>8. SubSeq(text, 0 + 1, Len(text)) = text
  BY <1>2, SubSeqFull
<1> QED BY <1>2, <1>6, <1>7, <1>8 DEF SmallestUnit, Smaller

-----------------------------------------------------------------------------
(* Stamps                                                                  *)

\* The end of a text.
LEMMA Ending ==
  ASSUME NEW T, NEW s, NEW t, s \in Seq(T), t \in Seq(T), Len(t) > 0
  PROVE  SubSeq(s \o t, Len(s) + 1, Len(s) + Len(t)) = t
<1>1. Len(s) \in Nat /\ Len(t) \in Nat
  OBVIOUS
<1>2. /\ Len(s) + 1 \in Len(s) + 1 .. Len(s) + Len(t)
      /\ Len(s) + Len(t) \in Len(s) + 1 .. Len(s) + Len(t)
  BY <1>1
<1>3. SubSeq(s \o t, Len(s) + 1, Len(s) + Len(t)) =
        SubSeq(t, (Len(s) + 1) - Len(s), (Len(s) + Len(t)) - Len(s))
  BY <1>2, SubSeqOfConcat2
<1>4. (Len(s) + 1) - Len(s) = 1 /\ (Len(s) + Len(t)) - Len(s) = Len(t)
  BY <1>1
<1>5. SubSeq(t, 1, Len(t)) = t
  BY SubSeqFull
<1> QED BY <1>3, <1>4, <1>5

\* A part of the beginning of a text.
LEMMA Beginning ==
  ASSUME NEW T, NEW s, NEW t, s \in Seq(T), t \in Seq(T),
         NEW m \in 1 .. Len(s), NEW n \in 1 .. Len(s)
  PROVE  SubSeq(s \o t, m, n) = SubSeq(s, m, n)
BY SubSeqOfConcat1

\* A text of a length, and a part of it.
TextOf(s, n)   == s \in Seq(Symbols) /\ Len(s) = n
Piece(s, m, n) == SubSeq(s, m, n)
Both(s, t)     == s \o t

\* Two texts joined: the length, the last part and every piece of the first.
LEMMA BothRead ==
  ASSUME NEW k \in Nat, NEW l \in Nat, NEW s, NEW t, TextOf(s, k), TextOf(t, l)
  PROVE  /\ TextOf(Both(s, t), k + l)
         /\ l > 0 => Piece(Both(s, t), k + 1, k + l) = t
         /\ \A m, n \in 1 .. k : Piece(Both(s, t), m, n) = Piece(s, m, n)
<1>1. s \in Seq(Symbols)
  BY DEF TextOf
<1>2. t \in Seq(Symbols)
  BY DEF TextOf
<1>3. Len(s) = k /\ Len(t) = l
  BY DEF TextOf
<1>4. s \o t \in Seq(Symbols)
  BY <1>1, <1>2
<1>5. Len(s \o t) = k + l
  BY <1>1, <1>2, <1>3
<1>6. TextOf(Both(s, t), k + l)
  BY <1>4, <1>5 DEF TextOf, Both
<1>7. ASSUME l > 0 PROVE Piece(Both(s, t), k + 1, k + l) = t
  <2>1. Len(t) > 0
    BY <1>3, <1>7
  <2>2. SubSeq(s \o t, Len(s) + 1, Len(s) + Len(t)) = t
    BY <1>1, <1>2, <2>1, Ending
  <2> QED BY <1>3, <2>2 DEF Piece, Both
<1>8. ASSUME NEW m \in 1 .. k, NEW n \in 1 .. k
      PROVE  Piece(Both(s, t), m, n) = Piece(s, m, n)
  <2>1. m \in 1 .. Len(s) /\ n \in 1 .. Len(s)
    BY <1>3
  <2>2. SubSeq(s \o t, m, n) = SubSeq(s, m, n)
    BY <1>1, <1>2, <2>1, Beginning
  <2> QED BY <2>2 DEF Piece, Both
<1> QED BY <1>6, <1>7, <1>8

\* A mark after a text.
LEMMA MarkReads ==
  ASSUME NEW k \in Nat, NEW s, TextOf(s, k), NEW mark \in Marks
  PROVE  /\ TextOf(<<mark>>, 1)
         /\ TextOf(Both(s, <<mark>>), k + 1)
         /\ NumberIn(Both(s, <<mark>>)) = NumberIn(s)
<1>1. s \in Seq(Symbols) /\ Len(s) = k
  BY DEF TextOf
<1>2. /\ s \o <<mark>> \in Seq(Symbols)
      /\ Len(s \o <<mark>>) = Len(s) + 1
      /\ NumberIn(s \o <<mark>>) = NumberIn(s)
  BY <1>1, NumberOfMarks
<1>3. TextOf(Both(s, <<mark>>), k + 1) /\ NumberIn(Both(s, <<mark>>)) = NumberIn(s)
  BY <1>1, <1>2 DEF TextOf, Both
<1>4. mark \in Symbols
  BY DEF Symbols
<1>5. <<mark>> \in Seq(Symbols)
  BY <1>4
<1>6. Len(<<mark>>) = 1
  OBVIOUS
<1> QED BY <1>3, <1>5, <1>6 DEF TextOf

\* Two digits after a text.
LEMMA PairReads ==
  ASSUME NEW k \in Nat, NEW s, TextOf(s, k), NEW n \in Pairs
  PROVE  /\ TextOf(Pad2(n), 2)
         /\ TextOf(Both(s, Pad2(n)), k + 2)
         /\ NumberIn(Both(s, Pad2(n))) = Then(NumberIn(s), n)
<1>1. s \in Seq(Symbols) /\ Len(s) = k
  BY DEF TextOf
<1>2. DigitSymbols \subseteq Symbols
  BY DEF Symbols
<1>3. /\ Pad2(n) \in Seq(DigitSymbols) /\ Len(Pad2(n)) = 2
      /\ s \o Pad2(n) \in Seq(Symbols)
      /\ Len(s \o Pad2(n)) = Len(s) + 2
      /\ NumberIn(s \o Pad2(n)) = Then(NumberIn(s), n)
  BY <1>2, <1>1, NumberOfPair, Zenon
<1>4. Pad2(n) \in Seq(Symbols)
  BY <1>3, DigitsAreSymbols
<1>5. TextOf(Pad2(n), 2)
  BY <1>3, <1>4 DEF TextOf
<1>6. TextOf(Both(s, Pad2(n)), k + 2) /\ NumberIn(Both(s, Pad2(n))) = Then(NumberIn(s), n)
  BY <1>1, <1>3 DEF TextOf, Both
<1> QED BY <1>5, <1>6

\* Two digits alone.
LEMMA PadReads ==
  ASSUME NEW n \in Pairs
  PROVE  TextOf(Pad2(n), 2) /\ NumberIn(Pad2(n)) = n
<1>1. TextOf(<<>>, 0)
  BY DEF TextOf
<1> DEFINE none == <<>>
<1>2. TextOf(none, 0) /\ NumberIn(none) = 0
  BY <1>1, NumberOfEmpty
<1> HIDE DEF none
<1>3. TextOf(Pad2(n), 2) /\ NumberIn(Both(none, Pad2(n))) = n
  <2>1. 0 \in Nat
    OBVIOUS
  <2>2. TextOf(Pad2(n), 2) /\ NumberIn(Both(none, Pad2(n))) = Then(NumberIn(none), n)
    BY <1>2, <2>1, PairReads, Zenon
  <2> QED BY <1>2, <2>2 DEF Then, Pairs
<1>4. Pad2(n) \in Seq(Symbols)
  BY <1>3 DEF TextOf
<1>5. <<>> \o Pad2(n) = Pad2(n)
  BY <1>4, ConcatEmptySeq
<1>6. Both(none, Pad2(n)) = Pad2(n)
  BY <1>5, Zenon DEF Both, none
<1> QED BY <1>3, <1>6

\* A mark and two digits more.
More(text, mark, n) == Both(Both(text, <<mark>>), Pad2(n))

\* A mark and two digits after a text.
LEMMA MoreReads ==
  ASSUME NEW k \in Nat, NEW text, TextOf(text, k), NEW mark \in Marks, NEW n \in Pairs
  PROVE  /\ TextOf(More(text, mark, n), k + 3)
         /\ NumberIn(More(text, mark, n)) = Then(NumberIn(text), n)
         /\ Piece(More(text, mark, n), k + 2, k + 3) = Pad2(n)
<1> DEFINE marked == Both(text, <<mark>>)
<1>1. TextOf(marked, k + 1) /\ NumberIn(marked) = NumberIn(text)
  BY MarkReads
<1> HIDE DEF marked
<1>2. k + 1 \in Nat /\ (k + 1) + 2 = k + 3 /\ (k + 1) + 1 = k + 2
  OBVIOUS
<1>3. /\ TextOf(Pad2(n), 2)
      /\ TextOf(Both(marked, Pad2(n)), (k + 1) + 2)
      /\ NumberIn(Both(marked, Pad2(n))) = Then(NumberIn(marked), n)
  BY <1>1, <1>2, PairReads, Zenon
<1>4. Piece(Both(marked, Pad2(n)), (k + 1) + 1, (k + 1) + 2) = Pad2(n)
  BY <1>1, <1>2, <1>3, BothRead
<1> QED BY <1>1, <1>2, <1>3, <1>4 DEF More, marked

\* Hours and minutes, and with seconds.
HoursMinutes(h, m) == More(Pad2(h), ":", m)
Time(h, m, s)      == More(HoursMinutes(h, m), ":", s)

\* The number the digits of hours and minutes make.
LEMMA HoursMinutesRead ==
  ASSUME NEW h \in Pairs, NEW m \in Pairs
  PROVE  /\ TextOf(HoursMinutes(h, m), 5)
         /\ NumberIn(HoursMinutes(h, m)) = Then(h, m)
<1>1. ":" \in Marks /\ 2 \in Nat
  BY DEF Marks
<1>2. TextOf(Pad2(h), 2) /\ NumberIn(Pad2(h)) = h
  BY PadReads
<1>3. /\ TextOf(HoursMinutes(h, m), 2 + 3)
      /\ NumberIn(HoursMinutes(h, m)) = Then(NumberIn(Pad2(h)), m)
  BY <1>1, <1>2, MoreReads, Zenon DEF HoursMinutes
<1>4. 2 + 3 = 5
  OBVIOUS
<1> QED BY <1>2, <1>3, <1>4

\* The number the digits of a time of day make.
LEMMA TimeReads ==
  ASSUME NEW h \in Pairs, NEW m \in Pairs, NEW s \in Pairs
  PROVE  /\ TextOf(Time(h, m, s), 8)
         /\ NumberIn(Time(h, m, s)) = Then(Then(h, m), s)
<1>1. ":" \in Marks /\ 5 \in Nat
  BY DEF Marks
<1>2. TextOf(HoursMinutes(h, m), 5) /\ NumberIn(HoursMinutes(h, m)) = Then(h, m)
  BY HoursMinutesRead
<1>3. /\ TextOf(Time(h, m, s), 5 + 3)
      /\ NumberIn(Time(h, m, s)) = Then(NumberIn(HoursMinutes(h, m)), s)
  BY <1>1, <1>2, MoreReads, Zenon DEF Time
<1>4. 5 + 3 = 8
  OBVIOUS
<1> QED BY <1>2, <1>3, <1>4

\* The year of the model's month.
Year == Digits[2026]

\* A year has four digits.
LEMMA YearReads == TextOf(Year, 4)
<1>1. 20 \div 10 = 2 /\ 20 % 10 = 0 /\ 20 \in 10 .. 99
  OBVIOUS
<1>2. Digits[20] = <<Digit(2)>> \o <<Digit(0)>>
  <2>1. Digits[20] = <<Digit(20 \div 10)>> \o <<Digit(20 % 10)>>
    BY <1>1, TwoDigits
  <2> QED BY <1>1, <2>1
<1>3. Digits[202] = Digits[20] \o <<Digit(2)>>
  <2>1. 202 \div 10 = 20 /\ 202 % 10 = 2 /\ ~(202 < 10) /\ 202 \in Nat
    OBVIOUS
  <2>2. Digits[202] = Longer(Digits, 202)
    BY DigitsAre
  <2> QED BY <2>1, <2>2 DEF Longer
<1>4. Digits[2026] = Digits[202] \o <<Digit(6)>>
  <2>1. 2026 \div 10 = 202 /\ 2026 % 10 = 6 /\ ~(2026 < 10) /\ 2026 \in Nat
    OBVIOUS
  <2>2. Digits[2026] = Longer(Digits, 2026)
    BY DigitsAre
  <2> QED BY <2>1, <2>2 DEF Longer
<1> DEFINE T == DigitSymbols
<1>5. Digit(0) \in T /\ Digit(2) \in T /\ Digit(6) \in T
  BY DEF DigitSymbols
<1> HIDE DEF T
<1>6. <<Digit(2)>> \in Seq(T)
  BY <1>5
<1>7. Len(<<Digit(2)>>) = 1
  OBVIOUS
<1>8. Digits[20] \in Seq(T) /\ Len(Digits[20]) = 2
  <2> DEFINE s == <<Digit(2)>>
             c == Digit(0)
  <2> HIDE DEF s, c
  <2>1. s \in Seq(T) /\ Len(s) = 1 /\ c \in T
    BY <1>5, <1>6, <1>7 DEF s, c
  <2>2. s \o <<c>> \in Seq(T) /\ Len(s \o <<c>>) = Len(s) + 1
    BY <2>1, Appended
  <2> QED BY <1>2, <2>1, <2>2 DEF s, c
<1>9. Digits[202] \in Seq(T) /\ Len(Digits[202]) = 3
  <2> DEFINE s == Digits[20]
             c == Digit(2)
  <2> HIDE DEF s, c
  <2>1. s \in Seq(T) /\ Len(s) = 2 /\ c \in T
    BY <1>5, <1>8 DEF s, c
  <2>2. s \o <<c>> \in Seq(T) /\ Len(s \o <<c>>) = Len(s) + 1
    BY <2>1, Appended
  <2> QED BY <1>3, <2>1, <2>2 DEF s, c
<1>10. Digits[2026] \in Seq(T) /\ Len(Digits[2026]) = 4
  <2> DEFINE s == Digits[202]
             c == Digit(6)
  <2> HIDE DEF s, c
  <2>1. s \in Seq(T) /\ Len(s) = 3 /\ c \in T
    BY <1>5, <1>9 DEF s, c
  <2>2. s \o <<c>> \in Seq(T) /\ Len(s \o <<c>>) = Len(s) + 1
    BY <2>1, Appended
  <2> QED BY <1>4, <2>1, <2>2 DEF s, c
<1> QED BY <1>10, DigitsAreSymbols DEF TextOf, T, Year

\* A day of that month.
DayText(day) == More(More(Year, "-", 9), "-", day)

\* Its last two digits are the day.
LEMMA DayReads ==
  ASSUME NEW day \in Pairs
  PROVE  TextOf(DayText(day), 10) /\ Piece(DayText(day), 9, 10) = Pad2(day)
<1> DEFINE month == More(Year, "-", 9)
<1>1. "-" \in Marks
  BY DEF Marks
<1>2. 4 + 3 = 7 /\ 7 + 3 = 10 /\ 7 + 2 = 9
  OBVIOUS
<1>3. TextOf(month, 4 + 3)
  <2>1. 9 \in Pairs /\ 4 \in Nat
    BY DEF Pairs
  <2> QED BY <1>1, <2>1, YearReads, MoreReads
<1> HIDE DEF month
<1>4. /\ TextOf(More(month, "-", day), 7 + 3)
      /\ Piece(More(month, "-", day), 7 + 2, 7 + 3) = Pad2(day)
  BY <1>1, <1>2, <1>3, MoreReads
<1> QED BY <1>2, <1>4 DEF DayText, month

\* A day and a time.
Stamp(day, clock) == Both(Both(day, <<Space>>), clock)

\* The pieces of a stamp.
LEMMA StampReads ==
  ASSUME NEW day, NEW clock, TextOf(day, 10), NEW l \in Nat \ {0}, TextOf(clock, l)
  PROVE  /\ TextOf(Stamp(day, clock), 11 + l)
         /\ Piece(Stamp(day, clock), 9, 10) = Piece(day, 9, 10)
         /\ Piece(Stamp(day, clock), 12, 11 + l) = clock
<1> DEFINE one    == <<Space>>
           spaced == Both(day, one)
<1>1. Space \in Marks
  BY DEF Marks
<1>2. TextOf(one, 1) /\ TextOf(spaced, 10 + 1)
  BY <1>1, MarkReads
<1> HIDE DEF one
<1>3. 10 + 1 = 11 /\ 11 + 1 = 12 /\ {9, 10} \subseteq 1 .. 10 /\ {9, 10} \subseteq 1 .. 11
  OBVIOUS
<1>4. Piece(spaced, 9, 10) = Piece(day, 9, 10)
  BY <1>2, <1>3, BothRead
<1> HIDE DEF spaced
<1>5. /\ TextOf(Both(spaced, clock), 11 + l)
      /\ Piece(Both(spaced, clock), 11 + 1, 11 + l) = clock
      /\ Piece(Both(spaced, clock), 9, 10) = Piece(spaced, 9, 10)
  BY <1>2, <1>3, BothRead
<1> QED BY <1>3, <1>4, <1>5 DEF Stamp, spaced, one

\* The text of FormatLocal, read back.
LEMMA LocalReads ==
  ASSUME NEW day \in Pairs, NEW h \in Pairs, NEW m \in Pairs
  PROVE  LET text == Stamp(DayText(day), HoursMinutes(h, m))
         IN  ClockIn("local", text) = 100 * Then(h, m) /\ DayIn(text) = day
<1> DEFINE clock == HoursMinutes(h, m)
           d     == DayText(day)
           text  == Stamp(DayText(day), HoursMinutes(h, m))
<1>1. TextOf(clock, 5) /\ NumberIn(clock) = Then(h, m)
  BY HoursMinutesRead, Zenon
<1>2. TextOf(d, 10) /\ Piece(d, 9, 10) = Pad2(day)
  BY DayReads
<1>3. text = Stamp(d, clock)
  OBVIOUS
<1> HIDE DEF clock, d, text
<1>4. Piece(text, 9, 10) = Pad2(day) /\ Piece(text, 12, 11 + 5) = clock
  BY <1>1, <1>2, <1>3, StampReads
<1>5. DayIn(text) = day
  <2>1. DayIn(text) = NumberIn(Piece(text, 9, 10))
    BY Zenon DEF DayIn, Piece
  <2> QED BY <1>4, <2>1, PadReads
<1>6. ClockIn("local", text) = 100 * NumberIn(Piece(text, 12, 16))
  BY DEF ClockIn, Piece
<1>7. 11 + 5 = 16
  OBVIOUS
<1> QED BY <1>1, <1>4, <1>5, <1>6, <1>7 DEF text

\* The end of the text of FormatDatetime.
Utc == <<Space, "UTC">>

\* The text of FormatDatetime, read back.
LEMMA DatetimeReads ==
  ASSUME NEW day \in Pairs, NEW h \in Pairs, NEW m \in Pairs, NEW s \in Pairs
  PROVE  LET text == Both(Stamp(DayText(day), Time(h, m, s)), Utc)
         IN  ClockIn("datetime", text) = Then(Then(h, m), s) /\ DayIn(text) = day
<1> DEFINE clock == Time(h, m, s)
           d     == DayText(day)
           stamp == Stamp(d, clock)
           text  == Both(Stamp(DayText(day), Time(h, m, s)), Utc)
<1>1. TextOf(clock, 8) /\ NumberIn(clock) = Then(Then(h, m), s)
  BY TimeReads, Zenon
<1>2. TextOf(d, 10) /\ Piece(d, 9, 10) = Pad2(day)
  BY DayReads
<1>3. TextOf(Utc, 2)
  <2>1. Space \in Symbols /\ "UTC" \in Symbols
    BY DEF Symbols, Marks
  <2>2. <<Space, "UTC">> \in Seq(Symbols)
    BY <2>1
  <2>3. Len(<<Space, "UTC">>) = 2
    OBVIOUS
  <2> QED BY <2>2, <2>3 DEF TextOf, Utc
<1>4. text = Both(stamp, Utc)
  OBVIOUS
<1> HIDE DEF clock, d, text
<1>5. /\ TextOf(stamp, 11 + 8)
      /\ Piece(stamp, 9, 10) = Piece(d, 9, 10)
      /\ Piece(stamp, 12, 11 + 8) = clock
  BY <1>1, <1>2, StampReads
<1> HIDE DEF stamp
<1>6. 11 + 8 = 19 /\ {9, 10, 12, 19} \subseteq 1 .. 19
  OBVIOUS
<1>7. Piece(text, 9, 10) = Piece(stamp, 9, 10) /\ Piece(text, 12, 19) = Piece(stamp, 12, 19)
  BY <1>3, <1>4, <1>5, <1>6, BothRead
<1>8. Piece(text, 9, 10) = Pad2(day) /\ Piece(text, 12, 19) = clock
  BY <1>2, <1>5, <1>6, <1>7
<1>9. DayIn(text) = day
  <2>1. DayIn(text) = NumberIn(Piece(text, 9, 10))
    BY Zenon DEF DayIn, Piece
  <2> QED BY <1>8, <2>1, PadReads
<1>10. ClockIn("datetime", text) = NumberIn(Piece(text, 12, 19))
  BY DEF ClockIn, Piece
<1> QED BY <1>1, <1>8, <1>9, <1>10 DEF text

\* The day, the hour, the minute and the second a time falls in.
DayOf(at)    == 1 + (at \div 86400)
HourOf(at)   == (at % 86400) \div 3600
MinuteOf(at) == (at % 3600) \div 60
SecondOf(at) == at % 60

\* The fields of a time of the month are in range.
LEMMA MomentsInRange ==
  ASSUME NEW at, Moment(at)
  PROVE  /\ DayOf(at) \in Pairs /\ HourOf(at) \in 0 .. 23
         /\ MinuteOf(at) \in 0 .. 59 /\ SecondOf(at) \in 0 .. 59
<1>1. at \in Nat /\ at < 30 * 86400
  BY DEF Moment
<1>2. at \div 86400 \in 0 .. 29
  BY <1>1, SMT
<1>3. at % 86400 \in Nat /\ at % 86400 < 86400
  BY <1>1, SMT
<1>4. at % 3600 \in Nat /\ at % 3600 < 3600
  BY <1>1, SMT
<1>5. DayOf(at) \in Pairs
  BY <1>2, SMT DEF DayOf, Pairs
<1>6. HourOf(at) \in 0 .. 23
  BY <1>3, SMT DEF HourOf
<1>7. MinuteOf(at) \in 0 .. 59
  BY <1>4, SMT DEF MinuteOf
<1>8. SecondOf(at) \in 0 .. 59
  BY <1>1, SMT DEF SecondOf
<1> QED BY <1>5, <1>6, <1>7, <1>8

\* The getters of a Date give these fields.
LEMMA FieldsAre ==
  ASSUME NEW at
  PROVE  LET f == Fields(at)
         IN  /\ Digits[f.year] = Year /\ Pad2(f.month + 1) = Pad2(9)
             /\ f.day = DayOf(at)
             /\ f.hours = HourOf(at)
             /\ f.minutes = MinuteOf(at) /\ f.seconds = SecondOf(at)
<1> DEFINE f == Fields(at)
<1>1. f.year = 2026 /\ f.month + 1 = 9
  BY SMT DEF Fields
<1>2. /\ f.day = DayOf(at) /\ f.hours = HourOf(at)
      /\ f.minutes = MinuteOf(at) /\ f.seconds = SecondOf(at)
  BY SMT DEF Fields, DayOf, HourOf, MinuteOf, SecondOf
<1> HIDE DEF f
<1>3. Digits[f.year] = Year
  BY <1>1, SMT DEF Year
<1>4. Pad2(f.month + 1) = Pad2(9)
  BY <1>1, SMT
<1> QED BY <1>2, <1>3, <1>4 DEF f

\* Day writes a day of the month.
LEMMA DayIs ==
  ASSUME NEW f, Digits[f.year] = Year, Pad2(f.month + 1) = Pad2(9)
  PROVE  Day(f) = DayText(f.day)
<1> DEFINE y == Digits[f.year]
           m == Pad2(f.month + 1)
<1>1. Day(f) = y \o <<"-">> \o m \o <<"-">> \o Pad2(f.day)
  BY Zenon DEF Day
<1>2. DayText(f.day) = Year \o <<"-">> \o Pad2(9) \o <<"-">> \o Pad2(f.day)
  BY Zenon DEF DayText, More, Both
<1> QED BY <1>1, <1>2, Zenon

\* Clock writes a time of day.
LEMMA ClockIs ==
  ASSUME NEW f
  PROVE  Clock(f) = Time(f.hours, f.minutes, f.seconds)
BY Zenon DEF Clock, Time, HoursMinutes, More, Both

\* FormatLocal joins its parts from the left; the stamp joins a day and a
\* time.
LEMMA LocalIs ==
  ASSUME NEW day \in Pairs, NEW h \in Pairs, NEW m \in Pairs
  PROVE  DayText(day) \o <<Space>> \o Pad2(h) \o <<":">> \o Pad2(m) =
           Stamp(DayText(day), HoursMinutes(h, m))
<1> DEFINE d == DayText(day)
           x == d \o <<Space>>
           c == <<":">>
<1>1. ":" \in Marks /\ Space \in Marks /\ 10 \in Nat
  BY DEF Marks
<1>2. TextOf(d, 10)
  BY DayReads
<1> HIDE DEF d
<1>3. TextOf(x, 10 + 1)
  <2>1. TextOf(Both(d, <<Space>>), 10 + 1)
    BY <1>1, <1>2, MarkReads, Zenon
  <2> QED BY <2>1, Zenon DEF Both
<1>4. TextOf(c, 1)
  BY <1>1, <1>2, MarkReads, Zenon
<1>5. TextOf(Pad2(h), 2) /\ TextOf(Pad2(m), 2)
  BY PadReads
<1> HIDE DEF x, c
<1>6. ((x \o Pad2(h)) \o c) \o Pad2(m) = x \o ((Pad2(h) \o c) \o Pad2(m))
  <2> DEFINE p == Pad2(h)
             q == Pad2(m)
  <2> HIDE DEF p, q
  <2>1. x \in Seq(Symbols)
    BY <1>3 DEF TextOf
  <2>2. c \in Seq(Symbols)
    BY <1>4 DEF TextOf
  <2>3. p \in Seq(Symbols)
    BY <1>5 DEF TextOf, p
  <2>4. q \in Seq(Symbols)
    BY <1>5 DEF TextOf, q
  <2>5. (x \o p) \o c = x \o (p \o c)
    BY <2>1, <2>2, <2>3, Associates
  <2>6. p \o c \in Seq(Symbols)
    BY <2>2, <2>3
  <2>7. \A y \in Seq(Symbols) : (x \o y) \o q = x \o (y \o q)
    BY <2>1, <2>4, ConcatAssociative
  <2>8. ((x \o p) \o c) \o q = x \o ((p \o c) \o q)
    BY <2>5, <2>6, <2>7, Zenon
  <2> QED BY <2>8 DEF p, q
<1>7. Stamp(d, HoursMinutes(h, m)) = x \o ((Pad2(h) \o c) \o Pad2(m))
  BY Zenon DEF Stamp, HoursMinutes, More, Both, x, c
<1> QED BY <1>6, <1>7, Zenon DEF d, x, c

\* A clock shows a time.
Shows(clock, at, seconds) ==
  /\ clock \div 10000 = HourOf(at)
  /\ (clock \div 100) % 100 = MinuteOf(at)
  /\ clock % 100 = seconds

\* The digits of a time of day show that time.
LEMMA ClockTells ==
  ASSUME NEW at, Moment(at), NEW s \in Nat, s < 60
  PROVE  Shows(Then(Then(HourOf(at), MinuteOf(at)), s), at, s)
<1>1. ASSUME NEW u \in Nat, NEW l \in Nat, l < 60
      PROVE  (100 * u + l) \div 100 = u /\ (100 * u + l) % 100 = l
  BY <1>1, SMT
<1>2. ASSUME NEW u \in Nat, NEW l \in Nat, l < 10000
      PROVE  (10000 * u + l) \div 10000 = u
  BY <1>2, SMT
<1> DEFINE h == HourOf(at)
           m == MinuteOf(at)
<1>3. h \in Nat /\ m \in Nat /\ m < 60
  BY MomentsInRange, SMT
<1> HIDE DEF h, m
<1>4. Then(h, m) = 100 * h + m /\ Then(h, m) \in Nat
  BY <1>3, SMT DEF Then
<1>5. Then(Then(h, m), s) = 100 * Then(h, m) + s
  BY <1>4, SMT DEF Then
<1>6. Then(Then(h, m), s) = 10000 * h + (100 * m + s) /\ 100 * m + s \in Nat /\ 100 * m + s < 10000
  BY <1>3, <1>4, <1>5, SMT
<1>7. Then(Then(h, m), s) \div 10000 = h
  BY <1>2, <1>3, <1>6, SMT
<1>8. Then(Then(h, m), s) \div 100 = Then(h, m) /\ Then(Then(h, m), s) % 100 = s
  BY <1>1, <1>4, <1>5, SMT
<1>9. Then(h, m) % 100 = m
  BY <1>1, <1>3, <1>4, SMT
<1> QED BY <1>7, <1>8, <1>9, SMT DEF Shows, h, m

\* A clock without seconds shows a whole minute.
LEMMA WholeMinutes ==
  ASSUME NEW h \in Nat, NEW m \in Nat
  PROVE  100 * Then(h, m) = Then(Then(h, m), 0)
BY SMT DEF Then

\* FormatLocal writes the instant in the reader's zone.
LEMMA LocalShows ==
  ASSUME NEW value, value # BadDate, Moment(value.at + Zone)
  PROVE  /\ Shows(ClockIn("local", FormatLocal(value)), value.at + Zone, 0)
         /\ DayIn(FormatLocal(value)) = DayOf(value.at + Zone)
<1> DEFINE at   == value.at + Zone
           f    == Fields(at)
           text == FormatLocal(value)
<1>1. text = Day(f) \o <<Space>> \o Pad2(f.hours) \o <<":">> \o Pad2(f.minutes)
  BY Zenon DEF FormatLocal
<1> HIDE DEF text
<1>2. Moment(at)
  OBVIOUS
<1> HIDE DEF at
<1>3. /\ Digits[f.year] = Year /\ Pad2(f.month + 1) = Pad2(9)
      /\ f.day = DayOf(at)
      /\ f.hours = HourOf(at)
      /\ f.minutes = MinuteOf(at)
      /\ f.day \in Pairs /\ f.hours \in 0 .. 23 /\ f.minutes \in 0 .. 59
  BY <1>2, FieldsAre, MomentsInRange
<1> HIDE DEF f
<1>4. f.hours \in Pairs /\ f.minutes \in Pairs
  BY <1>3 DEF Pairs
<1>5. Day(f) = DayText(f.day)
  BY <1>3, DayIs
<1> DEFINE day   == f.day
           h     == f.hours
           m     == f.minutes
           stamp == Stamp(DayText(day), HoursMinutes(h, m))
<1>6. text = stamp
  <2>1. text = DayText(day) \o <<Space>> \o Pad2(h) \o <<":">> \o Pad2(m)
    BY <1>1, <1>5, Zenon
  <2>2. DayText(day) \o <<Space>> \o Pad2(h) \o <<":">> \o Pad2(m) = stamp
    BY <1>3, <1>4, LocalIs
  <2> QED BY <2>1, <2>2, Zenon
<1>7. ClockIn("local", text) = 100 * Then(h, m) /\ DayIn(text) = day
  <2>1. ClockIn("local", stamp) = 100 * Then(h, m) /\ DayIn(stamp) = day
    BY <1>3, <1>4, LocalReads
  <2> HIDE DEF stamp
  <2> QED BY <1>6, <2>1
<1>8. 100 * Then(h, m) = Then(Then(h, m), 0)
  BY <1>3, WholeMinutes
<1>9. Shows(ClockIn("local", text), at, 0)
  <2>1. 0 \in Nat /\ 0 < 60
    OBVIOUS
  <2>2. Shows(Then(Then(HourOf(at), MinuteOf(at)), 0), at, 0)
    BY <1>2, <2>1, ClockTells
  <2>3. ClockIn("local", text) = Then(Then(HourOf(at), MinuteOf(at)), 0)
    BY <1>3, <1>7, <1>8, Zenon
  <2> QED BY <2>2, <2>3, Zenon
<1> QED BY <1>3, <1>7, <1>9 DEF text, at

\* FormatDatetime writes the day and the time in UTC.
LEMMA DatetimeIs ==
  ASSUME NEW value, value # BadDate, Moment(value.at)
  PROVE  LET at    == value.at
             day   == DayText(DayOf(at))
             clock == Time(HourOf(at), MinuteOf(at), SecondOf(at))
         IN  FormatDatetime(value) = Both(Stamp(day, clock), Utc) /\ TextOf(Utc, 2)
<1> DEFINE at   == value.at
           f    == Fields(at)
           text == FormatDatetime(value)
<1>1. text = Day(f) \o <<Space>> \o Clock(f) \o <<Space, "UTC">>
  BY Zenon DEF FormatDatetime
<1> HIDE DEF text
<1>2. Moment(at)
  OBVIOUS
<1> HIDE DEF at
<1>3. /\ Digits[f.year] = Year /\ Pad2(f.month + 1) = Pad2(9)
      /\ f.day = DayOf(at)
      /\ f.hours = HourOf(at)
      /\ f.minutes = MinuteOf(at) /\ f.seconds = SecondOf(at)
  BY <1>2, FieldsAre
<1> HIDE DEF f
<1>4. Day(f) = DayText(f.day) /\ Clock(f) = Time(f.hours, f.minutes, f.seconds)
  BY <1>3, DayIs, ClockIs
<1>5. text = Both(Stamp(DayText(f.day), Time(f.hours, f.minutes, f.seconds)), Utc)
  BY <1>1, <1>4, Zenon DEF Both, Stamp, Utc
<1>6. TextOf(Utc, 2)
  <2>1. Space \in Symbols /\ "UTC" \in Symbols
    BY DEF Symbols, Marks
  <2>2. <<Space, "UTC">> \in Seq(Symbols)
    BY <2>1
  <2>3. Len(<<Space, "UTC">>) = 2
    OBVIOUS
  <2> QED BY <2>2, <2>3 DEF TextOf, Utc
<1> QED BY <1>3, <1>5, <1>6, Zenon DEF text, at

\* FormatDatetime writes the instant in UTC.
LEMMA DatetimeShows ==
  ASSUME NEW value, value # BadDate, Moment(value.at)
  PROVE  /\ Shows(ClockIn("datetime", FormatDatetime(value)), value.at, SecondOf(value.at))
         /\ DayIn(FormatDatetime(value)) = DayOf(value.at)
<1> DEFINE at    == value.at
           day   == DayOf(at)
           h     == HourOf(at)
           m     == MinuteOf(at)
           sec   == SecondOf(at)
           text  == FormatDatetime(value)
           stamp == Both(Stamp(DayText(day), Time(h, m, sec)), Utc)
<1>1. text = stamp
  BY DatetimeIs
<1> HIDE DEF text
<1>2. Moment(at)
  OBVIOUS
<1> HIDE DEF at
<1>3. day \in Pairs /\ h \in 0 .. 23 /\ m \in 0 .. 59 /\ sec \in 0 .. 59
  BY <1>2, MomentsInRange
<1>4. h \in Pairs /\ m \in Pairs /\ sec \in Pairs
  BY <1>3 DEF Pairs
<1>5. ClockIn("datetime", text) = Then(Then(h, m), sec) /\ DayIn(text) = day
  <2>1. ClockIn("datetime", stamp) = Then(Then(h, m), sec) /\ DayIn(stamp) = day
    BY <1>3, <1>4, DatetimeReads
  <2> HIDE DEF stamp
  <2> QED BY <1>1, <2>1
<1>6. Shows(ClockIn("datetime", text), at, SecondOf(at))
  <2>1. SecondOf(at) \in Nat /\ SecondOf(at) < 60
    BY <1>2, MomentsInRange
  <2>2. Shows(Then(Then(HourOf(at), MinuteOf(at)), SecondOf(at)), at, SecondOf(at))
    BY <1>2, <2>1, ClockTells
  <2>3. ClockIn("datetime", text) = Then(Then(HourOf(at), MinuteOf(at)), SecondOf(at))
    BY <1>5, Zenon
  <2> QED BY <2>2, <2>3, Zenon
<1> QED BY <1>5, <1>6 DEF text, at

\* FormatLocalTime writes the time in the reader's zone, and a page without
\* the runtime writes the same.
LEMMA LocalTimeShows ==
  ASSUME NEW value, value # BadDate, Moment(value.at + Zone)
  PROVE  /\ Shows(NumberIn(FormatLocalTime(value)), value.at + Zone, SecondOf(value.at + Zone))
         /\ FormatLocalTime(value) = YurunaLocalTime(value)
<1> DEFINE at   == value.at + Zone
           f    == Fields(at)
           text == FormatLocalTime(value)
<1>1. text = Clock(f) /\ YurunaLocalTime(value) = Clock(f)
  <2>1. text = Clock(f)
    BY Zenon DEF FormatLocalTime
  <2>2. YurunaLocalTime(value) = Clock(f)
    BY Zenon DEF YurunaLocalTime, Clock
  <2> QED BY <2>1, <2>2
<1> HIDE DEF text
<1>2. Moment(at)
  OBVIOUS
<1> HIDE DEF at
<1>3. /\ f.hours = HourOf(at)
      /\ f.minutes = MinuteOf(at) /\ f.seconds = SecondOf(at)
      /\ f.hours \in 0 .. 23 /\ f.minutes \in 0 .. 59 /\ f.seconds \in 0 .. 59
  BY <1>2, FieldsAre, MomentsInRange
<1> HIDE DEF f
<1>4. f.hours \in Pairs /\ f.minutes \in Pairs /\ f.seconds \in Pairs
  BY <1>3 DEF Pairs
<1>5. text = Time(f.hours, f.minutes, f.seconds)
  BY <1>1, ClockIs
<1>6. NumberIn(text) = Then(Then(f.hours, f.minutes), f.seconds)
  BY <1>4, <1>5, TimeReads, Zenon
<1>7. Shows(NumberIn(text), at, SecondOf(at))
  <2>1. SecondOf(at) \in Nat /\ SecondOf(at) < 60
    BY <1>2, MomentsInRange
  <2>2. Shows(Then(Then(HourOf(at), MinuteOf(at)), SecondOf(at)), at, SecondOf(at))
    BY <1>2, <2>1, ClockTells
  <2>3. NumberIn(text) = Then(Then(HourOf(at), MinuteOf(at)), SecondOf(at))
    BY <1>3, <1>6, Zenon
  <2> QED BY <2>2, <2>3, Zenon
<1> QED BY <1>1, <1>7 DEF text, at

-----------------------------------------------------------------------------
(* Numbers: the digits in groups of three, the sign, the decimals          *)

\* A mark in front of a text changes nothing: by induction, every reading of
\* the longer text is one symbol behind.
LEMMA NumberAfterMark ==
  ASSUME NEW T, NEW text \in Seq(T), NEW c \in T, ~IsDigit(c)
  PROVE  NumberIn(<<c>> \o text) = NumberIn(text)
<1> DEFINE s == <<c>> \o text
           n == Len(text)
           q == Reading(s)
           r == Reading(text)
<1>1. n \in Nat /\ Len(s) = n + 1 /\ s[1] = c /\ \A i \in 1 .. n : s[i + 1] = text[i]
  <2>1. <<c>> \in Seq(T) /\ Len(<<c>>) = 1
    OBVIOUS
  <2>2. Len(text) \in Nat
    OBVIOUS
  <2> QED BY <2>1, <2>2
<1> HIDE DEF s, n
<1>2. Reads(q, s) /\ Reads(r, text)
  BY <1>1, ReadingReads DEF n
<1>3. /\ \A i \in 0 .. Len(s) : q[i] = ReadOne(s, q, i)
      /\ \A i \in 0 .. n : r[i] = ReadOne(text, r, i)
  BY <1>2, Zenon DEF Reads, n
<1> HIDE DEF q, r
<1> DEFINE S == {i \in Nat : i <= n => q[i + 1] = r[i]}
<1>4. 0 \in S
  <2>1. q[0] = 0 /\ r[0] = 0
    BY <1>1, <1>3 DEF ReadOne
  <2>2. q[1] = ReadOne(s, q, 1)
    BY <1>1, <1>3
  <2>3. q[1] = q[0]
    BY <1>1, <2>2 DEF ReadOne
  <2> QED BY <2>1, <2>3
<1>5. ASSUME NEW i \in Nat, i \in S PROVE i + 1 \in S
  <2> SUFFICES ASSUME i + 1 <= n PROVE q[(i + 1) + 1] = r[i + 1]
    OBVIOUS
  <2>1. /\ q[i + 1] = r[i] /\ s[(i + 1) + 1] = text[i + 1]
        /\ (i + 1) + 1 \in 0 .. Len(s) /\ i + 1 \in 0 .. n
    BY <1>1, <1>5
  <2>2. q[(i + 1) + 1] = ReadOne(s, q, (i + 1) + 1) /\ r[i + 1] = ReadOne(text, r, i + 1)
    BY <1>3, <2>1
  <2>3. ((i + 1) + 1) - 1 = i + 1 /\ (i + 1) - 1 = i /\ i + 1 # 0 /\ (i + 1) + 1 # 0
    OBVIOUS
  <2> QED BY <2>1, <2>2, <2>3 DEF ReadOne
<1> HIDE DEF S
<1>6. Nat \subseteq S
  BY <1>4, <1>5, Induction
<1>7. q[n + 1] = r[n]
  BY <1>1, <1>6 DEF S
<1>8. NumberIn(s) = q[n + 1] /\ NumberIn(text) = r[n]
  BY <1>1, NumberInIs DEF q, r, n
<1> QED BY <1>7, <1>8 DEF s

\* The function FlattenSeq defines, and the one it chooses.
Flattens(f, seqs) ==
  f = [i \in 1 .. Len(seqs) |-> IF i = 1 THEN seqs[i] ELSE f[i - 1] \o seqs[i]]
Flattening(seqs) == CHOOSE f : Flattens(f, seqs)

\* FlattenSeq is the last value of that function.
LEMMA FlattenSeqIs ==
  ASSUME NEW seqs, Len(seqs) # 0
  PROVE  Seqs!FlattenSeq(seqs) = Flattening(seqs)[Len(seqs)]
BY Zenon DEF Seqs!FlattenSeq, Flattening, Flattens

\* It exists, and each of its values is the one before with one more sequence
\* joined.
LEMMA FlatteningExists ==
  ASSUME NEW T, NEW l \in Nat \ {0}, NEW seqs, Len(seqs) = l,
         \A i \in 1 .. l : seqs[i] \in Seq(T)
  PROVE  Flattens(Flattening(seqs), seqs)
<1> DEFINE V == Seq(T)
           Step(i, s) == IF i + 2 <= l THEN s \o seqs[i + 2] ELSE s
           step == [p \in Nat \X V |-> Step(p[1], p[2])]
<1>1. ASSUME NEW i \in Nat, NEW s \in V PROVE Step(i, s) \in V
  <2>1. CASE i + 2 <= l
    <3>1. seqs[i + 2] \in Seq(T)
      BY <2>1
    <3>2. s \o seqs[i + 2] \in Seq(T)
      BY <3>1
    <3> QED BY <2>1, <3>2
  <2>2. CASE ~(i + 2 <= l)
    BY <2>2
  <2> QED BY <2>1, <2>2
<1>2. seqs[1] \in V
  OBVIOUS
<1> HIDE DEF Step, V
<1>3. step \in [Nat \X V -> V]
  BY <1>1
<1>4. \A i \in Nat, s \in V : step[<<i, s>>] = Step(i, s)
  OBVIOUS
<1> HIDE DEF step
<1>5. PICK F : Recurs(F, V, seqs[1], step)
  BY <1>2, <1>3, Recursion, Zenon
<1>6. F \in [Nat -> V] /\ F[0] = seqs[1] /\ \A i \in Nat : F[i + 1] = Step(i, F[i])
  BY <1>4, <1>5 DEF Recurs
<1> DEFINE f == [i \in 1 .. l |-> F[i - 1]]
<1>7. ASSUME NEW i \in 1 .. l
      PROVE  f[i] = IF i = 1 THEN seqs[i] ELSE f[i - 1] \o seqs[i]
  <2>1. CASE i = 1
    BY <1>6, <2>1
  <2>2. CASE i > 1
    <3>1. i - 2 \in Nat /\ (i - 2) + 1 = i - 1 /\ (i - 2) + 2 = i /\ i - 1 \in 1 .. l /\ (i - 1) - 1 = i - 2
      BY <2>2
    <3>2. f[i] = F[i - 1] /\ f[i - 1] = F[i - 2]
      BY <3>1
    <3>3. F[i - 1] = Step(i - 2, F[i - 2])
      BY <1>6, <3>1
    <3>4. Step(i - 2, F[i - 2]) = F[i - 2] \o seqs[i]
      BY <3>1 DEF Step
    <3>5. f[i] = f[i - 1] \o seqs[i]
      BY <3>2, <3>3, <3>4, Zenon
    <3> HIDE DEF f
    <3> QED BY <2>2, <3>5
  <2> QED BY <2>1, <2>2
<1>8. f = [i \in 1 .. l |-> f[i]]
  OBVIOUS
<1> HIDE DEF f
<1>9. Flattens(f, seqs)
  BY <1>7, <1>8 DEF Flattens
<1> QED BY <1>9, Zenon DEF Flattening

\* How many symbols follow a digit that so many digits follow.
Following(rest) == rest + (rest \div 3)

\* A separator comes before every third digit from the right, which is every
\* fourth symbol.
LEMMA FollowingStep ==
  ASSUME NEW rest \in Nat \ {0}
  PROVE  /\ Following(rest) \in Nat
         /\ rest % 3 # 0 => /\ Following(rest - 1) + 1 = Following(rest)
                            /\ Following(rest - 1) % 4 # 3
         /\ rest % 3 = 0 => /\ Following(rest - 1) + 2 = Following(rest)
                            /\ Following(rest - 1) % 4 # 3
                            /\ (Following(rest - 1) + 1) % 4 = 3
<1>1. PICK q \in Nat, r \in 0 .. 2 : rest = 3 * q + r /\ q = rest \div 3 /\ r = rest % 3
  <2>1. rest \div 3 \in Nat /\ rest % 3 \in 0 .. 2 /\ rest = 3 * (rest \div 3) + (rest % 3)
    OBVIOUS
  <2> QED BY <2>1
<1>2. Following(rest) = 4 * q + r
  BY <1>1 DEF Following
<1>3. CASE r = 0
  <2>1. q >= 1 /\ rest - 1 = 3 * (q - 1) + 2
    BY <1>1, <1>3
  <2>2. (rest - 1) \div 3 = q - 1
    BY <2>1, <1>1
  <2>3. Following(rest - 1) = 4 * (q - 1) + 2
    BY <1>1, <2>1, <2>2 DEF Following
  <2>4. PICK k \in Nat : k = q - 1
    BY <1>1, <2>1
  <2>5. (4 * k + 2) % 4 = 2 /\ (4 * k + 3) % 4 = 3
    OBVIOUS
  <2> QED BY <1>1, <1>2, <1>3, <2>3, <2>4, <2>5
<1>4. CASE r \in {1, 2}
  <2>1. (rest - 1) \div 3 = q
    BY <1>1, <1>4
  <2>2. Following(rest - 1) = 4 * q + (r - 1)
    BY <1>1, <2>1 DEF Following
  <2>3. (4 * q + (r - 1)) % 4 # 3
    BY <1>1, <1>4
  <2> QED BY <1>1, <1>2, <1>4, <2>2, <2>3
<1> QED BY <1>1, <1>3, <1>4

\* A part of a grouped number that so many symbols follow: separators in the
\* fourth places from the right, each after a digit, and digits elsewhere.
Placed(text, sep, following) ==
  /\ Len(text) > 0 /\ IsDigit(text[Len(text)])
  /\ \A j \in 1 .. Len(text) :
       IF (Len(text) - j + following) % 4 = 3
       THEN text[j] = sep /\ j > 1 /\ IsDigit(text[j - 1])
       ELSE IsDigit(text[j])

\* One more digit.
LEMMA DigitPlaced ==
  ASSUME NEW T, NEW text \in Seq(T), NEW sep, NEW c \in T, IsDigit(c),
         NEW k \in Nat, k % 4 # 3, Placed(text, sep, k + 1)
  PROVE  text \o <<c>> \in Seq(T) /\ Placed(text \o <<c>>, sep, k)
<1> DEFINE more == text \o <<c>>
           n == Len(text)
<1>1. /\ more \in Seq(T) /\ Len(more) = n + 1 /\ more[n + 1] = c
      /\ \A i \in 1 .. n : more[i] = text[i]
  BY Appended
<1>2. n \in Nat
  OBVIOUS
<1> HIDE DEF more, n
<1>3. ASSUME NEW j \in 1 .. n + 1
      PROVE  IF ((n + 1) - j + k) % 4 = 3
             THEN more[j] = sep /\ j > 1 /\ IsDigit(more[j - 1])
             ELSE IsDigit(more[j])
  <2>1. CASE j = n + 1
    <3>1. (n + 1) - j + k = k
      BY <1>2, <2>1
    <3> QED BY <1>1, <2>1, <3>1
  <2>2. CASE j \in 1 .. n
    <3>1. (n + 1) - j + k = n - j + (k + 1)
      BY <1>2, <2>2
    <3>2. IF (n - j + (k + 1)) % 4 = 3
          THEN text[j] = sep /\ j > 1 /\ IsDigit(text[j - 1])
          ELSE IsDigit(text[j])
      BY <2>2 DEF Placed, n
    <3>3. more[j] = text[j] /\ (j > 1 => more[j - 1] = text[j - 1])
      BY <1>1, <1>2, <2>2
    <3> QED BY <3>1, <3>2, <3>3
  <2> QED BY <1>2, <2>1, <2>2
<1>4. Placed(more, sep, k)
  BY <1>1, <1>2, <1>3 DEF Placed
<1> QED BY <1>1, <1>4 DEF more

\* A separator and one more digit.
LEMMA SeparatorPlaced ==
  ASSUME NEW T, NEW text \in Seq(T), NEW sep \in T, NEW c \in T, IsDigit(c),
         NEW k \in Nat, k % 4 # 3, (k + 1) % 4 = 3, Placed(text, sep, k + 2)
  PROVE  /\ (text \o <<sep>>) \o <<c>> \in Seq(T)
         /\ Placed((text \o <<sep>>) \o <<c>>, sep, k)
<1> DEFINE first == text \o <<sep>>
           more == first \o <<c>>
           n == Len(text)
<1>1. /\ first \in Seq(T) /\ Len(first) = n + 1 /\ first[n + 1] = sep
      /\ \A i \in 1 .. n : first[i] = text[i]
  BY Appended
<1>2. n \in Nat
  OBVIOUS
<1> HIDE DEF first
<1>3. /\ more \in Seq(T) /\ Len(more) = Len(first) + 1 /\ more[Len(first) + 1] = c
      /\ \A i \in 1 .. Len(first) : more[i] = first[i]
  BY <1>1, Appended
<1> HIDE DEF more, n
<1>4. /\ Len(more) = n + 2 /\ more[n + 2] = c /\ more[n + 1] = sep
      /\ \A i \in 1 .. n : more[i] = text[i]
  BY <1>1, <1>2, <1>3
<1>5. n > 0 /\ IsDigit(text[n])
  BY DEF Placed, n
<1>6. ASSUME NEW j \in 1 .. n + 2
      PROVE  IF ((n + 2) - j + k) % 4 = 3
             THEN more[j] = sep /\ j > 1 /\ IsDigit(more[j - 1])
             ELSE IsDigit(more[j])
  <2>1. CASE j = n + 2
    <3>1. (n + 2) - j + k = k
      BY <1>2, <2>1
    <3> QED BY <1>4, <2>1, <3>1
  <2>2. CASE j = n + 1
    <3>1. (n + 2) - j + k = k + 1 /\ j > 1 /\ j - 1 = n /\ n \in 1 .. n
      BY <1>2, <1>5, <2>2
    <3> QED BY <1>4, <1>5, <2>2, <3>1
  <2>3. CASE j \in 1 .. n
    <3>1. (n + 2) - j + k = n - j + (k + 2)
      BY <1>2, <2>3
    <3>2. IF (n - j + (k + 2)) % 4 = 3
          THEN text[j] = sep /\ j > 1 /\ IsDigit(text[j - 1])
          ELSE IsDigit(text[j])
      BY <2>3 DEF Placed, n
    <3>3. more[j] = text[j] /\ (j > 1 => more[j - 1] = text[j - 1])
      BY <1>4, <1>2, <2>3
    <3> QED BY <3>1, <3>2, <3>3
  <2> QED BY <1>2, <2>1, <2>2, <2>3
<1>7. Placed(more, sep, k)
  BY <1>2, <1>4, <1>6 DEF Placed
<1> QED BY <1>3, <1>7 DEF more, first

\* A text of two symbols.
LEMMA TwoSymbols == ASSUME NEW a, NEW b PROVE <<a>> \o <<b>> = <<a, b>>
<1> DEFINE T == {a, b}
           x == <<a>> \o <<b>>
           y == <<a, b>>
<1>1. <<a>> \in Seq(T) /\ b \in T /\ Len(<<a>>) = 1 /\ <<a>>[1] = a
  OBVIOUS
<1>2. x \in Seq(T) /\ Len(x) = 2 /\ x[1] = a /\ x[2] = b
  BY <1>1, Appended
<1>3. y \in Seq(T) /\ Len(y) = 2 /\ y[1] = a /\ y[2] = b
  OBVIOUS
<1> HIDE DEF x, y, T
<1>4. \A i \in 1 .. Len(x) : x[i] = y[i]
  BY <1>2, <1>3
<1>5. x = y
  BY <1>2, <1>3, <1>4, SeqEqual
<1> QED BY <1>5 DEF x, y

\* The sequences GroupDigits joins: each digit, some with a separator before
\* it.
Chunk(digits, sep, i) ==
  IF (Len(digits) - i + 1) % 3 = 0 /\ i > 1 THEN <<sep, digits[i]>> ELSE <<digits[i]>>
Chunks(digits, sep) == [i \in 1 .. Len(digits) |-> Chunk(digits, sep, i)]

\* GroupDigits joins them when there are more than three digits.
LEMMA GroupDigitsIs ==
  ASSUME NEW digits, NEW sep, sep # Absent, Len(digits) \in Nat, Len(digits) > 3
  PROVE  GroupDigits(digits, sep, 3) = Seqs!FlattenSeq(Chunks(digits, sep))
<1>1. ~(sep = Absent \/ 3 <= 0 \/ Len(digits) <= 3)
  OBVIOUS
<1> DEFINE joined ==
             [i \in 1 .. Len(digits) |->
                IF (Len(digits) - i + 1) % 3 = 0 /\ i > 1 THEN <<sep, digits[i]>>
                ELSE <<digits[i]>>]
<1>2. GroupDigits(digits, sep, 3) = Seqs!FlattenSeq(joined)
  BY <1>1, Zenon DEF GroupDigits
<1>3. joined = Chunks(digits, sep)
  BY Zenon DEF Chunks, Chunk
<1> QED BY <1>2, <1>3

\* The number the first digits make.
ValueOfFirst(digits, i) == Reading(digits)[i]

\* The next digit makes ten times that and the digit more.
LEMMA ValueOfNext ==
  ASSUME NEW digits \in Seq(DigitSymbols), NEW i \in 1 .. Len(digits)
  PROVE  /\ IsDigit(digits[i]) /\ digits[i] \in DigitSymbols
         /\ ValueOfFirst(digits, i) = 10 * ValueOfFirst(digits, i - 1) + DigitValue(digits[i])
         /\ ValueOfFirst(digits, 0) = 0
<1> DEFINE r == Reading(digits)
<1>1. Len(digits) \in Nat
  OBVIOUS
<1>2. Reads(r, digits)
  BY <1>1, ReadingReads
<1>3. \A k \in 0 .. Len(digits) : r[k] = ReadOne(digits, r, k)
  BY <1>2, Zenon DEF Reads
<1>4. digits[i] \in DigitSymbols
  OBVIOUS
<1>5. IsDigit(digits[i])
  BY <1>4 DEF IsDigit, DigitSymbols
<1> HIDE DEF r
<1>6. r[i] = ReadOne(digits, r, i) /\ r[0] = ReadOne(digits, r, 0)
  BY <1>1, <1>3
<1>7. r[i] = 10 * r[i - 1] + DigitValue(digits[i]) /\ r[0] = 0
  BY <1>1, <1>5, <1>6 DEF ReadOne
<1> QED BY <1>4, <1>5, <1>7 DEF ValueOfFirst, r

\* The first digits of a number, grouped.
GroupedFirst(text, digits, sep, i) ==
  /\ text \in Seq(DigitSymbols \cup {sep})
  /\ Placed(text, sep, Following(Len(digits) - i))
  /\ NumberIn(text) = ValueOfFirst(digits, i)

\* The first digit has no separator before it.
LEMMA FirstGrouped ==
  ASSUME NEW digits \in Seq(DigitSymbols), Len(digits) > 0, NEW sep
  PROVE  GroupedFirst(Chunk(digits, sep, 1), digits, sep, 1)
<1> DEFINE text == <<digits[1]>>
           T    == DigitSymbols \cup {sep}
           rest == Len(digits) - 1
<1>1. /\ IsDigit(digits[1]) /\ digits[1] \in DigitSymbols
      /\ ValueOfFirst(digits, 1) = 10 * ValueOfFirst(digits, 1 - 1) + DigitValue(digits[1])
      /\ ValueOfFirst(digits, 0) = 0
  BY ValueOfNext
<1>2. text \in Seq(T) /\ Len(text) = 1 /\ text[1] = digits[1]
  BY <1>1
<1>3. Chunk(digits, sep, 1) = text
  BY DEF Chunk
<1>4. rest \in Nat /\ (rest + 1) - 1 = rest
  OBVIOUS
<1> HIDE DEF text, T, rest
<1>5. Following(rest) \in Nat /\ Following(rest) % 4 # 3
  BY <1>4 DEF Following
<1>6. Placed(text, sep, Following(rest))
  <2>1. ASSUME NEW j \in 1 .. Len(text) PROVE j = 1 /\ Len(text) - j + Following(rest) = Following(rest)
    BY <1>2, <1>5
  <2> QED BY <1>1, <1>2, <1>5, <2>1 DEF Placed
<1>7. NumberIn(text) = DigitValue(digits[1])
  <2>1. <<>> \in Seq(T) /\ digits[1] \in T
    BY <1>1 DEF T
  <2>2. NumberIn(<<>> \o <<digits[1]>>) = 10 * NumberIn(<<>>) + DigitValue(digits[1])
    BY <1>1, <2>1, NumberOfMore
  <2>3. <<>> \o <<digits[1]>> = text
    BY <1>2, ConcatEmptySeq DEF text
  <2>4. DigitValue(digits[1]) \in 0 .. 9
    BY <1>1, DigitsHaveValues
  <2> QED BY <2>2, <2>3, <2>4, NumberOfEmpty
<1>8. ValueOfFirst(digits, 1) = DigitValue(digits[1])
  <2>1. DigitValue(digits[1]) \in 0 .. 9 /\ 1 - 1 = 0
    BY <1>1, DigitsHaveValues
  <2> QED BY <1>1, <2>1
<1> QED BY <1>2, <1>3, <1>6, <1>7, <1>8 DEF GroupedFirst, T, rest

\* The next digit, with its separator if it has one.
LEMMA NextGrouped ==
  ASSUME NEW digits \in Seq(DigitSymbols), NEW sep, ~IsDigit(sep), NEW i \in 2 .. Len(digits),
         NEW text, GroupedFirst(text, digits, sep, i - 1)
  PROVE  GroupedFirst(text \o Chunk(digits, sep, i), digits, sep, i)
<1> DEFINE T    == DigitSymbols \cup {sep}
           c    == digits[i]
           rest == Len(digits) - i + 1
<1>1. /\ IsDigit(c) /\ c \in DigitSymbols
      /\ ValueOfFirst(digits, i) = 10 * ValueOfFirst(digits, i - 1) + DigitValue(c)
  BY ValueOfNext
<1>2. /\ rest \in Nat \ {0} /\ Len(digits) - (i - 1) = rest
      /\ Len(digits) - i = rest - 1 /\ rest - 1 \in Nat
  OBVIOUS
<1>3. sep \in T /\ c \in T
  BY <1>1
<1>4. Chunk(digits, sep, i) = IF rest % 3 = 0 THEN <<sep, c>> ELSE <<c>>
  BY DEF Chunk
<1> HIDE DEF T, c, rest
<1>5. /\ text \in Seq(T) /\ Placed(text, sep, Following(rest))
      /\ NumberIn(text) = ValueOfFirst(digits, i - 1)
  BY <1>2 DEF GroupedFirst, T
<1>6. Following(rest - 1) \in Nat
  BY <1>2 DEF Following
<1> DEFINE k == Following(rest - 1)
<1>7. CASE rest % 3 # 0
  <2>1. k + 1 = Following(rest) /\ k % 4 # 3
    BY <1>2, <1>7, FollowingStep
  <2> HIDE DEF k
  <2>2. text \o <<c>> \in Seq(T) /\ Placed(text \o <<c>>, sep, k)
    BY <1>1, <1>3, <1>5, <1>6, <2>1, DigitPlaced DEF k
  <2>3. NumberIn(text \o <<c>>) = 10 * NumberIn(text) + DigitValue(c)
    BY <1>1, <1>3, <1>5, NumberOfMore
  <2>4. Chunk(digits, sep, i) = <<c>>
    BY <1>4, <1>7
  <2> QED BY <1>1, <1>2, <1>5, <2>2, <2>3, <2>4, Zenon DEF GroupedFirst, T, c, k
<1>8. CASE rest % 3 = 0
  <2> DEFINE first == text \o <<sep>>
  <2>1. k + 2 = Following(rest) /\ k % 4 # 3 /\ (k + 1) % 4 = 3
    BY <1>2, <1>8, FollowingStep
  <2> HIDE DEF k
  <2>2. first \o <<c>> \in Seq(T) /\ Placed(first \o <<c>>, sep, k)
    BY <1>1, <1>3, <1>5, <1>6, <2>1, SeparatorPlaced DEF k
  <2>3. NumberIn(first) = NumberIn(text) /\ first \in Seq(T)
    BY <1>3, <1>5, NumberOfMore, Appended
  <2> HIDE DEF first
  <2>4. NumberIn(first \o <<c>>) = 10 * NumberIn(first) + DigitValue(c)
    BY <1>1, <1>3, <2>3, NumberOfMore
  <2>5. text \o Chunk(digits, sep, i) = first \o <<c>>
    <3>1. <<sep>> \in Seq(T) /\ <<c>> \in Seq(T)
      BY <1>3
    <3>2. (text \o <<sep>>) \o <<c>> = text \o (<<sep>> \o <<c>>)
      BY <1>5, <3>1, Associates
    <3>3. <<sep>> \o <<c>> = <<sep, c>>
      BY TwoSymbols
    <3> QED BY <1>4, <1>8, <3>2, <3>3, Zenon DEF first
  <2> QED BY <1>1, <1>2, <1>5, <2>2, <2>3, <2>4, <2>5, Zenon DEF GroupedFirst, T, c, k
<1> QED BY <1>7, <1>8

\* By induction over the digits, a grouped number has its separators in place
\* and reads back as the number.
LEMMA GroupedNumber ==
  ASSUME NEW digits \in Seq(DigitSymbols), Len(digits) > 0,
         NEW sep, sep \notin DigitSymbols, sep # Absent
  PROVE  LET whole == GroupDigits(digits, sep, 3)
         IN  /\ whole \in Seq(DigitSymbols \cup {sep}) /\ Placed(whole, sep, 0)
             /\ NumberIn(whole) = NumberIn(digits)
<1> DEFINE T == DigitSymbols \cup {sep}
           l == Len(digits)
<1>1. l \in Nat \ {0} /\ l = Len(digits)
  OBVIOUS
<1>2. ~IsDigit(sep)
  BY DEF IsDigit, DigitSymbols
<1>3. ASSUME NEW j \in 1 .. l PROVE digits[j] \in DigitSymbols /\ IsDigit(digits[j])
  <2>1. digits[j] \in DigitSymbols
    BY <1>3
  <2> QED BY <2>1 DEF IsDigit, DigitSymbols
<1>4. CASE l <= 3
  <2>1. GroupDigits(digits, sep, 3) = digits
    BY <1>4 DEF GroupDigits
  <2>2. digits \in Seq(T)
    <3>1. DigitSymbols \subseteq T
      OBVIOUS
    <3> QED BY <3>1, SeqMonotonic
  <2>3. Placed(digits, sep, 0)
    <3>1. ASSUME NEW j \in 1 .. l PROVE (l - j + 0) % 4 # 3
      BY <1>1, <1>4
    <3>2. l \in 1 .. l
      BY <1>1
    <3> QED BY <1>1, <1>3, <3>1, <3>2 DEF Placed
  <2> QED BY <2>1, <2>2, <2>3
<1>5. CASE l > 3
  <2> DEFINE seqs == Chunks(digits, sep)
             f    == Flattening(seqs)
             S    == {i \in Nat : i + 1 <= l => GroupedFirst(f[i + 1], digits, sep, i + 1)}
  <2>1. Len(seqs) = l /\ \A i \in 1 .. l : seqs[i] = Chunk(digits, sep, i)
    BY <1>1 DEF Chunks
  <2>2. GroupDigits(digits, sep, 3) = f[l]
    <3>1. GroupDigits(digits, sep, 3) = Seqs!FlattenSeq(seqs)
      BY <1>1, <1>5, GroupDigitsIs
    <3>2. Len(seqs) # 0
      BY <1>1, <2>1
    <3> HIDE DEF seqs
    <3>3. Seqs!FlattenSeq(seqs) = f[Len(seqs)]
      BY <3>2, FlattenSeqIs
    <3> QED BY <2>1, <3>1, <3>3, Zenon
  <2> HIDE DEF seqs
  <2>3. \A i \in 1 .. l : seqs[i] \in Seq(T)
    <3>1. ASSUME NEW i \in 1 .. l PROVE Chunk(digits, sep, i) \in Seq(T)
      <4>1. digits[i] \in T /\ sep \in T
        BY <1>3
      <4> HIDE DEF T
      <4>2. <<digits[i]>> \in Seq(T) /\ <<sep, digits[i]>> \in Seq(T)
        BY <4>1
      <4> QED BY <4>2, Zenon DEF Chunk
    <3> QED BY <2>1, <3>1
  <2> HIDE DEF T
  <2>4. Flattens(f, seqs)
    BY <1>1, <2>1, <2>3, FlatteningExists
  <2>5. \A i \in 1 .. l : f[i] = IF i = 1 THEN seqs[i] ELSE f[i - 1] \o seqs[i]
    BY <2>1, <2>4, Zenon DEF Flattens
  <2> HIDE DEF f
  <2>6. 0 \in S
    <3>1. f[1] = Chunk(digits, sep, 1)
      BY <1>1, <2>1, <2>5
    <3>2. GroupedFirst(Chunk(digits, sep, 1), digits, sep, 1)
      BY FirstGrouped
    <3> QED BY <3>1, <3>2
  <2>7. ASSUME NEW i \in Nat, i \in S PROVE i + 1 \in S
    <3> DEFINE m == (i + 1) + 1
    <3> SUFFICES ASSUME m <= l PROVE GroupedFirst(f[m], digits, sep, m)
      OBVIOUS
    <3>1. m \in 2 .. l /\ m \in 1 .. l /\ m - 1 = i + 1 /\ i + 1 <= l /\ m # 1
      OBVIOUS
    <3>2. GroupedFirst(f[i + 1], digits, sep, i + 1)
      BY <2>7, <3>1
    <3> HIDE DEF m
    <3>3. f[m] = f[i + 1] \o Chunk(digits, sep, m)
      BY <2>1, <2>5, <3>1
    <3>4. GroupedFirst(f[i + 1] \o Chunk(digits, sep, m), digits, sep, m)
      BY <1>2, <3>1, <3>2, NextGrouped
    <3> QED BY <3>3, <3>4
  <2> HIDE DEF S
  <2>8. Nat \subseteq S
    BY <2>6, <2>7, Induction
  <2>9. GroupedFirst(f[l], digits, sep, l)
    <3>1. l - 1 \in S /\ (l - 1) + 1 = l
      BY <1>1, <2>8
    <3> QED BY <3>1 DEF S
  <2>10. Following(Len(digits) - l) = 0
    BY <1>1 DEF Following
  <2>11. ValueOfFirst(digits, l) = NumberIn(digits)
    BY NumberInIs DEF ValueOfFirst
  <2> QED BY <2>2, <2>9, <2>10, <2>11 DEF GroupedFirst, T
<1> QED BY <1>1, <1>4, <1>5

\* The sign and the grouped whole part of a number.
Body(text, sep, minus, negative) ==
  /\ Len(text) > 0 /\ (text[1] = minus) = negative
  /\ \A i \in 1 .. Len(text) :
       IF text[i] = minus THEN i = 1
       ELSE IF (Len(text) - i) % 4 = 3
       THEN text[i] = sep /\ i > 1 /\ IsDigit(text[i - 1])
       ELSE IsDigit(text[i])

\* Without a sign.
LEMMA UnsignedBody ==
  ASSUME NEW T, NEW text \in Seq(T), NEW sep, NEW minus, ~IsDigit(minus), minus # sep,
         Placed(text, sep, 0)
  PROVE  Body(text, sep, minus, FALSE)
<1>1. Len(text) \in Nat /\ Len(text) > 0
  BY DEF Placed
<1>2. ASSUME NEW i \in 1 .. Len(text)
      PROVE  /\ text[i] # minus
             /\ IF (Len(text) - i) % 4 = 3
                THEN text[i] = sep /\ i > 1 /\ IsDigit(text[i - 1])
                ELSE IsDigit(text[i])
  <2>1. Len(text) - i + 0 = Len(text) - i
    BY <1>1
  <2> QED BY <2>1 DEF Placed
<1>3. 1 \in 1 .. Len(text)
  BY <1>1
<1>4. text[1] # minus
  BY <1>2, <1>3
<1> QED BY <1>1, <1>2, <1>4 DEF Body

\* With a sign in front.
LEMMA SignedBody ==
  ASSUME NEW T, NEW text \in Seq(T), NEW sep, NEW minus \in T, ~IsDigit(minus), minus # sep,
         Placed(text, sep, 0)
  PROVE  /\ <<minus>> \o text \in Seq(T)
         /\ Body(<<minus>> \o text, sep, minus, TRUE)
<1> DEFINE s == <<minus>> \o text
           n == Len(text)
<1>1. s \in Seq(T) /\ Len(s) = n + 1 /\ s[1] = minus /\ \A i \in 1 .. n : s[i + 1] = text[i]
  <2>1. <<minus>> \in Seq(T) /\ Len(<<minus>>) = 1
    OBVIOUS
  <2>2. Len(text) \in Nat
    OBVIOUS
  <2> QED BY <2>1, <2>2
<1>2. n \in Nat
  OBVIOUS
<1> HIDE DEF s, n
<1>3. ASSUME NEW i \in 2 .. n + 1
      PROVE  /\ s[i] # minus
             /\ IF ((n + 1) - i) % 4 = 3
                THEN s[i] = sep /\ i > 1 /\ IsDigit(s[i - 1])
                ELSE IsDigit(s[i])
  <2>1. PICK j \in 1 .. n : i = j + 1
    <3>1. i - 1 \in 1 .. n /\ i = (i - 1) + 1
      BY <1>2
    <3> QED BY <3>1
  <2>2. n - j + 0 = (n + 1) - i
    BY <1>2, <2>1
  <2>3. IF ((n + 1) - i) % 4 = 3
        THEN text[j] = sep /\ j > 1 /\ IsDigit(text[j - 1])
        ELSE IsDigit(text[j])
    BY <2>2 DEF Placed, n
  <2>4. s[i] = text[j] /\ (j > 1 => s[i - 1] = text[j - 1])
    <3>1. j > 1 => (j - 1 \in 1 .. n /\ (j - 1) + 1 = i - 1)
      BY <1>2, <2>1
    <3> QED BY <1>1, <2>1, <3>1
  <2> QED BY <2>1, <2>3, <2>4
<1>4. ASSUME NEW i \in 1 .. n + 1
      PROVE  IF s[i] = minus THEN i = 1
             ELSE IF ((n + 1) - i) % 4 = 3
             THEN s[i] = sep /\ i > 1 /\ IsDigit(s[i - 1])
             ELSE IsDigit(s[i])
  <2>1. CASE i = 1
    BY <1>1, <2>1
  <2>2. CASE i \in 2 .. n + 1
    BY <1>3, <2>2
  <2> QED BY <1>2, <2>1, <2>2
<1>5. Body(s, sep, minus, TRUE)
  BY <1>1, <1>2, <1>4 DEF Body
<1> QED BY <1>1, <1>5 DEF s

\* The sign of a negative number.
Minus == "-"

\* The symbols of a number in a locale.
NumberSymbols(d) == DigitSymbols \cup {d.group, d.decimal, Minus}

\* The sign is no digit.
LEMMA MinusIsNoDigit == ~IsDigit(Minus)
BY DigitTable DEF IsDigit, Minus

\* The separators of every locale, the default's for a locale without data.
LEMMA SeparatorsOfTag ==
  ASSUME NEW tag
  PROVE  LET d == DataFor(tag)
         IN  /\ d.groupSize = 3
             /\ d.group \notin DigitSymbols /\ d.group # Absent /\ Minus # d.group
             /\ d.decimal \notin DigitSymbols
<1>1. PICK t \in DOMAIN LocaleData : DataFor(tag) = LocaleData[t]
  BY LocalesAssumption, Zenon DEF DataFor
<1>2. /\ LocaleData[t].groupSize = 3
      /\ {LocaleData[t].group, LocaleData[t].decimal} \cap (DigitSymbols \cup {Absent, Minus}) = {}
  BY SeparatorsAssumption, Zenon DEF Minus
<1> QED BY <1>1, <1>2

\* What FormatNumber writes for the sign and the whole part.
BodyText(d, n, negative) ==
  (IF negative THEN <<Minus>> ELSE <<>>) \o GroupDigits(Digits[n], d.group, d.groupSize)

\* It has its sign and its separators in place and reads back as the number.
LEMMA BodyReads ==
  ASSUME NEW tag, NEW n \in Nat, NEW negative \in BOOLEAN
  PROVE  LET d    == DataFor(tag)
             body == BodyText(d, n, negative)
         IN  /\ body \in Seq(NumberSymbols(d))
             /\ Body(body, d.group, Minus, negative)
             /\ NumberIn(body) = n
<1> DEFINE d     == DataFor(tag)
           whole == GroupDigits(Digits[n], d.group, 3)
           T     == NumberSymbols(d)
<1>1. /\ d.groupSize = 3
      /\ d.group \notin DigitSymbols /\ d.group # Absent /\ Minus # d.group
  BY SeparatorsOfTag
<1> HIDE DEF d
<1>2. Digits[n] \in Seq(DigitSymbols) /\ Len(Digits[n]) > 0 /\ NumberIn(Digits[n]) = n
  BY DigitsType, NumberOfDigits
<1>3. /\ whole \in Seq(DigitSymbols \cup {d.group}) /\ Placed(whole, d.group, 0)
      /\ NumberIn(whole) = n
  BY <1>1, <1>2, GroupedNumber
<1>4. BodyText(d, n, negative) = (IF negative THEN <<Minus>> ELSE <<>>) \o whole
  BY <1>1, Zenon DEF BodyText
<1> HIDE DEF whole
<1>5. whole \in Seq(T)
  <2>1. DigitSymbols \cup {d.group} \subseteq T
    BY DEF NumberSymbols
  <2> QED BY <1>3, <2>1, SeqMonotonic
<1>6. Minus \in T
  BY DEF NumberSymbols
<1> HIDE DEF T
<1>7. CASE ~negative
  <2>1. BodyText(d, n, negative) = whole
    BY <1>4, <1>5, <1>7, ConcatEmptySeq
  <2>2. Body(whole, d.group, Minus, FALSE)
    BY <1>1, <1>3, <1>5, MinusIsNoDigit, UnsignedBody
  <2>3. negative = FALSE
    BY <1>7
  <2> QED BY <1>3, <1>5, <2>1, <2>2, <2>3, Zenon DEF d, T
<1>8. CASE negative
  <2>1. BodyText(d, n, negative) = <<Minus>> \o whole
    BY <1>4, <1>8
  <2>2. <<Minus>> \o whole \in Seq(T) /\ Body(<<Minus>> \o whole, d.group, Minus, TRUE)
    BY <1>1, <1>3, <1>5, <1>6, MinusIsNoDigit, SignedBody
  <2>3. NumberIn(<<Minus>> \o whole) = NumberIn(whole)
    BY <1>5, <1>6, MinusIsNoDigit, NumberAfterMark
  <2>4. negative = TRUE
    BY <1>8
  <2> QED BY <1>3, <2>1, <2>2, <2>3, <2>4, Zenon DEF d, T
<1> QED BY <1>7, <1>8

\* A decimal mark and two digits after it, read back.
LEMMA DecimalsRead ==
  ASSUME NEW T, NEW body \in Seq(T), DigitSymbols \subseteq T,
         NEW mark \in T, mark \notin DigitSymbols, NEW k \in Pairs
  PROVE  LET text == body \o (<<mark>> \o Pad2(k))
         IN  /\ Len(text) = Len(body) + 3
             /\ \A i \in 1 .. Len(body) : text[i] = body[i]
             /\ text[Len(body) + 1] = mark
             /\ NumberIn(text) = Then(NumberIn(body), k)
<1> DEFINE first == body \o <<mark>>
           last  == Pad2(k)
           text  == first \o last
           n     == Len(body)
<1>1. /\ first \in Seq(T) /\ Len(first) = n + 1 /\ first[n + 1] = mark
      /\ \A i \in 1 .. n : first[i] = body[i]
  BY Appended
<1>2. NumberIn(first) = NumberIn(body)
  BY NumberOfMark
<1>3. /\ last \in Seq(DigitSymbols) /\ Len(last) = 2
      /\ Len(text) = Len(first) + 2 /\ NumberIn(text) = Then(NumberIn(first), k)
  <2> HIDE DEF first
  <2> QED BY <1>1, NumberOfPair
<1>4. last \in Seq(T) /\ <<mark>> \in Seq(T)
  <2>1. last \in Seq(T)
    BY <1>3, SeqMonotonic
  <2>2. <<mark>> \in Seq(T)
    OBVIOUS
  <2> QED BY <2>1, <2>2
<1> HIDE DEF last
<1>5. text = body \o (<<mark>> \o last)
  BY <1>4, Associates
<1> HIDE DEF first
<1>6. \A i \in 1 .. Len(first) : text[i] = first[i]
  BY <1>1, <1>4, Joined
<1>7. n \in Nat
  OBVIOUS
<1> HIDE DEF n, text
<1>8. /\ Len(text) = n + 3 /\ text[n + 1] = mark /\ NumberIn(text) = Then(NumberIn(body), k)
      /\ \A i \in 1 .. n : text[i] = body[i]
  BY <1>1, <1>2, <1>3, <1>6, <1>7
<1> QED BY <1>5, <1>8, Zenon DEF n, last

\* The number of units a text shows.
Units(value, places) == Rounded(Abs(value.num), value.den, places.scale, places.binary)

\* It is the nearest number of units, the even one of two.
LEMMA UnitsRound ==
  ASSUME NEW value, value.num \in Int, value.den \in Nat \ {0}, value.den % 5 # 0,
         NEW places \in {Integral, Decimal}
  PROVE  /\ Units(value, places) \in Nat
         /\ IsHalfEven(Units(value, places), Abs(value.num), value.den, places.scale)
<1>1. Abs(value.num) \in Nat
  BY DEF Abs
<1>2. places \in Places
  BY DEF Places, Integral, Decimal
<1>3. NoFive(value.den)
  BY DivideByTwentyFive
<1> QED BY <1>1, <1>2, <1>3, RoundedNat, RoundsHalfEven DEF Units

\* The two counts of decimals.
LEMMA PlacesAre ==
  /\ Integral.scale = 1 /\ Decimal.scale = 100 /\ Integral # Decimal
  BY DEF Integral, Decimal

\* FormatNumber writes the body alone without decimals.
LEMMA IntegerText ==
  ASSUME NEW value, value.finite, Units(value, Integral) \in Nat, NEW tag
  PROVE  LET body == BodyText(DataFor(tag), Units(value, Integral), value.num < 0)
         IN  FormatNumber(value, tag, Integral) = body \o <<>>
<1> DEFINE n == Units(value, Integral)
<1>1. n \div Integral.scale = n
  BY PlacesAre
<1>2. FormatNumber(value, tag, Integral) =
        BodyText(DataFor(tag), n \div Integral.scale, value.num < 0) \o <<>>
  BY Zenon DEF FormatNumber, Units, BodyText, Minus
<1> HIDE DEF n
<1> QED BY <1>1, <1>2, Zenon DEF n

\* And the body, the decimal mark and two digits with them.
LEMMA DecimalText ==
  ASSUME NEW value, value.finite, NEW tag
  PROVE  LET n    == Units(value, Decimal)
             body == BodyText(DataFor(tag), n \div 100, value.num < 0)
         IN  FormatNumber(value, tag, Decimal) =
               body \o (<<DataFor(tag).decimal>> \o Pad2(n % 100))
<1> DEFINE n == Units(value, Decimal)
           s == Decimal.scale
<1>1. s = 100 /\ Decimal # Integral
  BY PlacesAre
<1>2. FormatNumber(value, tag, Decimal) =
        BodyText(DataFor(tag), n \div s, value.num < 0)
          \o (<<DataFor(tag).decimal>> \o Pad2(n % s))
  BY <1>1, Zenon DEF FormatNumber, Units, BodyText, Minus
<1> HIDE DEF n, s
<1> QED BY <1>1, <1>2 DEF n

\* An integer, read back.
LEMMA IntegersRead ==
  ASSUME NEW value, value.finite, value.num \in Int, value.den \in Nat \ {0},
         value.den % 5 # 0, NEW tag
  PROVE  ReadsBack(FormatNumber(value, tag, Integral), value, tag, Integral)
<1> DEFINE n    == Units(value, Integral)
           d    == DataFor(tag)
           neg  == value.num < 0
           body == BodyText(d, n, neg)
<1>1. n \in Nat /\ IsHalfEven(n, Abs(value.num), value.den, Integral.scale)
  BY UnitsRound
<1>2. neg \in BOOLEAN
  OBVIOUS
<1> HIDE DEF n, neg
<1>3. body \in Seq(NumberSymbols(d)) /\ Body(body, d.group, Minus, neg) /\ NumberIn(body) = n
  BY <1>1, <1>2, BodyReads
<1>4. FormatNumber(value, tag, Integral) = body \o <<>>
  BY <1>1, IntegerText DEF n, neg
<1> HIDE DEF body
<1>5. FormatNumber(value, tag, Integral) = body
  BY <1>3, <1>4, ConcatEmptySeq
<1> DEFINE text == FormatNumber(value, tag, Integral)
<1> HIDE DEF text
<1>6. text = body
  BY <1>5 DEF text
<1>7. /\ IsHalfEven(NumberIn(text), Abs(value.num), value.den, Integral.scale)
      /\ (text[1] = "-") = (value.num < 0)
      /\ \A i \in 1 .. Len(text) :
           IF text[i] = "-" THEN i = 1
           ELSE IF (Len(text) - i) % 4 = 3
           THEN text[i] = d.group /\ i > 1 /\ IsDigit(text[i - 1])
           ELSE IsDigit(text[i])
  BY <1>1, <1>3, <1>6, Zenon DEF Body, Minus, neg
<1> HIDE DEF d
<1>8. ReadsBack(text, value, tag, Integral)
  BY <1>7, SMT DEF ReadsBack, d
<1> QED BY <1>8 DEF text

\* A decimal, read back.
LEMMA DecimalsReadBack ==
  ASSUME NEW value, value.finite, value.num \in Int, value.den \in Nat \ {0},
         value.den % 5 # 0, NEW tag
  PROVE  ReadsBack(FormatNumber(value, tag, Decimal), value, tag, Decimal)
<1> DEFINE n    == Units(value, Decimal)
           d    == DataFor(tag)
           neg  == value.num < 0
           q    == n \div 100
           k    == n % 100
           body == BodyText(d, q, neg)
           T    == NumberSymbols(d)
           text == FormatNumber(value, tag, Decimal)
<1>1. n \in Nat /\ IsHalfEven(n, Abs(value.num), value.den, Decimal.scale)
  BY UnitsRound
<1>2. neg \in BOOLEAN
  OBVIOUS
<1>3. text = body \o (<<d.decimal>> \o Pad2(k))
  BY DecimalText
<1> HIDE DEF n, neg, text
<1>4. q \in Nat /\ k \in Pairs /\ Then(q, k) = n
  BY <1>1 DEF Pairs, Then
<1> HIDE DEF q, k
<1>5. body \in Seq(T) /\ Body(body, d.group, Minus, neg) /\ NumberIn(body) = q
  BY <1>2, <1>4, BodyReads
<1>6. d.decimal \in T /\ d.decimal \notin DigitSymbols /\ DigitSymbols \subseteq T
  BY SeparatorsOfTag DEF NumberSymbols
<1> HIDE DEF body, T, d
<1>7. /\ Len(text) = Len(body) + 3
      /\ \A i \in 1 .. Len(body) : text[i] = body[i]
      /\ text[Len(body) + 1] = d.decimal
      /\ NumberIn(text) = Then(NumberIn(body), k)
  BY <1>3, <1>4, <1>5, <1>6, DecimalsRead
<1>8. Len(body) \in Nat /\ Len(body) > 0
  BY <1>5 DEF Body
<1> DEFINE w == Len(text) - 2 - 1
<1>9. w = Len(body) /\ w \in Nat /\ w > 0
  BY <1>7, <1>8
<1> HIDE DEF w
<1>10. \A i \in 1 .. w :
         IF body[i] = Minus THEN i = 1
         ELSE IF (w - i) % 4 = 3
         THEN body[i] = d.group /\ i > 1 /\ IsDigit(body[i - 1])
         ELSE IsDigit(body[i])
  BY <1>5, <1>9 DEF Body
<1>11. /\ (text[1] = Minus) = neg
       /\ \A i \in 1 .. w :
            IF text[i] = Minus THEN i = 1
            ELSE IF (w - i) % 4 = 3
            THEN text[i] = d.group /\ i > 1 /\ IsDigit(text[i - 1])
            ELSE IsDigit(text[i])
  <2>1. \A i \in 1 .. w : text[i] = body[i]
    BY <1>7, <1>9
  <2>2. text[1] = body[1]
    BY <1>9, <2>1
  <2>3. (body[1] = Minus) = neg
    BY <1>5, Zenon DEF Body
  <2>4. ASSUME NEW i \in 1 .. w
        PROVE  IF text[i] = Minus THEN i = 1
               ELSE IF (w - i) % 4 = 3
               THEN text[i] = d.group /\ i > 1 /\ IsDigit(text[i - 1])
               ELSE IsDigit(text[i])
    <3>1. i > 1 => i - 1 \in 1 .. w
      BY <1>9
    <3> QED BY <1>10, <2>1, <3>1
  <2> QED BY <2>2, <2>3, <2>4, Zenon
<1>12. NumberIn(text) = n
  BY <1>4, <1>5, <1>7
<1>13. text[w + 1] = d.decimal
  BY <1>7, <1>9
<1>14. /\ IsHalfEven(NumberIn(text), Abs(value.num), value.den, Decimal.scale)
       /\ (text[1] = "-") = (value.num < 0)
       /\ text[w + 1] = DataFor(tag).decimal
       /\ \A i \in 1 .. w :
            IF text[i] = "-" THEN i = 1
            ELSE IF (w - i) % 4 = 3
            THEN text[i] = DataFor(tag).group /\ i > 1 /\ IsDigit(text[i - 1])
            ELSE IsDigit(text[i])
  BY <1>1, <1>11, <1>12, <1>13, Zenon DEF Minus, neg, d
<1>15. ReadsBack(text, value, tag, Decimal)
  <2>1. Decimal # Integral /\ 2 # 0
    BY PlacesAre
  <2> QED BY <1>14, <2>1, Zenon DEF ReadsBack, w
<1> QED BY <1>15 DEF text
=============================================================================
