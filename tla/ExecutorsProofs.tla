-------------------------- MODULE ExecutorsProofs ---------------------------
(***************************************************************************)
(* The executors compute what RV32I defines, for words of every width and  *)
(* all operands.  Bits are quotients by powers of two; what holds for all  *)
(* of them is proved by induction, in the form that a set of numbers has a *)
(* least one.                                                              *)
(***************************************************************************)
EXTENDS Executors, TLAPS, WellFoundedInduction

-----------------------------------------------------------------------------
(* Induction, and the powers of two.                                       *)

\* A set of numbers that is not empty has a least element: the form in which the
\* proofs below use induction, with the set of counterexamples.
LEMMA LeastNumber ==
  ASSUME NEW S \in SUBSET Nat, S # {}
  PROVE  \E m \in S : \A k \in S : m <= k
<1> DEFINE R == {ss \in Nat \X Nat : ss[1] < ss[2]}
<1>1. IsWellFoundedOn(R, Nat)
  BY NatLessThanWellFounded DEF OpToRel
<1>2. PICK m \in S : \A k \in S : <<k, m>> \notin R
  <2> HIDE DEF R
  <2> QED BY <1>1, WFMin
<1>3. ASSUME NEW k \in S PROVE m <= k
  <2>1. <<k, m>> \in Nat \X Nat /\ <<k, m>>[1] = k /\ <<k, m>>[2] = m
    OBVIOUS
  <2>2. ~(k < m)
    BY <1>2, <2>1
  <2> QED BY <2>2
<1> QED BY <1>3

\* The beginnings of Power up to n.
Powers(n) ==
  {g \in [0 .. n -> Nat] : g[0] = 1 /\ \A i \in 1 .. n : g[i] = 2 * g[i - 1]}

LEMMA PowersExist == \A n \in Nat : Powers(n) # {}
<1> DEFINE S == {n \in Nat : Powers(n) = {}}
<1> SUFFICES ASSUME S # {} PROVE FALSE
  OBVIOUS
<1>1. PICK m \in S : \A k \in S : m <= k
  BY LeastNumber
<1>2. CASE m = 0
  <2>1. [i \in 0 .. 0 |-> 1] \in Powers(0)
    BY DEF Powers
  <2> QED BY <1>2, <2>1
<1>3. CASE m # 0
  <2>1. m - 1 \in Nat /\ m - 1 \notin S
    BY <1>1, <1>3
  <2>2. PICK g \in Powers(m - 1) : TRUE
    BY <2>1
  <2> DEFINE h == [i \in 0 .. m |-> IF i = m THEN 2 * g[m - 1] ELSE g[i]]
  <2>3. g \in [0 .. m - 1 -> Nat] /\ g[0] = 1 /\ \A i \in 1 .. m - 1 : g[i] = 2 * g[i - 1]
    BY <2>2 DEF Powers
  <2>4. h \in [0 .. m -> Nat] /\ h[0] = 1
    BY <2>1, <2>3
  <2>5. \A i \in 1 .. m : h[i] = 2 * h[i - 1]
    BY <2>1, <2>3
  <2>6. h \in Powers(m)
    BY <2>4, <2>5 DEF Powers
  <2> QED BY <2>6
<1> QED BY <1>2, <1>3

LEMMA PowersAgree ==
  ASSUME NEW m \in Nat, NEW n \in Nat, NEW g \in Powers(m), NEW h \in Powers(n),
         NEW i \in 0 .. m, i <= n
  PROVE  g[i] = h[i]
<1> DEFINE S == {k \in 0 .. m : k <= n /\ g[k] # h[k]}
<1> SUFFICES ASSUME S # {} PROVE FALSE
  OBVIOUS
<1>0. S \in SUBSET Nat
  OBVIOUS
<1>1. PICK k \in S : \A j \in S : k <= j
  <2> HIDE DEF S
  <2> QED BY <1>0, LeastNumber
<1>2. /\ g \in [0 .. m -> Nat] /\ g[0] = 1 /\ \A j \in 1 .. m : g[j] = 2 * g[j - 1]
      /\ h \in [0 .. n -> Nat] /\ h[0] = 1 /\ \A j \in 1 .. n : h[j] = 2 * h[j - 1]
  BY DEF Powers
<1>3. k # 0 /\ k - 1 \in 0 .. m /\ k - 1 <= n
  BY <1>2
<1>4. g[k - 1] = h[k - 1]
  BY <1>1, <1>3
<1> QED BY <1>2, <1>3, <1>4

\* The recursive definition of Power defines a function.
LEMMA PowerDef == Power = [n \in Nat |-> IF n = 0 THEN 1 ELSE 2 * Power[n - 1]]
<1> DEFINE f == [n \in Nat |-> (CHOOSE g \in Powers(n) : TRUE)[n]]
<1>1. ASSUME NEW n \in Nat, NEW g \in Powers(n) PROVE f[n] = g[n]
  <2>1. (CHOOSE h \in Powers(n) : TRUE) \in Powers(n)
    BY PowersExist
  <2> QED BY <2>1, PowersAgree
<1>2. ASSUME NEW n \in Nat PROVE f[n] = IF n = 0 THEN 1 ELSE 2 * f[n - 1]
  <2>1. PICK g \in Powers(n) : TRUE
    BY PowersExist
  <2>2. g \in [0 .. n -> Nat] /\ g[0] = 1 /\ \A i \in 1 .. n : g[i] = 2 * g[i - 1]
    BY <2>1 DEF Powers
  <2>3. CASE n = 0
    BY <1>1, <2>1, <2>2, <2>3
  <2>4. CASE n # 0
    <3>1. n - 1 \in Nat
      BY <2>4
    <3>2. PICK h \in Powers(n - 1) : TRUE
      BY <3>1, PowersExist
    <3>3. f[n - 1] = h[n - 1] /\ g[n - 1] = h[n - 1]
      BY <1>1, <3>1, <3>2, PowersAgree
    <3> HIDE DEF f
    <3> QED BY <1>1, <2>2, <2>4, <3>1, <3>3
  <2> QED BY <2>3, <2>4
<1>3. f = [n \in Nat |-> IF n = 0 THEN 1 ELSE 2 * f[n - 1]]
  <2>1. f = [n \in Nat |-> f[n]]
    OBVIOUS
  <2> HIDE DEF f
  <2> QED BY <1>2, <2>1
<1> HIDE DEF f
<1> QED BY <1>3 DEF Power

LEMMA PowerSteps ==
  Power[0] = 1 /\ \A n \in Nat : Power[n + 1] = 2 * Power[n]
BY PowerDef

LEMMA PowerType == \A n \in Nat : Power[n] \in Nat \ {0}
<1> DEFINE S == {n \in Nat : Power[n] \notin Nat \ {0}}
<1> SUFFICES ASSUME S # {} PROVE FALSE
  OBVIOUS
<1>1. PICK m \in S : \A k \in S : m <= k
  BY LeastNumber
<1>2. m # 0
  BY PowerSteps
<1>3. m - 1 \in Nat /\ Power[m - 1] \in Nat \ {0}
  BY <1>1, <1>2
<1>4. Power[m] = 2 * Power[m - 1]
  BY <1>3, PowerSteps
<1> QED BY <1>3, <1>4

LEMMA PowerSum ==
  ASSUME NEW m \in Nat, NEW n \in Nat
  PROVE  Power[m + n] = Power[m] * Power[n]
<1> DEFINE S == {k \in Nat : Power[m + k] # Power[m] * Power[k]}
<1> SUFFICES ASSUME S # {} PROVE FALSE
  OBVIOUS
<1>1. PICK k \in S : \A j \in S : k <= j
  BY LeastNumber
<1>2. k # 0
  BY PowerSteps, PowerType
<1>3. k - 1 \in Nat /\ Power[m + (k - 1)] = Power[m] * Power[k - 1]
  BY <1>1, <1>2
<1>4. Power[k] = 2 * Power[k - 1] /\ Power[m + k] = 2 * Power[m + (k - 1)]
  <2>1. (k - 1) + 1 = k /\ (m + (k - 1)) + 1 = m + k /\ m + (k - 1) \in Nat
    BY <1>3
  <2> QED BY <1>3, <2>1, PowerSteps
<1>5. Power[m] \in Nat /\ Power[k - 1] \in Nat
  BY <1>3, PowerType
<1>6. 2 * (Power[m] * Power[k - 1]) = Power[m] * (2 * Power[k - 1])
  BY <1>5
<1> QED BY <1>3, <1>4, <1>6

LEMMA PowerDifference ==
  ASSUME NEW m \in Nat, NEW n \in Nat, n <= m
  PROVE  Power[m] = Power[n] * Power[m - n]
<1>1. m - n \in Nat /\ n + (m - n) = m
  OBVIOUS
<1> QED BY <1>1, PowerSum

LEMMA PowerHalves ==
  ASSUME NEW n \in Nat, NEW i \in Nat, i < n
  PROVE  n - i - 1 \in Nat /\ Power[n] = Power[i] * (2 * Power[n - i - 1])
<1> DEFINE k == n - i - 1
<1>1. k \in Nat /\ k + 1 = n - i /\ i <= n
  OBVIOUS
<1> HIDE DEF k
<1>2. Power[k + 1] = 2 * Power[k]
  BY <1>1, PowerSteps
<1>3. Power[n] = Power[i] * Power[n - i]
  BY <1>1, PowerDifference
<1>4. k \in Nat /\ Power[n] = Power[i] * (2 * Power[k])
  BY <1>1, <1>2, <1>3
<1> QED BY <1>4 DEF k

-----------------------------------------------------------------------------
(* Quotients and remainders, where the provers need to be told which        *)
(* products to compare.                                                    *)

LEMMA ProductGrows ==
  ASSUME NEW a \in Nat, NEW b \in Int, NEW c \in Int, b <= c
  PROVE  a * b <= a * c
OBVIOUS

LEMMA Division ==
  ASSUME NEW x \in Int, NEW a \in Nat \ {0}
  PROVE  /\ x \div a \in Int /\ x % a \in 0 .. a - 1
         /\ x = a * (x \div a) + (x % a)
OBVIOUS

LEMMA Quotient ==
  ASSUME NEW x \in Int, NEW a \in Nat \ {0}, NEW q \in Int,
         a * q <= x, x < a * q + a
  PROVE  x \div a = q
<1> DEFINE p == x \div a
<1>1. p \in Int /\ a * p <= x /\ x < a * p + a
  BY Division
<1> HIDE DEF p
<1>2. ~ p + 1 <= q
  <2> SUFFICES ASSUME p + 1 <= q PROVE FALSE
    OBVIOUS
  <2>1. a * (p + 1) <= a * q
    BY <1>1, ProductGrows
  <2>2. a * (p + 1) = a * p + a
    BY <1>1
  <2>3. a * p \in Int /\ a * q \in Int
    BY <1>1
  <2> QED BY <1>1, <2>1, <2>2, <2>3
<1>3. ~ q + 1 <= p
  <2> SUFFICES ASSUME q + 1 <= p PROVE FALSE
    OBVIOUS
  <2>1. a * (q + 1) <= a * p
    BY <1>1, ProductGrows
  <2>2. a * (q + 1) = a * q + a
    BY <1>1
  <2>3. a * p \in Int /\ a * q \in Int
    BY <1>1
  <2> QED BY <1>1, <2>1, <2>2, <2>3
<1> QED BY <1>1, <1>2, <1>3 DEF p

\* Two shifts to the right are one.
LEMMA QuotientOfQuotient ==
  ASSUME NEW x \in Int, NEW a \in Nat \ {0}, NEW b \in Nat \ {0}
  PROVE  (x \div a) \div b = x \div (a * b)
<1> DEFINE p == x \div a
           q == p \div b
<1>1. p \in Int /\ a * p <= x /\ x < a * p + a
  BY Division
<1>2. q \in Int /\ b * q <= p /\ p + 1 <= b * q + b
  BY <1>1, Division
<1> HIDE DEF p, q
<1>3. a * (b * q) <= a * p /\ a * (p + 1) <= a * (b * q + b)
  BY <1>1, <1>2, ProductGrows
<1>4. /\ a * (b * q) = (a * b) * q
      /\ a * (p + 1) = a * p + a
      /\ a * (b * q + b) = (a * b) * q + a * b
  BY <1>1, <1>2
<1>5. a * b \in Nat \ {0} /\ (a * b) * q \in Int /\ a * p \in Int
  BY <1>1, <1>2
<1>6. (a * b) * q <= x /\ x < (a * b) * q + a * b
  BY <1>1, <1>3, <1>4, <1>5
<1>7. x \div (a * b) = q
  BY <1>2, <1>5, <1>6, Quotient
<1> QED BY <1>7 DEF p, q

\* What lies above the bits that are shifted out is shifted with the others.
LEMMA AddedMultiple ==
  ASSUME NEW x \in Int, NEW a \in Nat \ {0}, NEW k \in Int
  PROVE  (x + a * k) \div a = x \div a + k
<1> DEFINE p == x \div a
<1>1. p \in Int /\ a * p <= x /\ x < a * p + a
  BY Division
<1> HIDE DEF p
<1>2. a * (p + k) = a * p + a * k /\ a * p \in Int /\ a * k \in Int
  BY <1>1
<1>3. x + a * k \in Int /\ p + k \in Int
  BY <1>1, <1>2
<1>4. (x + a * k) \div a = p + k
  BY <1>1, <1>2, <1>3, Quotient
<1> QED BY <1>4 DEF p

LEMMA QuotientRange ==
  ASSUME NEW x \in Nat, NEW a \in Nat \ {0}
  PROVE  x \div a \in 0 .. x
<1> DEFINE q == x \div a
<1>1. q \in Int /\ a * q <= x /\ x < a * q + a
  BY Division
<1> HIDE DEF q
<1>2. 0 <= q
  <2> SUFFICES ASSUME q + 1 <= 0 PROVE FALSE
    BY <1>1
  <2>1. a * (q + 1) <= a * 0 /\ a * (q + 1) = a * q + a /\ a * 0 = 0
    BY <1>1, ProductGrows
  <2> QED BY <1>1, <2>1
<1>3. q <= x
  <2>1. q * 1 <= q * a /\ q * a = a * q /\ q * 1 = q
    BY <1>1, <1>2, ProductGrows
  <2> QED BY <1>1, <2>1
<1> QED BY <1>1, <1>2, <1>3 DEF q

LEMMA Remainder ==
  ASSUME NEW x \in Int, NEW a \in Nat \ {0}, NEW q \in Int, NEW r \in 0 .. a - 1,
         x = a * q + r
  PROVE  x % a = r
<1>1. a * q \in Int /\ a * q <= x /\ x < a * q + a
  OBVIOUS
<1>2. x \div a = q
  BY <1>1, Quotient
<1>3. x = a * (x \div a) + (x % a) /\ x % a \in Int
  BY Division
<1> QED BY <1>1, <1>2, <1>3

LEMMA EvenAdded ==
  ASSUME NEW p \in Int, NEW k \in Int
  PROVE  (p + 2 * k) % 2 = p % 2
<1>1. p = 2 * (p \div 2) + (p % 2) /\ p \div 2 \in Int /\ p % 2 \in 0 .. 1
  OBVIOUS
<1> DEFINE q == p \div 2
           r == p % 2
<1> HIDE DEF q, r
<1>2. p = 2 * q + r /\ q \in Int /\ r \in 0 .. 2 - 1
  BY <1>1 DEF q, r
<1>3. p + 2 * k \in Int /\ q + k \in Int /\ p + 2 * k = 2 * (q + k) + r
  BY <1>2
<1>4. (p + 2 * k) % 2 = r
  BY <1>2, <1>3, Remainder
<1> QED BY <1>4 DEF r

LEMMA Doubled ==
  ASSUME NEW x \in Nat, NEW b \in {0, 1}
  PROVE  (2 * x + b) \div 2 = x /\ (2 * x + b) % 2 = b
<1> DEFINE y == 2 * x + b
<1>1. y \in Int /\ 2 * x <= y /\ y < 2 * x + 2
  OBVIOUS
<1> HIDE DEF y
<1>2. y \div 2 = x
  BY <1>1, Quotient
<1>3. y = 2 * (y \div 2) + (y % 2) /\ y % 2 \in Int
  BY <1>1
<1>4. y % 2 = y - 2 * x
  BY <1>1, <1>2, <1>3
<1> QED BY <1>2, <1>4 DEF y

-----------------------------------------------------------------------------
(* Words and their bits.                                                   *)

LEMMA WordFacts ==
  /\ Modulus \in Nat \ {0} /\ 0 \in Word
  /\ \A x \in Word : x \in Nat /\ x < Power[WordBits]
  /\ \A i \in Place : i \in Nat /\ Power[i] \in Nat \ {0}
BY WordBitsAssumption, PowerType DEF Modulus, Word, Place

LEMMA BitValue ==
  ASSUME NEW x \in Int, NEW i \in Nat
  PROVE  BitOf(x, i) \in {0, 1}
<1> DEFINE q == x \div Power[i]
<1>1. q \in Int
  BY PowerType, Division
<1> HIDE DEF q
<1>2. q % 2 \in {0, 1}
  BY <1>1
<1> QED BY <1>2 DEF q, BitOf

\* Without its lowest bit, the bits of a number move down by one.
LEMMA BitOfHalf ==
  ASSUME NEW x \in Int, NEW i \in Nat
  PROVE  /\ BitOf(x, 0) = x % 2
         /\ BitOf(x, i + 1) = BitOf(x \div 2, i)
<1>1. x \div 1 = x
  OBVIOUS
<1>2. x \div (2 * Power[i]) = (x \div 2) \div Power[i]
  BY PowerType, QuotientOfQuotient
<1> QED
  BY <1>1, <1>2, PowerSteps DEF BitOf

LEMMA HalfRange ==
  ASSUME NEW n \in Nat \ {0}, NEW x \in 0 .. Power[n] - 1
  PROVE  /\ n - 1 \in Nat /\ x \div 2 \in 0 .. Power[n - 1] - 1
         /\ x = 2 * (x \div 2) + (x % 2) /\ x % 2 \in {0, 1}
<1>1. n - 1 \in Nat /\ Power[n] = 2 * Power[n - 1] /\ Power[n - 1] \in Nat \ {0}
  BY PowerDef, PowerType
<1> QED
  BY <1>1

\* Different numbers differ in a bit.
LEMMA BitsDetermine ==
  ASSUME NEW n \in Nat, NEW x \in 0 .. Power[n] - 1, NEW y \in 0 .. Power[n] - 1,
         \A i \in 0 .. n - 1 : BitOf(x, i) = BitOf(y, i)
  PROVE  x = y
<1> DEFINE Same(m, v, w) == \A i \in 0 .. m - 1 : BitOf(v, i) = BitOf(w, i)
           S == {m \in Nat : \E v, w \in 0 .. Power[m] - 1 : v # w /\ Same(m, v, w)}
<1>1. S \in SUBSET Nat
  OBVIOUS
<1>2. S = {}
  <2> SUFFICES ASSUME S # {} PROVE FALSE
    OBVIOUS
  <2>1. PICK m \in S : \A k \in S : m <= k
    <3> HIDE DEF S
    <3> QED BY <1>1, LeastNumber
  <2>2. PICK v \in 0 .. Power[m] - 1, w \in 0 .. Power[m] - 1 : v # w /\ Same(m, v, w)
    BY <2>1
  <2>3. m # 0
    BY PowerSteps
  <2>4. /\ m - 1 \in Nat
        /\ v \div 2 \in 0 .. Power[m - 1] - 1 /\ v = 2 * (v \div 2) + (v % 2)
        /\ w \div 2 \in 0 .. Power[m - 1] - 1 /\ w = 2 * (w \div 2) + (w % 2)
    BY <2>3, HalfRange
  <2>5. ASSUME NEW i \in 0 .. m - 2 PROVE BitOf(v \div 2, i) = BitOf(w \div 2, i)
    <3>1. i \in Nat /\ i + 1 \in 0 .. m - 1 /\ v \in Int /\ w \in Int
      BY <2>2
    <3> QED BY <2>2, <3>1, BitOfHalf
  <2>6. v % 2 = w % 2
    <3>1. 0 \in 0 .. m - 1 /\ v \in Int /\ w \in Int
      BY <2>2, <2>3
    <3> QED BY <2>2, <3>1, BitOfHalf
  <2>7. m - 1 \notin S
    BY <2>1
  <2>8. v \div 2 = w \div 2
    BY <2>4, <2>5, <2>7
  <2> QED BY <2>2, <2>4, <2>6, <2>8
<1> QED BY <1>2

\* Every set of places is the set of the bits of some number.
LEMMA BitsExist ==
  ASSUME NEW n \in Nat, NEW s \in SUBSET (0 .. n - 1)
  PROVE  \E x \in 0 .. Power[n] - 1 :
           \A i \in 0 .. n - 1 : BitOf(x, i) = 1 <=> i \in s
<1> DEFINE Of(m, t, x) == \A i \in 0 .. m - 1 : BitOf(x, i) = 1 <=> i \in t
           S == {m \in Nat : \E t \in SUBSET (0 .. m - 1) :
                                \A x \in 0 .. Power[m] - 1 : ~Of(m, t, x)}
<1>1. S \in SUBSET Nat
  OBVIOUS
<1>2. S = {}
  <2> SUFFICES ASSUME S # {} PROVE FALSE
    OBVIOUS
  <2>1. PICK m \in S : \A k \in S : m <= k
    <3> HIDE DEF S
    <3> QED BY <1>1, LeastNumber
  <2>2. PICK t \in SUBSET (0 .. m - 1) : \A x \in 0 .. Power[m] - 1 : ~Of(m, t, x)
    BY <2>1
  <2>3. m # 0
    <3>1. 0 \in 0 .. Power[0] - 1 /\ Of(0, t, 0)
      BY PowerSteps
    <3> QED BY <2>2, <3>1
  <2> DEFINE u == {i \in 0 .. m - 2 : i + 1 \in t}
             low == IF 0 \in t THEN 1 ELSE 0
  <2>4. m - 1 \in Nat /\ m - 1 \notin S /\ u \in SUBSET (0 .. (m - 1) - 1)
    BY <2>1, <2>3
  <2>5. PICK x \in 0 .. Power[m - 1] - 1 : Of(m - 1, u, x)
    BY <2>4
  <2> DEFINE y == 2 * x + low
  <2>6. Power[m] = 2 * Power[m - 1] /\ Power[m - 1] \in Nat \ {0}
    BY <2>4, PowerDef, PowerType
  <2>7. y \in 0 .. Power[m] - 1 /\ y % 2 = low /\ y \div 2 = x
    <3>1. low \in {0, 1} /\ x \in Nat /\ x <= Power[m - 1] - 1
      BY <2>6
    <3> HIDE DEF low
    <3>2. y \in Nat /\ y <= 2 * Power[m - 1] - 1
      BY <2>6, <3>1
    <3>3. y \in 0 .. Power[m] - 1
      BY <2>6, <3>2
    <3>4. y \div 2 = x /\ y % 2 = low
      BY <3>1, Doubled
    <3> QED BY <3>3, <3>4
  <2>8. ASSUME NEW i \in 0 .. m - 1 PROVE BitOf(y, i) = 1 <=> i \in t
    <3>1. CASE i = 0
      <4>1. y \in Int
        BY <2>7
      <4>2. BitOf(y, 0) = low
        BY <2>7, <4>1, BitOfHalf
      <4> QED BY <3>1, <4>2
    <3>2. CASE i # 0
      <4>1. i - 1 \in 0 .. (m - 1) - 1 /\ i - 1 \in Nat /\ (i - 1) + 1 = i /\ y \in Int
        BY <2>7, <3>2
      <4>2. BitOf(y, i) = BitOf(x, i - 1)
        BY <2>7, <4>1, BitOfHalf
      <4>3. BitOf(x, i - 1) = 1 <=> i - 1 \in u
        BY <2>5, <4>1
      <4> QED BY <4>1, <4>2, <4>3
    <3> QED BY <3>1, <3>2
  <2>9. Of(m, t, y)
    BY <2>8
  <2> QED BY <2>2, <2>7, <2>9
<1> QED BY <1>2

\* The word composed of some bits has these and no others.
LEMMA ComposedBits ==
  ASSUME NEW s \in SUBSET Place
  PROVE  /\ Composed(s) \in Word
         /\ \A i \in Place : BitOf(Composed(s), i) = 1 <=> i \in s
<1>1. PICK x \in Word : \A i \in Place : BitOf(x, i) = 1 <=> i \in s
  BY WordBitsAssumption, BitsExist DEF Word, Modulus, Place
<1>2. Bits(x) = s
  BY <1>1 DEF Bits
<1>3. Composed(s) \in Word /\ Bits(Composed(s)) = s
  BY <1>2 DEF Composed
<1> QED
  BY <1>3 DEF Bits

\* A shift to the right moves the bits down.
LEMMA BitOfQuotient ==
  ASSUME NEW x \in Int, NEW s \in Nat, NEW i \in Nat
  PROVE  BitOf(x \div Power[s], i) = BitOf(x, i + s)
<1>1. Power[s] \in Nat \ {0} /\ Power[i] \in Nat \ {0}
  BY PowerType
<1>2. s + i = i + s /\ Power[s + i] = Power[s] * Power[i]
  BY PowerSum
<1> QED
  BY <1>1, <1>2, QuotientOfQuotient DEF BitOf

\* A shift to the left moves them up and brings in zeros.
LEMMA BitOfProduct ==
  ASSUME NEW x \in Int, NEW s \in Nat, NEW i \in Nat
  PROVE  BitOf(x * Power[s], i) = IF i < s THEN 0 ELSE BitOf(x, i - s)
<1>1. Power[s] \in Nat \ {0} /\ Power[i] \in Nat \ {0} /\ x * Power[s] \in Int
  BY PowerType
<1>2. CASE i < s
  <2> DEFINE p == Power[s - i - 1]
  <2>2. p \in Nat /\ Power[s] = Power[i] * (2 * p)
    BY <1>2, PowerHalves, PowerType
  <2> HIDE DEF p
  <2>3. x * Power[s] = Power[i] * (2 * (x * p)) /\ x * p \in Int
    BY <1>1, <2>2
  <2>4. (x * Power[s]) \div Power[i] = 2 * (x * p)
    BY <1>1, <2>3, Quotient
  <2>5. (0 + 2 * (x * p)) % 2 = 0 % 2
    BY <2>3, EvenAdded
  <2> QED BY <1>2, <2>3, <2>4, <2>5 DEF BitOf
<1>3. CASE ~ i < s
  <2>1. i - s \in Nat /\ s + (i - s) = i /\ (i - s) + s = i
    BY <1>3
  <2>2. (x * Power[s]) \div Power[s] = x
    <3>1. Power[s] * x = x * Power[s] /\ x * Power[s] < Power[s] * x + Power[s]
      BY <1>1
    <3> QED BY <1>1, <3>1, Quotient
  <2>3. BitOf((x * Power[s]) \div Power[s], i - s) = BitOf(x * Power[s], (i - s) + s)
    BY <1>1, <2>1, BitOfQuotient
  <2> QED BY <1>3, <2>1, <2>2, <2>3
<1> QED BY <1>2, <1>3

\* A number modulo a power of two keeps the bits below that power.
LEMMA BitOfRemainder ==
  ASSUME NEW x \in Int, NEW n \in Nat, NEW i \in 0 .. n - 1
  PROVE  BitOf(x % Power[n], i) = BitOf(x, i)
<1> DEFINE q == x \div Power[n]
           r == x % Power[n]
           p == Power[n - i - 1]
           c == r \div Power[i]
<1>1. Power[n] \in Nat \ {0} /\ Power[i] \in Nat \ {0}
  BY PowerType
<1>2. q \in Int /\ r \in Int /\ x = Power[n] * q + r
  <2> DEFINE a == Power[n]
  <2>1. a \in Nat \ {0}
    BY <1>1
  <2> HIDE DEF a
  <2>2. x \div a \in Int /\ x % a \in Int /\ x = a * (x \div a) + (x % a)
    BY <2>1, Division
  <2> QED BY <2>2 DEF a
<1>4. p \in Nat /\ Power[n] = Power[i] * (2 * p)
  BY PowerHalves, PowerType
<1>5. c \in Int
  BY <1>1, <1>2, Division
<1> HIDE DEF q, r, p, c
<1>6. Power[n] * q = Power[i] * (2 * (p * q)) /\ p * q \in Int
  BY <1>1, <1>2, <1>4
<1>7. x = r + Power[i] * (2 * (p * q)) /\ 2 * (p * q) \in Int
  BY <1>1, <1>2, <1>6
<1>8. (r + Power[i] * (2 * (p * q))) \div Power[i] = c + 2 * (p * q)
  BY <1>1, <1>2, <1>7, AddedMultiple DEF c
<1>9. (c + 2 * (p * q)) % 2 = c % 2
  BY <1>5, <1>6, EvenAdded
<1> QED
  BY <1>7, <1>8, <1>9 DEF BitOf, c, r

\* Above its highest bit, a number has zeros when it is not negative and ones
\* when it is.
LEMMA BitAbove ==
  ASSUME NEW x \in Int, NEW n \in Nat, NEW i \in Nat, n <= i,
         - Power[n] <= x, x < Power[n]
  PROVE  BitOf(x, i) = IF x < 0 THEN 1 ELSE 0
<1>1. Power[n] \in Nat /\ Power[i] \in Nat \ {0}
  BY PowerType
<1>2. Power[n] <= Power[i]
  <2>1. i - n \in Nat /\ Power[i] = Power[n] * Power[i - n]
    BY PowerDifference
  <2>2. Power[i - n] \in Nat /\ 1 <= Power[i - n]
    BY <2>1, PowerType
  <2>3. Power[n] * 1 <= Power[n] * Power[i - n]
    BY <1>1, <2>2, ProductGrows
  <2> QED BY <1>1, <2>1, <2>3
<1>3. CASE x < 0
  <2>1. Power[i] * (0 - 1) = - Power[i] /\ 0 - 1 \in Int
    BY <1>1
  <2>2. Power[i] * (0 - 1) <= x /\ x < Power[i] * (0 - 1) + Power[i]
    BY <1>1, <1>2, <1>3, <2>1
  <2>3. x \div Power[i] = 0 - 1
    BY <1>1, <2>1, <2>2, Quotient
  <2> DEFINE z == x \div Power[i]
  <2>4. z \in Int /\ z = 2 * z + 1 /\ 1 \in 0 .. 2 - 1
    BY <2>3
  <2> HIDE DEF z
  <2>5. z % 2 = 1
    BY <2>4, Remainder
  <2> QED BY <1>3, <2>5 DEF BitOf, z
<1>4. CASE ~ x < 0
  <2>1. Power[i] * 0 = 0
    BY <1>1
  <2>2. x \div Power[i] = 0
    BY <1>1, <1>2, <1>4, <2>1, Quotient
  <2> QED BY <1>4, <2>2 DEF BitOf
<1> QED BY <1>3, <1>4

\* Signed numbers: the cast keeps the bits and repeats the highest one above.
LEMMA SignedBits ==
  ASSUME NEW x \in Word
  PROVE  /\ Signed(x) \in Int
         /\ Signed(x) < 0 => x = Signed(x) + Modulus
         /\ Signed(x) >= 0 => x = Signed(x)
         /\ SignOf(x) = IF Signed(x) < 0 THEN 1 ELSE 0
         /\ \A i \in Place : BitOf(Signed(x), i) = BitOf(x, i)
         /\ \A i \in Nat : i >= WordBits => BitOf(Signed(x), i) = SignOf(x)
<1> DEFINE z == Signed(x)
           h == Power[WordBits - 1]
<1>1. /\ WordBits \in Nat /\ WordBits - 1 \in Nat /\ WordBits - 1 \in Place
      /\ x \in Nat /\ x < Modulus /\ h \in Nat \ {0} /\ Modulus \in Nat \ {0}
  BY WordBitsAssumption, WordFacts, PowerType DEF Modulus, Place
<1>2. Modulus = 2 * h
  BY <1>1, PowerDef DEF Modulus
<1>3. /\ z \in Int /\ - h <= z /\ z < h
      /\ z < 0 => x = z + Modulus
      /\ z >= 0 => x = z
  BY <1>1, <1>2 DEF Signed
<1> HIDE DEF z
<1>4. z % Modulus = x
  <2>1. x \in 0 .. Modulus - 1 /\ 0 \in Int /\ 0 - 1 \in Int
    BY <1>1
  <2>2. CASE z < 0
    <3>1. z = Modulus * (0 - 1) + x
      BY <1>1, <1>3, <2>2
    <3> QED BY <1>1, <1>3, <2>1, <3>1, Remainder
  <2>3. CASE ~ z < 0
    <3>1. z = Modulus * 0 + x
      BY <1>1, <1>3, <2>3
    <3> QED BY <1>1, <1>3, <2>1, <3>1, Remainder
  <2> QED BY <2>2, <2>3
<1>5. ASSUME NEW i \in Place PROVE BitOf(z, i) = BitOf(x, i)
  <2>1. BitOf(z % Power[WordBits], i) = BitOf(z, i)
    BY <1>1, <1>3, BitOfRemainder DEF Place
  <2> QED BY <1>4, <2>1 DEF Modulus
<1>6. ASSUME NEW i \in Nat, i >= WordBits - 1
      PROVE  BitOf(z, i) = IF z < 0 THEN 1 ELSE 0
  BY <1>1, <1>3, <1>6, BitAbove
<1>7. SignOf(x) = IF z < 0 THEN 1 ELSE 0
  BY <1>1, <1>5, <1>6 DEF SignOf
<1>8. ASSUME NEW i \in Nat, i >= WordBits PROVE BitOf(z, i) = SignOf(x)
  BY <1>1, <1>6, <1>7, <1>8
<1> QED BY <1>3, <1>5, <1>7, <1>8 DEF z

\* Comparing the casts compares the sign bits first.
LEMMA ComparesSigned ==
  ASSUME NEW x \in Word, NEW y \in Word
  PROVE  LessSigned(x, y) <=> Signed(x) < Signed(y)
<1>1. x \in Nat /\ y \in Nat /\ x < Modulus /\ y < Modulus /\ Modulus \in Nat
  BY WordFacts DEF Modulus
<1>2. /\ Signed(x) \in Int
      /\ Signed(x) < 0 => x = Signed(x) + Modulus
      /\ Signed(x) >= 0 => x = Signed(x)
      /\ SignOf(x) = IF Signed(x) < 0 THEN 1 ELSE 0
  BY SignedBits
<1>3. /\ Signed(y) \in Int
      /\ Signed(y) < 0 => y = Signed(y) + Modulus
      /\ Signed(y) >= 0 => y = Signed(y)
      /\ SignOf(y) = IF Signed(y) < 0 THEN 1 ELSE 0
  BY SignedBits
<1>4. CASE Signed(x) < 0 /\ Signed(y) < 0
  BY <1>1, <1>2, <1>3, <1>4 DEF LessSigned
<1>5. CASE Signed(x) < 0 /\ Signed(y) >= 0
  BY <1>1, <1>2, <1>3, <1>5 DEF LessSigned
<1>6. CASE Signed(x) >= 0 /\ Signed(y) < 0
  BY <1>1, <1>2, <1>3, <1>6 DEF LessSigned
<1>7. CASE Signed(x) >= 0 /\ Signed(y) >= 0
  BY <1>1, <1>2, <1>3, <1>7 DEF LessSigned
<1> QED BY <1>2, <1>3, <1>4, <1>5, <1>6, <1>7

-----------------------------------------------------------------------------
(* The executors, one lemma for each kind.                                 *)

LEMMA Amounts ==
  ASSUME NEW y \in Word
  PROVE  Shift(y) = Amount(y) /\ Shift(y) \in Place /\ Shift(y) \in Nat
<1>1. y \in Int /\ WordBits \in Nat \ {0}
  BY WordBitsAssumption, WordFacts
<1>2. y % WordBits \in 0 .. WordBits - 1
  BY <1>1, Division
<1> QED BY <1>1, <1>2 DEF Shift, Amount, Place

\* What is taken modulo the words is a word, with the same bits.
LEMMA Wrapped ==
  ASSUME NEW x \in Int
  PROVE  /\ x % Modulus \in Word
         /\ \A i \in Place : BitOf(x % Modulus, i) = BitOf(x, i)
<1>1. x % Modulus \in 0 .. Modulus - 1
  BY WordFacts, Division
<1>2. ASSUME NEW i \in Place PROVE BitOf(x % Modulus, i) = BitOf(x, i)
  BY WordBitsAssumption, BitOfRemainder DEF Modulus, Place
<1> QED BY <1>1, <1>2 DEF Word

LEMMA WrapsOnce ==
  ASSUME NEW z \in Int, - Modulus <= z, z < 2 * Modulus
  PROVE  /\ z < 0 => z % Modulus = z + Modulus
         /\ 0 <= z /\ z < Modulus => z % Modulus = z
         /\ Modulus <= z => z % Modulus = z - Modulus
<1>1. Modulus \in Nat \ {0} /\ 0 - 1 \in Int
  BY WordFacts
<1>2. ASSUME z < 0 PROVE z % Modulus = z + Modulus
  <2>1. z + Modulus \in 0 .. Modulus - 1 /\ z = Modulus * (0 - 1) + (z + Modulus)
    BY <1>1, <1>2
  <2> QED BY <1>1, <2>1, Remainder
<1>3. ASSUME 0 <= z, z < Modulus PROVE z % Modulus = z
  <2>1. z \in 0 .. Modulus - 1 /\ z = Modulus * 0 + z
    BY <1>1, <1>3
  <2> QED BY <1>1, <2>1, Remainder
<1>4. ASSUME Modulus <= z PROVE z % Modulus = z - Modulus
  <2>1. z - Modulus \in 0 .. Modulus - 1 /\ z = Modulus * 1 + (z - Modulus)
    BY <1>1, <1>4
  <2> QED BY <1>1, <2>1, Remainder
<1> QED BY <1>2, <1>3, <1>4

LEMMA Sums ==
  ASSUME NEW x \in Word, NEW y \in Word
  PROVE  /\ (x + y) % Modulus = IF x + y < Modulus THEN x + y ELSE x + y - Modulus
         /\ (x - y) % Modulus = IF x >= y THEN x - y ELSE x - y + Modulus
<1>1. /\ x \in Nat /\ y \in Nat /\ x < Modulus /\ y < Modulus
      /\ Modulus \in Nat \ {0}
  BY WordFacts DEF Modulus
<1> DEFINE s == x + y
           d == x - y
<1>2. /\ s \in Int /\ 0 <= s /\ - Modulus <= s /\ s < 2 * Modulus
      /\ d \in Int /\ - Modulus <= d /\ d < 2 * Modulus /\ d < Modulus
      /\ d < 0 <=> ~ x >= y
  BY <1>1
<1> HIDE DEF s, d
<1>3. s % Modulus = IF s < Modulus THEN s ELSE s - Modulus
  BY <1>1, <1>2, WrapsOnce
<1>4. d % Modulus = IF x >= y THEN d ELSE d + Modulus
  BY <1>1, <1>2, WrapsOnce
<1>5. (x + y) % Modulus = IF x + y < Modulus THEN x + y ELSE x + y - Modulus
  BY <1>1, <1>3 DEF s
<1>6. (x - y) % Modulus = IF x >= y THEN x - y ELSE x - y + Modulus
  BY <1>4 DEF d
<1> QED BY <1>5, <1>6

LEMMA Additions ==
  ASSUME NEW x \in Word, NEW y \in Word,
         NEW n \in {"LUI", "AUIPC", "ADD", "ADDI", "SUB", "SLT", "SLTI", "SLTU", "SLTIU"}
  PROVE  /\ Computes(n, x, y, Result(n, x, y))
         /\ Result(n, x, y) \in Word
<1>1. n \notin BitwiseNames
  BY DEF BitwiseNames
<1>2. 0 \in Word /\ 1 \in Word
  <2>1. WordBits - 1 \in Nat /\ Modulus = 2 * Power[WordBits - 1]
    BY WordBitsAssumption, PowerDef DEF Modulus
  <2>2. Power[WordBits - 1] \in Nat \ {0}
    BY <2>1, PowerType
  <2> QED BY <2>1, <2>2 DEF Word
<1>3. CASE n = "LUI"
  BY <1>1, <1>3 DEF Computes, SpecValue, Result
<1>4. CASE n \in {"ADD", "ADDI", "AUIPC"}
  <2>1. Result(n, x, y) = (x + y) % Modulus
    BY <1>4 DEF Result
  <2>2. SpecValue(n, x, y) = IF x + y < Modulus THEN x + y ELSE x + y - Modulus
    BY <1>4 DEF SpecValue
  <2>3. x + y \in Int
    BY DEF Word
  <2> QED BY <1>1, <2>1, <2>2, <2>3, Sums, Wrapped DEF Computes
<1>5. CASE n = "SUB"
  <2>1. Result(n, x, y) = (x - y) % Modulus
    BY <1>5 DEF Result
  <2>2. SpecValue(n, x, y) = IF x >= y THEN x - y ELSE x - y + Modulus
    BY <1>5 DEF SpecValue
  <2>3. x - y \in Int
    BY DEF Word
  <2> QED BY <1>1, <2>1, <2>2, <2>3, Sums, Wrapped DEF Computes
<1>6. CASE n \in {"SLT", "SLTI"}
  <2>1. /\ Result(n, x, y) = Flag(Signed(x) < Signed(y))
        /\ SpecValue(n, x, y) = Flag(LessSigned(x, y))
    BY <1>6 DEF Result, SpecValue
  <2> QED BY <1>1, <1>2, <2>1, ComparesSigned DEF Computes, Flag
<1>7. CASE n \in {"SLTU", "SLTIU"}
  <2>1. Result(n, x, y) = Flag(x < y) /\ SpecValue(n, x, y) = Flag(x < y)
    BY <1>7 DEF Result, SpecValue
  <2> QED BY <1>1, <1>2, <2>1 DEF Computes, Flag
<1> QED BY <1>3, <1>4, <1>5, <1>6, <1>7

\* What the executors named XOR and ANDI, OR and ORI, AND and XORI compute.
LEMMA Operations ==
  ASSUME NEW x \in Word, NEW y \in Word, NEW i \in Place
  PROVE  /\ BitOf(Result("XOR", x, y), i) = Flag(BitOf(x, i) # BitOf(y, i))
         /\ BitOf(Result("OR", x, y), i) = Flag(BitOf(x, i) + BitOf(y, i) > 0)
         /\ BitOf(Result("AND", x, y), i) = BitOf(x, i) * BitOf(y, i)
         /\ {Result("XOR", x, y), Result("OR", x, y), Result("AND", x, y)} \subseteq Word
<1> DEFINE sx == (Bits(x) \ Bits(y)) \cup (Bits(y) \ Bits(x))
           so == Bits(x) \cup Bits(y)
           sa == Bits(x) \cap Bits(y)
<1>1. sx \in SUBSET Place /\ so \in SUBSET Place /\ sa \in SUBSET Place
  BY DEF Bits
<1>2. /\ Result("XOR", x, y) = Composed(sx)
      /\ Result("OR", x, y) = Composed(so)
      /\ Result("AND", x, y) = Composed(sa)
  BY DEF Result
<1>3. i \in Nat /\ x \in Int /\ y \in Int
  BY WordFacts
<1>4. BitOf(x, i) \in {0, 1} /\ BitOf(y, i) \in {0, 1}
  BY <1>3, BitValue
<1>5. (i \in Bits(x) <=> BitOf(x, i) = 1) /\ (i \in Bits(y) <=> BitOf(y, i) = 1)
  BY DEF Bits
<1>6. ASSUME NEW s \in SUBSET Place
      PROVE  /\ Composed(s) \in Word
             /\ BitOf(Composed(s), i) = IF i \in s THEN 1 ELSE 0
  <2>1. Composed(s) \in Word /\ (BitOf(Composed(s), i) = 1 <=> i \in s)
    BY ComposedBits
  <2>2. BitOf(Composed(s), i) \in {0, 1}
    <3>1. Composed(s) \in Int
      BY <2>1, WordFacts
    <3> QED BY <1>3, <3>1, BitValue
  <2> QED BY <2>1, <2>2
<1>7. BitOf(Composed(sx), i) = Flag(BitOf(x, i) # BitOf(y, i))
  <2>1. BitOf(Composed(sx), i) = IF i \in sx THEN 1 ELSE 0
    BY <1>1, <1>6
  <2>2. i \in sx <=> BitOf(x, i) # BitOf(y, i)
    BY <1>4, <1>5
  <2> QED BY <2>1, <2>2 DEF Flag
<1>8. BitOf(Composed(so), i) = Flag(BitOf(x, i) + BitOf(y, i) > 0)
  <2>1. BitOf(Composed(so), i) = IF i \in so THEN 1 ELSE 0
    BY <1>1, <1>6
  <2>2. i \in so <=> BitOf(x, i) + BitOf(y, i) > 0
    BY <1>4, <1>5
  <2> QED BY <2>1, <2>2 DEF Flag
<1>9. BitOf(Composed(sa), i) = BitOf(x, i) * BitOf(y, i)
  <2>1. BitOf(Composed(sa), i) = IF i \in sa THEN 1 ELSE 0
    BY <1>1, <1>6
  <2>2. i \in sa <=> BitOf(x, i) = 1 /\ BitOf(y, i) = 1
    BY <1>5
  <2> QED BY <1>4, <2>1, <2>2
<1> HIDE DEF sx, so, sa
<1> QED BY <1>1, <1>2, <1>6, <1>7, <1>8, <1>9

LEMMA Shifts ==
  ASSUME NEW x \in Word, NEW y \in Word,
         NEW n \in {"SLL", "SLLI", "SRL", "SRLI", "SRA", "SRAI"}
  PROVE  /\ Computes(n, x, y, Result(n, x, y))
         /\ Result(n, x, y) \in Word
<1> DEFINE s == Shift(y)
<1>1. /\ Amount(y) = s /\ s \in Nat /\ s < WordBits
      /\ WordBits \in Nat /\ n \in BitwiseNames
      /\ x \in Int /\ x \in Nat /\ x < Power[WordBits] /\ Power[s] \in Nat \ {0}
  BY Amounts, WordBitsAssumption, WordFacts, PowerType DEF Place, BitwiseNames
<1> HIDE DEF s
<1>2. SUFFICES ASSUME TRUE
      PROVE  /\ Result(n, x, y) \in Word
             /\ \A i \in Place : BitOf(Result(n, x, y), i) = SpecBit(n, x, y, i)
  BY <1>1 DEF Computes
<1>3. CASE n \in {"SLL", "SLLI"}
  <2>1. Result(n, x, y) = (x * Power[s]) % Modulus /\ x * Power[s] \in Int
    BY <1>1, <1>3 DEF Result, s
  <2>2. ASSUME NEW i \in Place
        PROVE  BitOf(x * Power[s], i) = SpecBit(n, x, y, i)
    <3>1. SpecBit(n, x, y, i) = IF i < s THEN 0 ELSE BitOf(x, i - s)
      BY <1>1, <1>3 DEF SpecBit
    <3> QED BY <1>1, <3>1, BitOfProduct DEF Place
  <2> QED BY <2>1, <2>2, Wrapped
<1>4. CASE n \in {"SRL", "SRLI"}
  <2>1. Result(n, x, y) = x \div Power[s]
    BY <1>4 DEF Result, s
  <2>2. x \div Power[s] \in Word
    <3>1. x \div Power[s] \in 0 .. x
      BY <1>1, QuotientRange
    <3>2. 0 .. x \subseteq Word
      BY <1>1, WordFacts DEF Word, Modulus
    <3> QED BY <3>1, <3>2
  <2>3. ASSUME NEW i \in Place
        PROVE  BitOf(x \div Power[s], i) = SpecBit(n, x, y, i)
    <3>1. SpecBit(n, x, y, i) = IF i + s < WordBits THEN BitOf(x, i + s) ELSE 0
      BY <1>1, <1>4 DEF SpecBit
    <3>2. i \in Nat /\ i + s \in Nat
      BY <1>1 DEF Place
    <3>3. BitOf(x \div Power[s], i) = BitOf(x, i + s)
      BY <1>1, <3>2, BitOfQuotient
    <3>4. ASSUME ~ i + s < WordBits PROVE BitOf(x, i + s) = 0
      BY <1>1, <3>2, <3>4, BitAbove, PowerType
    <3> QED BY <3>1, <3>3, <3>4
  <2> QED BY <2>1, <2>2, <2>3
<1>5. CASE n \in {"SRA", "SRAI"}
  <2> DEFINE z == Signed(x)
  <2>1. /\ Result(n, x, y) = (z \div Power[s]) % Modulus
        /\ z \in Int /\ z \div Power[s] \in Int
    BY <1>1, <1>5, SignedBits, Division DEF Result, s
  <2>2. ASSUME NEW i \in Place
        PROVE  BitOf(z \div Power[s], i) = SpecBit(n, x, y, i)
    <3>1. SpecBit(n, x, y, i)
            = IF i + s < WordBits THEN BitOf(x, i + s) ELSE SignOf(x)
      BY <1>1, <1>5 DEF SpecBit
    <3>2. i \in Nat /\ i + s \in Nat
      BY <1>1 DEF Place
    <3>3. BitOf(z \div Power[s], i) = BitOf(z, i + s)
      BY <1>1, <2>1, <3>2, BitOfQuotient
    <3>4. i + s < WordBits => i + s \in Place
      BY <1>1, <3>2 DEF Place
    <3>5. BitOf(z, i + s) = IF i + s < WordBits THEN BitOf(x, i + s) ELSE SignOf(x)
      BY <1>1, <3>2, <3>4, SignedBits
    <3> QED BY <3>1, <3>3, <3>5
  <2> QED BY <2>1, <2>2, Wrapped
<1> QED BY <1>3, <1>4, <1>5

-----------------------------------------------------------------------------
\* Every executor of an arithmetic instruction but those of ANDI and XORI leaves
\* in rd what RV32I defines for the instruction it is named after, whatever the
\* operands: signs, wrapped sums and shift amounts beyond the word included.
THEOREM ExecutorsCompute ==
  ASSUME NEW x \in Word, NEW y \in Word, NEW n \in AluNames \ {"ANDI", "XORI"}
  PROVE  Computes(n, x, y, Result(n, x, y))
<1>1. CASE n \in {"XOR", "OR", "AND"}
  <2>1. n \in BitwiseNames
    BY <1>1 DEF BitwiseNames
  <2>2. ASSUME NEW i \in Place PROVE BitOf(Result(n, x, y), i) = SpecBit(n, x, y, i)
    BY <1>1, Operations DEF SpecBit
  <2>3. 0 \in Place
    BY WordBitsAssumption DEF Place
  <2>4. Result(n, x, y) \in Word
    BY <1>1, <2>3, Operations
  <2> QED BY <2>1, <2>2, <2>4 DEF Computes
<1>2. CASE n = "ORI"
  <2>1. n \in BitwiseNames /\ Result(n, x, y) = Result("OR", x, y)
    BY <1>2 DEF BitwiseNames, Result
  <2>2. ASSUME NEW i \in Place PROVE BitOf(Result(n, x, y), i) = SpecBit(n, x, y, i)
    BY <1>2, <2>1, Operations DEF SpecBit
  <2>3. 0 \in Place
    BY WordBitsAssumption DEF Place
  <2>4. Result(n, x, y) \in Word
    BY <2>1, <2>3, Operations
  <2> QED BY <2>1, <2>2, <2>4 DEF Computes
<1>3. CASE n \notin {"XOR", "OR", "AND", "ORI"}
  <2>1. n \in {"SLL", "SLLI", "SRL", "SRLI", "SRA", "SRAI"}
          \cup {"LUI", "AUIPC", "ADD", "ADDI", "SUB", "SLT", "SLTI", "SLTU", "SLTIU"}
    BY <1>3 DEF AluNames
  <2> QED BY <2>1, Shifts, Additions
<1> QED BY <1>1, <1>2, <1>3

\* The executors of ANDI and XORI compute each other's instruction: the finding of
\* the run and_immediate, for all operands.
THEOREM ImmediatesSwapped ==
  ASSUME NEW x \in Word, NEW y \in Word
  PROVE  /\ Computes("XORI", x, y, Result("ANDI", x, y))
         /\ Computes("ANDI", x, y, Result("XORI", x, y))
<1>1. /\ Result("ANDI", x, y) = Result("XOR", x, y)
      /\ Result("XORI", x, y) = Result("AND", x, y)
      /\ "ANDI" \in BitwiseNames /\ "XORI" \in BitwiseNames
  BY DEF Result, BitwiseNames
<1>2. ASSUME NEW i \in Place
      PROVE  /\ BitOf(Result("XOR", x, y), i) = SpecBit("XORI", x, y, i)
             /\ BitOf(Result("AND", x, y), i) = SpecBit("ANDI", x, y, i)
  BY Operations DEF SpecBit
<1>3. 0 \in Place
  BY WordBitsAssumption DEF Place
<1>4. Result("XOR", x, y) \in Word /\ Result("AND", x, y) \in Word
  BY <1>3, Operations
<1> QED BY <1>1, <1>2, <1>4 DEF Computes

\* What an executor leaves is a word, what a branch decides a truth value: what the
\* pipeline takes for granted of its instructions in ExecutorsAssumption.
THEOREM ExecutorsTyped ==
  ASSUME NEW x \in Word, NEW y \in Word
  PROVE  /\ \A n \in AluNames : Result(n, x, y) \in Word
         /\ \A n \in BranchNames : Taken(n, x, y) \in BOOLEAN
<1>1. ASSUME NEW n \in AluNames PROVE Result(n, x, y) \in Word
  <2>1. {Result("XOR", x, y), Result("OR", x, y), Result("AND", x, y)} \subseteq Word
    BY WordBitsAssumption, Operations DEF Place
  <2>2. CASE n \in {"XOR", "OR", "AND", "XORI", "ORI", "ANDI"}
    <3>1. Result(n, x, y) \in {Result("XOR", x, y), Result("OR", x, y), Result("AND", x, y)}
      BY <2>2 DEF Result
    <3> QED BY <2>1, <3>1
  <2>3. CASE n \notin {"XOR", "OR", "AND", "XORI", "ORI", "ANDI"}
    <3>1. n \in {"SLL", "SLLI", "SRL", "SRLI", "SRA", "SRAI"}
            \cup {"LUI", "AUIPC", "ADD", "ADDI", "SUB", "SLT", "SLTI", "SLTU", "SLTIU"}
      BY <2>3 DEF AluNames
    <3> QED BY <3>1, Shifts, Additions
  <2> QED BY <2>2, <2>3
<1>2. ASSUME NEW n \in BranchNames PROVE Taken(n, x, y) \in BOOLEAN
  <2>1. x \in Nat /\ y \in Nat /\ Signed(x) \in Int /\ Signed(y) \in Int
    BY WordFacts, SignedBits
  <2>2. CASE n = "BEQ"
    <3>1. Taken(n, x, y) = (x = y)
      BY <2>2 DEF Taken
    <3> QED BY <3>1
  <2>3. CASE n = "BNE"
    <3>1. Taken(n, x, y) = (x # y)
      BY <2>3 DEF Taken
    <3> QED BY <3>1
  <2>4. CASE n = "BLT"
    <3>1. Taken(n, x, y) = (Signed(x) < Signed(y))
      BY <2>4 DEF Taken
    <3> QED BY <2>1, <3>1
  <2>5. CASE n = "BGE"
    <3>1. Taken(n, x, y) = (Signed(x) >= Signed(y))
      BY <2>5 DEF Taken
    <3> QED BY <2>1, <3>1
  <2>6. CASE n = "BLTU"
    <3>1. Taken(n, x, y) = (x < y)
      BY <2>6 DEF Taken
    <3> QED BY <2>1, <3>1
  <2>7. CASE n = "BGEU"
    <3>1. Taken(n, x, y) = (x >= y)
      BY <2>7 DEF Taken
    <3> QED BY <2>1, <3>1
  <2> QED BY <2>2, <2>3, <2>4, <2>5, <2>6, <2>7 DEF BranchNames
<1> QED BY <1>1, <1>2

\* The executor of a branch takes it exactly when RV32I does.
THEOREM BranchesTaken ==
  ASSUME NEW x \in Word, NEW y \in Word, NEW n \in BranchNames
  PROVE  Taken(n, x, y) = Condition(n, x, y)
<1>1. (\A i \in Place : BitOf(x, i) = BitOf(y, i)) <=> x = y
  BY WordBitsAssumption, BitsDetermine DEF Word, Place, Modulus
<1>2. x \in Nat /\ y \in Nat /\ Signed(x) \in Int /\ Signed(y) \in Int
  BY WordFacts, SignedBits
<1>3. CASE n = "BEQ"
  BY <1>1, <1>3 DEF Taken, Condition
<1>4. CASE n = "BNE"
  BY <1>1, <1>4 DEF Taken, Condition
<1>5. CASE n = "BLT"
  <2>1. /\ Taken(n, x, y) = (Signed(x) < Signed(y))
        /\ Condition(n, x, y) = LessSigned(x, y)
    BY <1>5 DEF Taken, Condition
  <2>2. LessSigned(x, y) \in BOOLEAN /\ (Signed(x) < Signed(y)) \in BOOLEAN
    BY <1>2 DEF LessSigned
  <2> QED BY <2>1, <2>2, ComparesSigned
<1>6. CASE n = "BGE"
  <2>1. (~LessSigned(x, y)) = (Signed(x) >= Signed(y))
    BY <1>2, ComparesSigned DEF LessSigned
  <2> QED BY <1>6, <2>1 DEF Taken, Condition
<1>7. CASE n = "BLTU"
  <2>1. SpecValue("SLTU", x, y) = Flag(x < y)
    BY DEF SpecValue
  <2> QED BY <1>7, <2>1 DEF Taken, Condition, Flag
<1>8. CASE n = "BGEU"
  <2>1. SpecValue("SLTU", x, y) = Flag(x < y)
    BY DEF SpecValue
  <2> QED BY <1>2, <1>8, <2>1 DEF Taken, Condition, Flag
<1> QED BY <1>3, <1>4, <1>5, <1>6, <1>7, <1>8 DEF BranchNames
=============================================================================
