----------------------------- MODULE WireProofs -----------------------------
(***************************************************************************)
(* Proofs about the bytes of a call, for every base, every call and every  *)
(* argument: the program takes no part of a payload for a call, decodes    *)
(* each argument as the SDK was given it, reduced to its field, and what   *)
(* fits is what the engine and the token programs hear.                    *)
(***************************************************************************)
EXTENDS Wire, SequenceTheorems, WellFoundedInduction, TLAPS

-----------------------------------------------------------------------------
(* Numbers and their digits. *)

(* A set of naturals with 0 and every successor has them all. *)
LEMMA Induction ==
  ASSUME NEW T \in SUBSET Nat, 0 \in T, \A n \in T : n + 1 \in T
  PROVE  T = Nat
<1> DEFINE R == OpToRel(<, Nat)
           M == Nat \ T
<1>1. IsWellFoundedOn(R, Nat)
  BY NatLessThanWellFounded
<1>2. \A x, y \in Nat : <<y, x>> \in R <=> y < x
  BY DEF OpToRel
<1> HIDE DEF R
<1>3. ASSUME M # {} PROVE FALSE
  <2>1. \E x \in M : \A y \in M : ~(<<y, x>> \in R)
    BY <1>1, <1>3, WFMin
  <2>2. PICK m \in M : \A y \in M : ~(<<y, m>> \in R)
    BY <2>1
  <2>3. m \in Nat /\ m # 0 /\ m - 1 \in Nat /\ m - 1 < m
        /\ (m - 1) + 1 = m
    BY <2>2
  <2>4. m - 1 \in T
    BY <1>2, <2>2, <2>3
  <2> QED
    BY <2>2, <2>3, <2>4
<1> QED
  BY <1>3

(* The recursion of Place defines a function. *)
LEMMA PlaceDef ==
  Place = [n \in Nat |-> IF n = 0 THEN 1 ELSE Radix * Place[n - 1]]
<1> DEFINE Upto(n, f) ==
             f = [i \in 0 .. n |-> IF i = 0 THEN 1 ELSE Radix * f[i - 1]]
           T == {n \in Nat : \E f : Upto(n, f)}
<1>1. 0 \in T
  <2>1. Upto(0, [i \in 0 .. 0 |-> 1])
    OBVIOUS
  <2> QED
    BY <2>1
<1>2. ASSUME NEW n \in T PROVE n + 1 \in T
  <2>1. PICK f : Upto(n, f)
    BY <1>2
  <2> DEFINE g == [i \in 0 .. n + 1 |-> IF i = 0 THEN 1
                                        ELSE Radix * f[i - 1]]
  <2>2. ASSUME NEW i \in 1 .. n + 1 PROVE g[i - 1] = f[i - 1]
    <3>1. i - 1 \in 0 .. n /\ i - 1 \in 0 .. n + 1
      BY <1>2
    <3> QED
      BY <2>1, <3>1
  <2>3. Upto(n + 1, g)
    <3>1. \A i \in 0 .. n + 1 : i = 0 \/ i \in 1 .. n + 1
      BY <1>2
    <3> QED
      BY <2>2, <3>1
  <2> HIDE DEF Upto
  <2> QED
    BY <1>2, <2>3
<1> HIDE DEF Upto
<1>3. T = Nat
  BY <1>1, <1>2, Induction
<1> USE DEF Upto
<1>4. ASSUME NEW n \in Nat, NEW f, NEW g, Upto(n, f), Upto(n, g)
      PROVE  f = g
  <2> DEFINE E == {k \in Nat : k \in 0 .. n => f[k] = g[k]}
  <2>1. 0 \in E
    BY <1>4
  <2>2. ASSUME NEW k \in E PROVE k + 1 \in E
    <3>1. CASE k + 1 \in 0 .. n
      <4>1. k \in 0 .. n /\ k \in Nat /\ (k + 1) - 1 = k /\ k + 1 # 0
        BY <1>4, <2>2, <3>1
      <4>2. f[k] = g[k]
        BY <2>2, <4>1
      <4> QED
        BY <1>4, <3>1, <4>1, <4>2
    <3>2. CASE k + 1 \notin 0 .. n
      BY <2>2, <3>2
    <3> QED
      BY <3>1, <3>2
  <2>3. E = Nat
    <3> HIDE DEF E
    <3>1. E \in SUBSET Nat
      BY DEF E
    <3> QED
      BY <2>1, <2>2, <3>1, Induction
  <2>4. \A k \in 0 .. n : f[k] = g[k]
    BY <2>3
  <2> QED
    BY <1>4, <2>4
<1> DEFINE F == [n \in Nat |-> (CHOOSE f : Upto(n, f))[n]]
<1>5. ASSUME NEW n \in Nat PROVE Upto(n, CHOOSE f : Upto(n, f))
  <2>1. \E f : Upto(n, f)
    BY <1>3
  <2> HIDE DEF Upto
  <2> QED
    BY <2>1
<1>6. ASSUME NEW n \in Nat, n # 0 PROVE F[n] = Radix * F[n - 1]
  <2> DEFINE f == CHOOSE h : Upto(n, h)
             g == CHOOSE h : Upto(n - 1, h)
  <2>1. n - 1 \in Nat /\ n \in 0 .. n
    BY <1>6
  <2>2. Upto(n, f) /\ Upto(n - 1, g)
    BY <1>5, <2>1
  <2> HIDE DEF f, g
  <2>3. Upto(n - 1, [i \in 0 .. n - 1 |-> f[i]])
    <3> DEFINE h == [i \in 0 .. n - 1 |-> f[i]]
    <3>1. ASSUME NEW i \in 0 .. n - 1
          PROVE  h[i] = IF i = 0 THEN 1 ELSE Radix * h[i - 1]
      <4>1. i \in 0 .. n
        BY <1>6
      <4>2. i # 0 => i - 1 \in 0 .. n - 1
        BY <1>6
      <4>3. h[i] = f[i] /\ (i # 0 => h[i - 1] = f[i - 1])
        BY <4>2
      <4>4. f[i] = IF i = 0 THEN 1 ELSE Radix * f[i - 1]
        BY <2>2, <4>1
      <4> HIDE DEF h
      <4> QED
        BY <4>3, <4>4
    <3>2. h = [i \in 0 .. n - 1 |-> h[i]]
      OBVIOUS
    <3> HIDE DEF h
    <3>3. h = [i \in 0 .. n - 1 |-> IF i = 0 THEN 1 ELSE Radix * h[i - 1]]
      BY <3>1, <3>2
    <3> QED
      BY <3>3 DEF h
  <2>4. [i \in 0 .. n - 1 |-> f[i]] = g
    <3> HIDE DEF Upto
    <3> QED
      BY <1>4, <2>1, <2>2, <2>3
  <2>5. f[n] = Radix * f[n - 1]
    BY <1>6, <2>1, <2>2
  <2>6. f[n - 1] = g[n - 1]
    BY <2>1, <2>4
  <2>7. F[n] = f[n] /\ F[n - 1] = g[n - 1]
    BY <1>6, <2>1 DEF f, g
  <2> QED
    BY <2>5, <2>6, <2>7
<1>7. F[0] = 1
  <2> DEFINE f == CHOOSE h : Upto(0, h)
  <2>1. Upto(0, f)
    BY <1>5
  <2>2. F[0] = f[0]
    OBVIOUS
  <2> HIDE DEF f
  <2> QED
    BY <2>1, <2>2
<1>8. F = [n \in Nat |-> IF n = 0 THEN 1 ELSE Radix * F[n - 1]]
  <2> HIDE DEF Upto
  <2>1. F = [n \in Nat |-> F[n]]
    OBVIOUS
  <2> HIDE DEF F
  <2>2. \A n \in Nat : F[n] = IF n = 0 THEN 1 ELSE Radix * F[n - 1]
    BY <1>6, <1>7
  <2> QED
    BY <2>1, <2>2
<1> HIDE DEF F
<1> QED
  BY <1>8 DEF Place

(* Places are positive, each Radix times the one before. *)
LEMMA PlaceValues ==
  /\ Place[0] = 1
  /\ \A n \in Nat : Place[n + 1] = Radix * Place[n] /\ Place[n] \in Nat \ {0}
<1>1. Place[0] = 1
  BY PlaceDef
<1>2. ASSUME NEW n \in Nat PROVE Place[n + 1] = Radix * Place[n]
  <2>1. n + 1 \in Nat /\ n + 1 # 0 /\ (n + 1) - 1 = n
    OBVIOUS
  <2> QED
    BY <2>1, PlaceDef
<1> DEFINE T == {n \in Nat : Place[n] \in Nat \ {0}}
<1>3. 0 \in T
  BY <1>1
<1>4. ASSUME NEW n \in T PROVE n + 1 \in T
  <2>1. \A r, p \in Nat \ {0} : r * p \in Nat \ {0}
    OBVIOUS
  <2> QED
    BY <1>2, <2>1, RadixAssumption
<1>5. T \in SUBSET Nat
  OBVIOUS
<1> HIDE DEF T
<1>6. T = Nat
  BY <1>3, <1>4, <1>5, Induction
<1> QED
  BY <1>1, <1>2, <1>6 DEF T

(* Places multiply as powers do. *)
LEMMA PlaceSum ==
  ASSUME NEW m \in Nat, NEW n \in Nat
  PROVE  Place[m + n] = Place[m] * Place[n]
<1> DEFINE T == {k \in Nat : Place[m + k] = Place[m] * Place[k]}
<1>1. 0 \in T
  BY PlaceValues
<1>2. ASSUME NEW k \in T PROVE k + 1 \in T
  <2>1. /\ m + k \in Nat /\ m + (k + 1) = (m + k) + 1
        /\ Place[m + k] = Place[m] * Place[k]
    BY <1>2
  <2>2. /\ Place[m + (k + 1)] = Radix * (Place[m] * Place[k])
        /\ Place[k + 1] = Radix * Place[k]
        /\ Place[m] \in Nat /\ Place[k] \in Nat
    BY <1>2, <2>1, PlaceValues
  <2>3. \A r, a, b \in Nat : r * (a * b) = a * (r * b)
    OBVIOUS
  <2>4. Place[m + (k + 1)] = Place[m] * Place[k + 1]
    BY <2>2, <2>3, RadixAssumption
  <2> QED
    BY <1>2, <2>4
<1>3. T \in SUBSET Nat
  OBVIOUS
<1> HIDE DEF T
<1>4. T = Nat
  BY <1>1, <1>2, <1>3, Induction
<1> QED
  BY <1>4 DEF T

(* Quotient and remainder, for negative numbers too. *)
LEMMA DivMod ==
  ASSUME NEW v \in Int, NEW p \in Nat \ {0}
  PROVE  /\ v \div p \in Int /\ v % p \in 0 .. p - 1
         /\ v = (p * (v \div p)) + (v % p)
OBVIOUS

(* There is one quotient and one remainder. *)
LEMMA DivModUnique ==
  ASSUME NEW p \in Nat \ {0}, NEW q \in Int, NEW x \in 0 .. p - 1
  PROVE  /\ ((p * q) + x) % p = x
         /\ ((p * q) + x) \div p = q
OBVIOUS

(* Division twice is division by the product. *)
LEMMA DivTwice ==
  ASSUME NEW v \in Int, NEW p \in Nat \ {0}, NEW r \in Nat \ {0}
  PROVE  /\ v % (p * r) = (v % p) + (((v \div p) % r) * p)
         /\ v \div (p * r) = (v \div p) \div r
<1> DEFINE q == v \div p
           x == v % p
           s == q \div r
           t == q % r
<1>1. q \in Int /\ x \in 0 .. p - 1 /\ v = (p * q) + x
  BY DivMod
<1>2. s \in Int /\ t \in 0 .. r - 1 /\ q = (r * s) + t
  <2> HIDE DEF q
  <2> QED
    BY <1>1, DivMod
<1> HIDE DEF q, x, s, t
<1>3. v = ((p * r) * s) + ((t * p) + x)
  <2>1. p * ((r * s) + t) = ((p * r) * s) + (t * p)
    BY <1>2
  <2> QED
    BY <1>1, <1>2, <2>1
<1>4. p * r \in Nat \ {0}
  OBVIOUS
<1>5. (t * p) + x \in 0 .. (p * r) - 1
  <2>1. t + 1 <= r /\ t \in Nat /\ r \in Nat
    BY <1>2
  <2>2. (t + 1) * p <= r * p
    <3>1. \A a, b, c \in Nat : a <= b => a * c <= b * c
      OBVIOUS
    <3> QED
      BY <2>1, <3>1
  <2>3. (t + 1) * p = (t * p) + p /\ t * p \in Nat /\ r * p = p * r
    BY <2>1
  <2> QED
    BY <1>1, <1>4, <2>2, <2>3
<1>6. /\ (((p * r) * s) + ((t * p) + x)) % (p * r) = (t * p) + x
      /\ (((p * r) * s) + ((t * p) + x)) \div (p * r) = s
  <2> DEFINE m == p * r
             y == (t * p) + x
  <2>1. m \in Nat \ {0} /\ y \in 0 .. m - 1
    BY <1>4, <1>5
  <2> HIDE DEF m, y
  <2>2. ((m * s) + y) % m = y /\ ((m * s) + y) \div m = s
    BY <1>2, <2>1, DivModUnique
  <2> QED
    BY <2>2 DEF m, y
<1>7. v % (p * r) = (t * p) + x /\ v \div (p * r) = s
  BY <1>3, <1>6
<1>8. (t * p) + x = x + (t * p)
  BY <1>1, <1>2
<1> QED
  BY <1>7, <1>8 DEF q, x, s, t

(* Running totals of a table exist. *)
LEMMA Totals ==
  ASSUME NEW inc, NEW n \in Nat
  PROVE  \E f : f = [i \in 0 .. n |-> IF i = 0 THEN 0 ELSE f[i - 1] + inc[i]]
<1> DEFINE Upto(m, f) ==
             f = [i \in 0 .. m |-> IF i = 0 THEN 0 ELSE f[i - 1] + inc[i]]
           T == {m \in Nat : \E f : Upto(m, f)}
<1>1. 0 \in T
  <2>1. Upto(0, [i \in 0 .. 0 |-> 0])
    OBVIOUS
  <2> QED
    BY <2>1
<1>2. ASSUME NEW m \in T PROVE m + 1 \in T
  <2>1. PICK f : Upto(m, f)
    BY <1>2
  <2> DEFINE g == [i \in 0 .. m + 1 |-> IF i = 0 THEN 0
                                        ELSE f[i - 1] + inc[i]]
  <2>2. ASSUME NEW i \in 1 .. m + 1 PROVE g[i - 1] = f[i - 1]
    <3>1. i - 1 \in 0 .. m /\ i - 1 \in 0 .. m + 1
      BY <1>2
    <3> QED
      BY <2>1, <3>1
  <2>3. Upto(m + 1, g)
    <3>1. \A i \in 0 .. m + 1 : i = 0 \/ i \in 1 .. m + 1
      BY <1>2
    <3> QED
      BY <2>2, <3>1
  <2> HIDE DEF Upto
  <2> QED
    BY <1>2, <2>3
<1>3. T \in SUBSET Nat
  OBVIOUS
<1> HIDE DEF Upto, T
<1>4. T = Nat
  BY <1>1, <1>2, <1>3, Induction
<1> QED
  BY <1>4 DEF T, Upto

(* The digits of a number, whatever its size and sign. *)
LEMMA LEDigits ==
  ASSUME NEW v \in Int, NEW w \in Nat
  PROVE  /\ LE(v, w) \in Seq(0 .. Radix - 1) /\ Len(LE(v, w)) = w
         /\ \A d \in 1 .. w : LE(v, w)[d] = (v \div Place[d - 1]) % Radix
<1>1. \A d \in 1 .. w : LE(v, w)[d] = (v \div Place[d - 1]) % Radix
  BY DEF LE
<1>2. \A d \in 1 .. w : (v \div Place[d - 1]) % Radix \in 0 .. Radix - 1
  <2>1. \A d \in 1 .. w : d - 1 \in Nat
    OBVIOUS
  <2>2. \A d \in 1 .. w : Place[d - 1] \in Nat \ {0}
    BY <2>1, PlaceValues
  <2>3. Radix \in Nat \ {0}
    BY RadixAssumption
  <2> QED
    BY <2>2, <2>3, DivMod
<1>3. LE(v, w) \in [1 .. w -> 0 .. Radix - 1]
  BY <1>2 DEF LE
<1>4. LE(v, w) \in Seq(0 .. Radix - 1) /\ Len(LE(v, w)) = w
  <2> DEFINE s == LE(v, w)
             D == 0 .. Radix - 1
  <2>1. s \in [1 .. w -> D]
    BY <1>3
  <2> HIDE DEF s, D
  <2>2. s \in Seq(D)
    BY <2>1
  <2>3. Len(s) = w
    BY <2>1, <2>2
  <2> QED
    BY <2>2, <2>3 DEF s, D
<1> QED
  BY <1>1, <1>4

(* Two halves of eight are the sixteen digits. *)
LEMMA DigitsAreLE ==
  ASSUME NEW v \in Int, NEW w \in Nat
  PROVE  Digits(v, w) = LE(v, w)
<1>1. CASE w # 16
  BY <1>1 DEF Digits
<1>2. CASE w = 16
  <2> DEFINE low == LE(v, 8)
             high == LE(v \div Place[8], 8)
             D == 0 .. Radix - 1
  <2>1. Place[8] \in Nat \ {0} /\ v \div Place[8] \in Int
    BY PlaceValues, DivMod
  <2>2. /\ low \in Seq(D) /\ Len(low) = 8
        /\ \A d \in 1 .. 8 : low[d] = (v \div Place[d - 1]) % Radix
    BY LEDigits
  <2>3. /\ high \in Seq(D) /\ Len(high) = 8
        /\ \A d \in 1 .. 8 :
             high[d] = ((v \div Place[8]) \div Place[d - 1]) % Radix
    BY <2>1, LEDigits
  <2>4. /\ LE(v, 16) \in Seq(D) /\ Len(LE(v, 16)) = 16
        /\ \A d \in 1 .. 16 : LE(v, 16)[d] = (v \div Place[d - 1]) % Radix
    BY LEDigits
  <2> HIDE DEF low, high, D
  <2>5. /\ low \o high \in Seq(D) /\ Len(low \o high) = 16
        /\ \A d \in 1 .. 8 : (low \o high)[d] = low[d]
        /\ \A d \in 9 .. 16 : (low \o high)[d] = high[d - 8]
    <3>1. /\ low \o high \in Seq(D) /\ Len(low \o high) = 8 + 8
          /\ \A d \in 1 .. 8 + 8 :
               (low \o high)[d] = IF d <= 8 THEN low[d] ELSE high[d - 8]
      <4>1. /\ low \o high \in Seq(D)
            /\ Len(low \o high) = Len(low) + Len(high)
            /\ \A d \in 1 .. Len(low) + Len(high) :
                 (low \o high)[d] = IF d <= Len(low) THEN low[d]
                                    ELSE high[d - Len(low)]
        BY <2>2, <2>3, ConcatProperties
      <4> QED
        BY <2>2, <2>3, <4>1
    <3>2. \A d \in 1 .. 8 : d \in 1 .. 8 + 8 /\ d <= 8
      OBVIOUS
    <3>3. \A d \in 9 .. 16 : d \in 1 .. 8 + 8 /\ ~(d <= 8)
      OBVIOUS
    <3>4. 8 + 8 = 16
      OBVIOUS
    <3> QED
      BY <3>1, <3>2, <3>3, <3>4
  <2>6. ASSUME NEW d \in 9 .. 16
        PROVE  high[d - 8] = (v \div Place[d - 1]) % Radix
    <3> DEFINE k == (d - 8) - 1
    <3>1. k \in Nat /\ d - 8 \in 1 .. 8 /\ 8 + k = d - 1
      OBVIOUS
    <3> HIDE DEF k
    <3>2. Place[8 + k] = Place[8] * Place[k] /\ Place[k] \in Nat \ {0}
      BY <3>1, PlaceSum, PlaceValues
    <3>3. v \div (Place[8] * Place[k]) = (v \div Place[8]) \div Place[k]
      BY <2>1, <3>2, DivTwice
    <3>4. high[d - 8] = ((v \div Place[8]) \div Place[k]) % Radix
      BY <2>3, <3>1 DEF k
    <3> QED
      BY <3>1, <3>2, <3>3, <3>4
  <2>7. ASSUME NEW d \in 1 .. 16
        PROVE  (low \o high)[d] = LE(v, 16)[d]
    <3>1. d \in 1 .. 8 \/ d \in 9 .. 16
      OBVIOUS
    <3> QED
      BY <2>2, <2>4, <2>5, <2>6, <3>1
  <2>8. low \o high = LE(v, 16)
    <3> DEFINE a == low \o high
               b == LE(v, 16)
    <3>1. a \in Seq(D) /\ b \in Seq(D) /\ Len(a) = 16 /\ Len(b) = 16
      BY <2>4, <2>5
    <3>2. \A d \in 1 .. 16 : a[d] = b[d]
      BY <2>7
    <3> HIDE DEF a, b
    <3>3. a = b
      BY <3>1, <3>2, SeqEqual
    <3> QED
      BY <3>3 DEF a, b
  <2> QED
    BY <1>2, <2>8 DEF Digits, U128, low, high
<1> QED
  BY <1>1, <1>2

(* What digits are worth: the number, reduced to their width. *)
LEMMA ValueOfDigits ==
  ASSUME NEW v \in Int, NEW w \in Nat, NEW bytes, Len(bytes) = w,
         \A d \in 1 .. w : bytes[d] = LE(v, w)[d]
  PROVE  ValueOf(bytes) = v % Place[w]
<1> DEFINE upTo[n \in 0 .. Len(bytes)] ==
             IF n = 0 THEN 0 ELSE upTo[n - 1] + bytes[n] * Place[n - 1]
           inc == [n \in 1 .. w |-> bytes[n] * Place[n - 1]]
<1>1. ValueOf(bytes) = upTo[w]
  BY DEF ValueOf
<1>2. \E f : f = [n \in 0 .. w |->
                    IF n = 0 THEN 0 ELSE f[n - 1] + bytes[n] * Place[n - 1]]
  <2>1. PICK f : f = [n \in 0 .. w |->
                        IF n = 0 THEN 0 ELSE f[n - 1] + inc[n]]
    BY Totals
  <2>2. f = [n \in 0 .. w |->
               IF n = 0 THEN 0 ELSE f[n - 1] + bytes[n] * Place[n - 1]]
    <3>1. \A n \in 0 .. w : n # 0 => n \in 1 .. w
      OBVIOUS
    <3>2. \A n \in 1 .. w : inc[n] = bytes[n] * Place[n - 1]
      OBVIOUS
    <3> HIDE DEF inc
    <3> QED
      BY <2>1, <3>1, <3>2
  <2> QED
    BY <2>2
<1>3. upTo = [n \in 0 .. w |->
                IF n = 0 THEN 0 ELSE upTo[n - 1] + bytes[n] * Place[n - 1]]
  BY <1>2
<1> HIDE DEF upTo
<1> DEFINE T == {n \in Nat : n <= w => upTo[n] = v % Place[n]}
<1>4. 0 \in T
  <2>1. v % 1 = 0
    OBVIOUS
  <2> QED
    BY <1>3, <2>1, PlaceValues
<1>5. ASSUME NEW n \in T PROVE n + 1 \in T
  <2> SUFFICES ASSUME n + 1 <= w PROVE upTo[n + 1] = v % Place[n + 1]
    BY <1>5
  <2>1. /\ n \in Nat /\ n + 1 \in 1 .. w /\ n + 1 \in 0 .. w
        /\ n + 1 # 0 /\ (n + 1) - 1 = n /\ n <= w
    BY <1>5
  <2>2. upTo[n + 1] = upTo[n] + bytes[n + 1] * Place[n]
    BY <1>3, <2>1
  <2>3. bytes[n + 1] = (v \div Place[n]) % Radix
    BY <2>1, LEDigits
  <2>4. upTo[n] = v % Place[n]
    BY <1>5, <2>1
  <2>5. /\ Place[n] \in Nat \ {0} /\ Radix \in Nat \ {0}
        /\ Place[n + 1] = Place[n] * Radix
    <3>1. /\ Place[n] \in Nat \ {0} /\ Radix \in Nat \ {0}
          /\ Place[n + 1] = Radix * Place[n]
      BY <2>1, PlaceValues, RadixAssumption
    <3>2. \A a, b \in Nat : a * b = b * a
      OBVIOUS
    <3> QED
      BY <3>1, <3>2
  <2>6. v % (Place[n] * Radix) =
          (v % Place[n]) + (((v \div Place[n]) % Radix) * Place[n])
    BY <2>5, DivTwice
  <2> QED
    BY <2>2, <2>3, <2>4, <2>5, <2>6
<1>6. T \in SUBSET Nat
  OBVIOUS
<1> HIDE DEF T
<1>7. T = Nat
  BY <1>4, <1>5, <1>6, Induction
<1> QED
  BY <1>1, <1>7 DEF T

-----------------------------------------------------------------------------
(* The SDK's bytes. *)

(* Field by field, where the SDK writes and where the program reads. *)
LEMMA Layouts ==
  ASSUME NEW kind \in Kind
  PROVE  /\ Fields(kind) \in {7, 8} /\ SdkLength(kind) = Fields(kind) + 48
         /\ DOMAIN SdkLayout(kind) = 1 .. Fields(kind)
         /\ DOMAIN RestLayout(kind) = 1 .. Fields(kind)
         /\ \A i \in 1 .. Fields(kind) :
              /\ SdkLayout(kind)[i].name = RestLayout(kind)[i].name
              /\ SdkLayout(kind)[i].width = RestLayout(kind)[i].width
              /\ SdkLayout(kind)[i].offset = RestLayout(kind)[i].offset + 1
              /\ RestLayout(kind)[i].offset \in Nat
              /\ RestLayout(kind)[i].width \in Nat \ {0}
<1>1. /\ Fields(kind) \in {7, 8} /\ SdkLength(kind) = Fields(kind) + 48
      /\ DOMAIN SdkLayout(kind) = 1 .. Fields(kind)
      /\ DOMAIN RestLayout(kind) = 1 .. Fields(kind)
  BY DEF Fields, SdkLength, SdkLayout, RestLayout
<1>2. ASSUME NEW i \in 1 .. Fields(kind)
      PROVE  /\ SdkLayout(kind)[i].name = RestLayout(kind)[i].name
             /\ SdkLayout(kind)[i].width = RestLayout(kind)[i].width
             /\ SdkLayout(kind)[i].offset = RestLayout(kind)[i].offset + 1
             /\ RestLayout(kind)[i].offset \in Nat
             /\ RestLayout(kind)[i].width \in Nat \ {0}
  BY <1>1 DEF SdkLayout, RestLayout, Field
<1> QED
  BY <1>1, <1>2

(* Where the fields are: each begins where the one before it ended. *)
LEMMA Places ==
  ASSUME NEW kind \in Kind
  PROVE  /\ SdkLayout(kind)[1].offset = 1
         /\ \A i \in 1 .. Fields(kind) - 1 :
              SdkLayout(kind)[i + 1].offset =
                SdkLayout(kind)[i].offset + SdkLayout(kind)[i].width
         /\ SdkLayout(kind)[Fields(kind)].offset
              + SdkLayout(kind)[Fields(kind)].width = SdkLength(kind)
         /\ \A i \in 1 .. Fields(kind) :
              SdkLayout(kind)[i].offset + SdkLayout(kind)[i].width
                <= SdkLength(kind)
BY DEF SdkLayout, Field, Fields, SdkLength, Kind

(* So no two of them share a byte, and none has the tag's. *)
LEMMA Apart ==
  ASSUME NEW kind \in Kind, NEW i \in 1 .. Fields(kind),
         NEW j \in 1 .. Fields(kind), i < j
  PROVE  SdkLayout(kind)[i].offset + SdkLayout(kind)[i].width
           <= SdkLayout(kind)[j].offset
BY DEF SdkLayout, Field, Fields, Kind

(* The tag is the first byte, the digits of a field follow its offset.     *)
LEMMA EncodedBytes ==
  ASSUME NEW kind \in Kind, NEW args
  PROVE  /\ Encoded(kind, args) = [k \in 1 .. SdkLength(kind) |->
                                     Encoded(kind, args)[k]]
         /\ Encoded(kind, args)[1] = TagOf(kind)
         /\ \A i \in 1 .. Fields(kind) :
              LET f == SdkLayout(kind)[i] IN
              \A d \in 1 .. f.width :
                /\ f.offset + d \in 2 .. SdkLength(kind)
                /\ Encoded(kind, args)[f.offset + d] =
                     Digits(args[f.name], f.width)[d]
<1> DEFINE lay == SdkLayout(kind)
           Covering(k) == {i \in DOMAIN lay :
                             k - lay[i].offset \in 1 .. lay[i].width}
           Byte(k) ==
             IF Covering(k) = {}
             THEN IF k = 1 THEN TagOf(kind) ELSE 0
             ELSE LET f == lay[Max(Covering(k))]
                  IN  Digits(args[f.name], f.width)[k - f.offset]
<1>1. Encoded(kind, args) = [k \in 1 .. SdkLength(kind) |-> Byte(k)]
  BY DEF Encoded
<1>2. /\ DOMAIN lay = 1 .. Fields(kind) /\ Fields(kind) \in {7, 8}
      /\ SdkLength(kind) = Fields(kind) + 48
      /\ \A i \in 1 .. Fields(kind) :
           lay[i].offset \in Nat \ {0} /\ lay[i].width \in Nat \ {0}
  BY Layouts
<1>3. \A i, j \in 1 .. Fields(kind) :
        i < j => lay[i].offset + lay[i].width <= lay[j].offset
  BY Apart
<1>4. \A i \in 1 .. Fields(kind) :
        lay[i].offset + lay[i].width <= SdkLength(kind)
  BY Places
<1> HIDE DEF lay
<1>5. Covering(1) = {}
  BY <1>2
<1>6. ASSUME NEW i \in 1 .. Fields(kind), NEW d \in 1 .. lay[i].width
      PROVE  /\ lay[i].offset + d \in 2 .. SdkLength(kind)
             /\ Covering(lay[i].offset + d) = {i}
  <2> DEFINE k == lay[i].offset + d
  <2>1. /\ lay[i].offset \in Nat \ {0} /\ lay[i].width \in Nat \ {0}
        /\ k \in Nat /\ k - lay[i].offset = d
    BY <1>2
  <2>2. lay[i].offset + lay[i].width <= SdkLength(kind)
    BY <1>4
  <2>3. k \in 2 .. SdkLength(kind)
    BY <1>2, <2>1, <2>2
  <2>4. i \in Covering(k)
    BY <1>2, <2>1
  <2>5. ASSUME NEW j \in Covering(k), j # i PROVE FALSE
    <3>1. /\ j \in 1 .. Fields(kind)
          /\ lay[j].offset \in Nat /\ lay[j].width \in Nat
          /\ k - lay[j].offset \in 1 .. lay[j].width
      BY <1>2, <2>5
    <3>2. CASE i < j
      <4>1. lay[i].offset + lay[i].width <= lay[j].offset
        BY <1>3, <3>1, <3>2
      <4> QED
        BY <2>1, <3>1, <4>1
    <3>3. CASE j < i
      <4>1. lay[j].offset + lay[j].width <= lay[i].offset
        BY <1>3, <3>1, <3>3
      <4> QED
        BY <2>1, <3>1, <4>1
    <3> QED
      BY <1>2, <2>5, <3>1, <3>2, <3>3
  <2> HIDE DEF Covering
  <2>6. Covering(k) = {i}
    BY <2>4, <2>5
  <2> QED
    BY <2>3, <2>6
<1>7. ASSUME NEW i \in 1 .. Fields(kind), NEW d \in 1 .. lay[i].width
      PROVE  Byte(lay[i].offset + d) =
               Digits(args[lay[i].name], lay[i].width)[d]
  <2> DEFINE k == lay[i].offset + d
  <2>1. Covering(k) = {i}
    BY <1>6
  <2>2. Max({i}) = i
    BY <1>2 DEF Max
  <2>3. k - lay[i].offset = d
    BY <1>2
  <2> HIDE DEF k, Covering
  <2>4. Byte(k) = Digits(args[lay[i].name], lay[i].width)[k - lay[i].offset]
    BY <2>1, <2>2
  <2> QED
    BY <2>3, <2>4 DEF k
<1>8. Byte(1) = TagOf(kind)
  BY <1>5
<1>9. 1 \in 1 .. SdkLength(kind)
  BY <1>2
<1> HIDE DEF Byte
<1>10. ASSUME NEW i \in 1 .. Fields(kind), NEW d \in 1 .. lay[i].width
       PROVE  /\ lay[i].offset + d \in 2 .. SdkLength(kind)
              /\ Encoded(kind, args)[lay[i].offset + d] =
                   Digits(args[lay[i].name], lay[i].width)[d]
  <2>1. lay[i].offset + d \in 2 .. SdkLength(kind)
    BY <1>6
  <2>2. lay[i].offset + d \in 1 .. SdkLength(kind)
    BY <2>1
  <2> QED
    BY <1>1, <1>7, <2>1, <2>2
<1> QED
  BY <1>1, <1>8, <1>9, <1>10 DEF lay

-----------------------------------------------------------------------------
(* What the program finds in them. *)

(* The digits of a field as the caller's argument has them. *)
DigitsOf(call, i) ==
  LET f == SdkLayout(call.kind)[i] IN Digits(call.args[f.name], f.width)

(* The program finds the kind of a call, and in each field of it, where    *)
(* the program looks, the digits of the argument the SDK was given.        *)
Finds(bytes, call) ==
  /\ bytes # <<>>
  /\ KindOf(Head(bytes)) = call.kind
  /\ Readable(Tail(bytes), call.kind)
  /\ \A i \in DOMAIN RestLayout(call.kind) :
       LET f == RestLayout(call.kind)[i]
           found == Slice(Tail(bytes), f)
       IN  /\ Len(found) = f.width
           /\ \A d \in 1 .. f.width : found[d] = DigitsOf(call, i)[d]

(* Bytes that begin with a payload are that call, whatever follows them. *)
LEMMA BeginsWithACall ==
  ASSUME NEW call, call.kind \in Kind, NEW S, NEW bytes \in Seq(S),
         Len(bytes) >= SdkLength(call.kind),
         \A k \in 1 .. SdkLength(call.kind) :
           bytes[k] = Encoded(call.kind, call.args)[k]
  PROVE  Finds(bytes, call)
<1> DEFINE kind == call.kind
           args == call.args
           sdk == SdkLayout(kind)
           rest == RestLayout(kind)
           n == Fields(kind)
<1>1. /\ n \in {7, 8} /\ SdkLength(kind) = n + 48
      /\ DOMAIN rest = 1 .. n
      /\ \A i \in 1 .. n :
           /\ sdk[i].name = rest[i].name /\ sdk[i].width = rest[i].width
           /\ sdk[i].offset = rest[i].offset + 1
           /\ rest[i].offset \in Nat /\ rest[i].width \in Nat \ {0}
  BY Layouts
<1>2. \A i \in 1 .. n : sdk[i].offset + sdk[i].width <= SdkLength(kind)
  BY Places
<1>3. /\ Encoded(kind, args)[1] = TagOf(kind)
      /\ \A i \in 1 .. n :
         \A d \in 1 .. sdk[i].width :
           /\ sdk[i].offset + d \in 2 .. SdkLength(kind)
           /\ Encoded(kind, args)[sdk[i].offset + d] =
                Digits(args[sdk[i].name], sdk[i].width)[d]
  BY EncodedBytes
<1>4. Len(bytes) \in Nat /\ bytes # <<>>
  BY <1>1, LenProperties, EmptySeq
<1>5. /\ Tail(bytes) \in Seq(S) /\ Len(Tail(bytes)) = Len(bytes) - 1
      /\ \A k \in 1 .. Len(Tail(bytes)) : Tail(bytes)[k] = bytes[k + 1]
      /\ Head(bytes) = bytes[1]
  BY <1>4, HeadTailProperties DEF Head
<1>6. KindOf(Head(bytes)) = kind
  <2>1. bytes[1] = TagOf(kind)
    BY <1>1, <1>3
  <2> QED
    BY <1>5, <2>1 DEF KindOf, TagOf, Kind
<1> HIDE DEF sdk, rest, n
<1>7. \A i \in 1 .. n : rest[i].offset + rest[i].width <= Len(Tail(bytes))
  <2>1. SUFFICES ASSUME NEW i \in 1 .. n
                 PROVE  rest[i].offset + rest[i].width <= Len(Tail(bytes))
    OBVIOUS
  <2>2. /\ rest[i].offset \in Nat /\ rest[i].width \in Nat
        /\ sdk[i].offset = rest[i].offset + 1
        /\ sdk[i].offset + rest[i].width <= SdkLength(kind)
    BY <1>1, <1>2
  <2>3. SdkLength(kind) \in Nat
    BY <1>1
  <2> QED
    BY <1>4, <1>5, <2>2, <2>3
<1>8. Readable(Tail(bytes), kind)
  BY <1>1, <1>7 DEF Readable, Fits, rest
<1>9. ASSUME NEW i \in 1 .. n
      PROVE  /\ Len(Slice(Tail(bytes), rest[i])) = rest[i].width
             /\ \A d \in 1 .. rest[i].width :
                  Slice(Tail(bytes), rest[i])[d] =
                    Digits(args[sdk[i].name], sdk[i].width)[d]
  <2> DEFINE at == rest[i].offset
             width == rest[i].width
             from == at + 1
             to == at + width
             tail == Tail(bytes)
  <2>0. /\ at \in Nat /\ width \in Nat \ {0} /\ sdk[i].offset = at + 1
        /\ Len(tail) \in Nat /\ at + width <= Len(tail)
    BY <1>1, <1>4, <1>5, <1>7
  <2> HIDE DEF at, width, tail
  <2>1. /\ from \in Nat \ {0} /\ to \in Nat /\ from <= to
        /\ to <= Len(tail) /\ (to - from) + 1 = width
    BY <2>0
  <2>2. \A k \in from .. to : tail[k] \in S
    <3>1. tail \in [1 .. Len(tail) -> S] /\ Len(tail) \in Nat
      BY <1>5, LenProperties DEF tail
    <3>2. from .. to \subseteq 1 .. Len(tail)
      BY <2>1, <3>1
    <3> HIDE DEF from, to
    <3>3. SUFFICES ASSUME NEW k \in from .. to PROVE tail[k] \in S
      OBVIOUS
    <3>4. k \in 1 .. Len(tail)
      BY <3>2
    <3> QED
      BY <3>1, <3>4
  <2>3. /\ Len(SubSeq(tail, from, to)) = width
        /\ \A d \in 1 .. width :
             SubSeq(tail, from, to)[d] = tail[(from + d) - 1]
    <3> HIDE DEF from, to
    <3> QED
      BY <2>1, <2>2, SubSeqProperties
  <2>4. Slice(tail, rest[i]) = SubSeq(tail, from, to)
    BY DEF Slice, at, width
  <2>5. ASSUME NEW d \in 1 .. width
        PROVE  tail[(from + d) - 1] =
                 Digits(args[sdk[i].name], sdk[i].width)[d]
    <3>1. /\ (from + d) - 1 = at + d
          /\ (at + d) + 1 = sdk[i].offset + d
          /\ at + d \in 1 .. to
      BY <2>0
    <3>2. at + d \in 1 .. Len(tail)
      BY <2>0, <2>1, <3>1
    <3>3. tail[(from + d) - 1] = bytes[sdk[i].offset + d]
      BY <1>5, <3>1, <3>2 DEF tail
    <3>4. d \in 1 .. sdk[i].width
      BY <1>1 DEF width
    <3>5. /\ sdk[i].offset + d \in 1 .. SdkLength(kind)
          /\ Encoded(kind, args)[sdk[i].offset + d] =
               Digits(args[sdk[i].name], sdk[i].width)[d]
      BY <1>1, <1>3, <3>4
    <3> QED
      BY <3>3, <3>5
  <2> QED
    BY <2>3, <2>4, <2>5 DEF tail, width
<1> QED
  BY <1>1, <1>4, <1>6, <1>8, <1>9 DEF Finds, DigitsOf, rest, sdk, n

(* No two fields have a name in common. *)
LEMMA Names ==
  ASSUME NEW kind \in Kind, NEW i \in 1 .. Fields(kind),
         NEW j \in 1 .. Fields(kind),
         RestLayout(kind)[i].name = RestLayout(kind)[j].name
  PROVE  i = j
<1> DEFINE name(k) == RestLayout(kind)[k].name
<1>1. Fields(kind) \in {7, 8}
  BY Layouts
<1>2. /\ name(1) = "side" /\ name(2) = "asset" /\ name(3) = "size"
      /\ name(4) = "price" /\ name(5) = "fee" /\ name(6) = "amount"
      /\ name(7) = "positionBump"
      /\ Fields(kind) = 8 => name(8) = "portfolioBump"
  BY <1>1 DEF RestLayout, Field
<1>3. name(i) = name(j)
  OBVIOUS
<1>4. i \in {1, 2, 3, 4, 5, 6, 7, 8} /\ j \in {1, 2, 3, 4, 5, 6, 7, 8}
      /\ (i = 8 => Fields(kind) = 8) /\ (j = 8 => Fields(kind) = 8)
  BY <1>1
<1> HIDE DEF name
<1> QED
  BY <1>2, <1>3, <1>4

(* A name that no other field has stands for its own. *)
LEMMA ByName ==
  ASSUME NEW bytes, NEW layout, NEW n, NEW i \in DOMAIN layout,
         layout[i].name = n,
         \A j \in DOMAIN layout : layout[j].name = n => j = i
  PROVE  Values(bytes, layout)[n] = ValueOf(Slice(bytes, layout[i]))
<1> DEFINE place(m) == CHOOSE j \in DOMAIN layout : layout[j].name = m
           names == {layout[j].name : j \in DOMAIN layout}
<1>1. Values(bytes, layout) =
        [m \in names |-> ValueOf(Slice(bytes, layout[place(m)]))]
  BY DEF Values
<1>2. place(n) = i
  OBVIOUS
<1>3. n \in names
  OBVIOUS
<1> HIDE DEF place, names
<1> QED
  BY <1>1, <1>2, <1>3 DEF names

(* A field that holds a number's digits is worth the number, reduced. *)
LEMMA FieldsRead ==
  ASSUME NEW call \in Calls, NEW bytes, Finds(bytes, call)
  PROVE  LET kind == call.kind
             values == Values(Tail(bytes), RestLayout(kind))
         IN  \A i \in 1 .. Fields(kind) :
               LET f == SdkLayout(kind)[i] IN
               values[f.name] = call.args[f.name] % Limit(f)
<1> DEFINE kind == call.kind
           rest == RestLayout(kind)
           sdk == SdkLayout(kind)
           values == Values(Tail(bytes), rest)
<1>1. kind \in Kind
  BY CallAssumption
<1>2. SUFFICES ASSUME NEW i \in 1 .. Fields(kind)
               PROVE  values[sdk[i].name] =
                        call.args[sdk[i].name] % Limit(sdk[i])
  OBVIOUS
<1>3. /\ DOMAIN rest = 1 .. Fields(kind) /\ DOMAIN sdk = 1 .. Fields(kind)
      /\ sdk[i].name = rest[i].name /\ sdk[i].width = rest[i].width
      /\ rest[i].width \in Nat \ {0}
  BY <1>1, Layouts
<1>4. values[rest[i].name] = ValueOf(Slice(Tail(bytes), rest[i]))
  <2> DEFINE n == rest[i].name
  <2>1. \A j \in DOMAIN rest : rest[j].name = n => j = i
    BY <1>1, <1>3, Names
  <2>2. i \in DOMAIN rest /\ rest[i].name = n
    BY <1>3
  <2> HIDE DEF rest, n
  <2>3. values[n] = ValueOf(Slice(Tail(bytes), rest[i]))
    BY <2>1, <2>2, ByName
  <2> QED
    BY <2>3 DEF n
<1>5. call.args[sdk[i].name] \in Int
  BY <1>3, CallAssumption
<1> DEFINE v == call.args[sdk[i].name]
           w == sdk[i].width
           found == Slice(Tail(bytes), rest[i])
<1>6. /\ Len(found) = w
      /\ \A d \in 1 .. w : found[d] = Digits(v, w)[d]
  BY <1>3 DEF Finds, DigitsOf
<1>7. w \in Nat /\ v \in Int
  BY <1>3, <1>5
<1> HIDE DEF v, w, found
<1>8. ValueOf(found) = v % Place[w]
  <2>1. \A d \in 1 .. w : found[d] = LE(v, w)[d]
    BY <1>6, <1>7, DigitsAreLE
  <2> QED
    BY <1>6, <1>7, <2>1, ValueOfDigits
<1> QED
  BY <1>3, <1>4, <1>8 DEF found, v, w, Limit

-----------------------------------------------------------------------------
(* Bytes in a row. *)

(* Digits, and the letters of a name. *)
Byte == Int \cup {"S", "L", "O"}

(* From an offset on, these bytes say this. *)
Says(bytes, at, part) ==
  /\ at \in Nat
  /\ at + Len(part) <= Len(bytes)
  /\ SubSeq(bytes, at + 1, at + Len(part)) = part

(* What a row says is what its bytes are. *)
LEMMA SaysByteByByte ==
  ASSUME NEW bytes \in Seq(Byte), NEW part \in Seq(Byte), NEW at \in Nat,
         at + Len(part) <= Len(bytes)
  PROVE  Says(bytes, at, part) <=>
           \A d \in 1 .. Len(part) : bytes[at + d] = part[d]
<1> DEFINE n == Len(part)
           found == SubSeq(bytes, at + 1, at + n)
<1>1. n \in Nat /\ Len(bytes) \in Nat
  BY LenProperties
<1>2. \A k \in at + 1 .. at + n : bytes[k] \in Byte
  <2>1. \A k \in at + 1 .. at + n : k \in 1 .. Len(bytes)
    BY <1>1
  <2> HIDE DEF n
  <2> QED
    BY <2>1, ElementOfSeq
<1>3. at + 1 \in Int /\ at + n \in Int
  BY <1>1
<1>4. /\ found \in Seq(Byte)
      /\ Len(found) = IF at + 1 <= at + n
                      THEN ((at + n) - (at + 1)) + 1 ELSE 0
      /\ \A d \in 1 .. ((at + n) - (at + 1)) + 1 :
           found[d] = bytes[((at + 1) + d) - 1]
  <2> HIDE DEF n
  <2> QED
    BY <1>2, <1>3, SubSeqProperties
<1> HIDE DEF n, found
<1>5. /\ Len(found) = n
      /\ \A d \in 1 .. n : found[d] = bytes[at + d]
  <2>1. ((at + n) - (at + 1)) + 1 = n
    BY <1>1
  <2>2. \A d \in 1 .. n : ((at + 1) + d) - 1 = at + d
    BY <1>1
  <2>3. at + 1 <= at + n <=> n # 0
    BY <1>1
  <2> QED
    BY <1>4, <2>1, <2>2, <2>3
<1>6. found = part <=> \A d \in 1 .. n : bytes[at + d] = part[d]
  <2>1. ASSUME \A d \in 1 .. n : found[d] = part[d] PROVE found = part
    BY <1>4, <1>5, <2>1, SeqEqual DEF n
  <2> QED
    BY <1>5, <2>1
<1> QED
  BY <1>6 DEF Says, found, n

(* The bytes appended are said where the others end, and those go on       *)
(* saying what they said.                                                  *)
LEMMA Appended ==
  ASSUME NEW s \in Seq(Byte), NEW t \in Seq(Byte)
  PROVE  /\ s \o t \in Seq(Byte) /\ Len(s \o t) = Len(s) + Len(t)
         /\ Len(s) \in Nat /\ Len(t) \in Nat
         /\ Says(s \o t, Len(s), t)
         /\ \A at \in Nat, part \in Seq(Byte) :
              Says(s, at, part) => Says(s \o t, at, part)
<1> DEFINE m == Len(s)
           n == Len(t)
           st == s \o t
<1>1. m \in Nat /\ n \in Nat
  BY LenProperties
<1>2. /\ st \in Seq(Byte) /\ Len(st) = m + n
      /\ \A i \in 1 .. m + n : st[i] = IF i <= m THEN s[i] ELSE t[i - m]
  BY ConcatProperties
<1> HIDE DEF st
<1>3. Says(st, m, t)
  <2>1. \A d \in 1 .. n : st[m + d] = t[d]
    <3> HIDE DEF m, n
    <3>1. \A d \in 1 .. n : m + d \in 1 .. m + n /\ ~(m + d <= m)
                            /\ (m + d) - m = d
      BY <1>1
    <3> QED
      BY <1>2, <3>1
  <2> QED
    BY <1>1, <1>2, <2>1, SaysByteByByte
<1>4. ASSUME NEW at \in Nat, NEW part \in Seq(Byte), Says(s, at, part)
      PROVE  Says(st, at, part)
  <2>1. Len(part) \in Nat /\ at + Len(part) <= m
    BY <1>4, LenProperties DEF Says
  <2>2. \A d \in 1 .. Len(part) : s[at + d] = part[d]
    BY <1>4, <2>1, SaysByteByByte
  <2>3. \A d \in 1 .. Len(part) : st[at + d] = part[d]
    <3> HIDE DEF m, n
    <3>1. \A d \in 1 .. Len(part) : at + d \in 1 .. m + n /\ at + d <= m
      BY <1>1, <2>1
    <3> QED
      BY <1>2, <2>2, <3>1
  <2>4. at + Len(part) <= Len(st)
    BY <1>1, <1>2, <2>1
  <2> QED
    BY <1>2, <2>3, <2>4, SaysByteByByte
<1> QED
  BY <1>1, <1>2, <1>3, <1>4 DEF st

(* A row says of itself what it is. *)
LEMMA SaysItself ==
  ASSUME NEW s \in Seq(Byte)
  PROVE  Says(s, 0, s)
<1>1. Len(s) \in Nat /\ 0 + Len(s) <= Len(s)
  BY LenProperties
<1>2. \A d \in 1 .. Len(s) : s[0 + d] = s[d]
  BY <1>1
<1> QED
  BY <1>1, <1>2, SaysByteByByte

(* Two parts, then six, as the payloads have them. *)
Row(p, q, r, s, t, u) == p \o q \o r \o s \o t \o u

(* Of two, each is said where it begins. *)
LEMMA TwoParts ==
  ASSUME NEW p \in Seq(Byte), NEW q \in Seq(Byte)
  PROVE  /\ p \o q \in Seq(Byte) /\ Len(p \o q) = Len(p) + Len(q)
         /\ Says(p \o q, 0, p)
         /\ Says(p \o q, Len(p), q)
BY Appended, SaysItself

(* And of six. *)
LEMMA SixParts ==
  ASSUME NEW p \in Seq(Byte), NEW q \in Seq(Byte), NEW r \in Seq(Byte),
         NEW s \in Seq(Byte), NEW t \in Seq(Byte), NEW u \in Seq(Byte)
  PROVE  LET row == Row(p, q, r, s, t, u) IN
         /\ row \in Seq(Byte)
         /\ Says(row, 0, p)
         /\ Says(row, Len(p), q)
         /\ Says(row, Len(p) + Len(q), r)
         /\ Says(row, Len(p) + Len(q) + Len(r), s)
         /\ Says(row, Len(p) + Len(q) + Len(r) + Len(s), t)
         /\ Says(row, Len(p) + Len(q) + Len(r) + Len(s) + Len(t), u)
<1> DEFINE r1 == p \o q
           r2 == r1 \o r
           r3 == r2 \o s
           r4 == r3 \o t
           r5 == r4 \o u
<1>1. /\ r1 \in Seq(Byte) /\ Len(r1) = Len(p) + Len(q)
      /\ Says(r1, 0, p) /\ Says(r1, Len(p), q)
  BY TwoParts
<1>2. Len(p) \in Nat
  BY LenProperties
<1> HIDE DEF r1
<1>3. /\ r2 \in Seq(Byte) /\ Len(r2) = Len(r1) + Len(r)
      /\ Says(r2, 0, p) /\ Says(r2, Len(p), q) /\ Says(r2, Len(r1), r)
      /\ Len(r1) \in Nat
  BY <1>1, <1>2, Appended
<1> HIDE DEF r2
<1>4. /\ r3 \in Seq(Byte) /\ Len(r3) = Len(r2) + Len(s)
      /\ Says(r3, 0, p) /\ Says(r3, Len(p), q) /\ Says(r3, Len(r1), r)
      /\ Says(r3, Len(r2), s) /\ Len(r2) \in Nat
  BY <1>2, <1>3, Appended
<1> HIDE DEF r3
<1>5. /\ r4 \in Seq(Byte) /\ Len(r4) = Len(r3) + Len(t)
      /\ Says(r4, 0, p) /\ Says(r4, Len(p), q) /\ Says(r4, Len(r1), r)
      /\ Says(r4, Len(r2), s) /\ Says(r4, Len(r3), t) /\ Len(r3) \in Nat
  BY <1>2, <1>3, <1>4, Appended
<1> HIDE DEF r4
<1>6. /\ r5 \in Seq(Byte)
      /\ Says(r5, 0, p) /\ Says(r5, Len(p), q) /\ Says(r5, Len(r1), r)
      /\ Says(r5, Len(r2), s) /\ Says(r5, Len(r3), t)
      /\ Says(r5, Len(r4), u)
  BY <1>2, <1>3, <1>4, <1>5, Appended
<1> HIDE DEF r5
<1> QED
  BY <1>1, <1>3, <1>4, <1>5, <1>6 DEF r1, r2, r3, r4, r5, Row

(* Digits are bytes. *)
LEMMA DigitsAreBytes ==
  ASSUME NEW v \in Int, NEW w \in Nat
  PROVE  LE(v, w) \in Seq(Byte) /\ Len(LE(v, w)) = w
<1>1. LE(v, w) \in Seq(0 .. Radix - 1) /\ Len(LE(v, w)) = w
  BY LEDigits
<1>2. 0 .. Radix - 1 \subseteq Byte
  BY RadixAssumption DEF Byte
<1> QED
  BY <1>1, <1>2, SeqMonotonic

-----------------------------------------------------------------------------
(* What the programs called understand. *)

(* A number is read where its digits are. *)
LEMMA NumberSaid ==
  ASSUME NEW bytes, NEW f, NEW v \in Int, f.width \in Nat,
         Says(bytes, f.offset, LE(v, f.width))
  PROVE  ValueOf(Slice(bytes, f)) = v % Limit(f)
<1>1. Len(LE(v, f.width)) = f.width
  BY LEDigits
<1>2. Slice(bytes, f) = LE(v, f.width)
  BY <1>1 DEF Says, Slice
<1>3. ValueOf(LE(v, f.width)) = v % Place[f.width]
  BY <1>1, ValueOfDigits
<1> QED
  BY <1>2, <1>3 DEF Limit

(* What fits is not changed. *)
LEMMA SmallEnough ==
  ASSUME NEW p \in Nat \ {0}, NEW v \in 0 .. p - 1
  PROVE  v % p = v /\ v \div p = 0
OBVIOUS

(* A prefix is what the first bytes say. *)
LEMMA Begins ==
  ASSUME NEW bytes \in Seq(Byte), NEW tag \in Seq(Byte)
  PROVE  /\ IsPrefix(tag, bytes) <=> Says(bytes, 0, tag)
         /\ IsPrefix(tag, bytes) /\ tag # <<>> => bytes[1] = tag[1]
<1>1. Len(tag) \in Nat /\ Len(bytes) \in Nat
  BY LenProperties
<1>2. SubSeq(tag, 1, Len(tag)) = tag
  BY SubSeqFull
<1>3. 0 + 1 = 1 /\ 0 + Len(tag) = Len(tag)
  BY <1>1
<1>4. IsPrefix(tag, bytes) <=> Says(bytes, 0, tag)
  BY <1>1, <1>2, <1>3 DEF IsPrefix, Says
<1>5. ASSUME IsPrefix(tag, bytes), tag # <<>> PROVE bytes[1] = tag[1]
  <2>1. Len(tag) \in Nat \ {0}
    BY <1>5, EmptySeq
  <2>2. \A d \in 1 .. Len(tag) : bytes[0 + d] = tag[d]
    BY <1>3, <1>4, <1>5, SaysByteByByte DEF Says
  <2> QED
    BY <2>1, <2>2
<1> QED
  BY <1>4, <1>5

(* The formats of each program differ in the first byte of the tag, which  *)
(* is not that of the metadata's discriminator.                            *)
LEMMA FormatsApart ==
  ASSUME NEW f \in Formats
  PROVE  /\ f.tag \in Seq(Byte) /\ f.tag # <<>> /\ f.tag[1] # 210
         /\ \A g \in Formats :
              g.to = f.to /\ g.tag[1] = f.tag[1] => g = f
<1> DEFINE Engine ==
             {Format("engine", <<1>>, "init", <<Field("bump", 1, 1)>>),
              Format("engine", <<2>>, "deposit",
                     <<Field("amount", 1, 16)>>),
              Format("engine", <<7>>, "withdraw",
                     <<Field("amount", 1, 16)>>),
              Format("engine", <<14>>, "order",
                     <<Field("side", 1, 1), Field("asset", 2, 4),
                       Field("size", 6, 16), Field("price", 22, 8),
                       Field("fee", 30, 8)>>),
              Format("engine", <<20>>, "settle", <<>>)}
           System == Format("system", <<2, 0, 0, 0>>, "transfer",
                            <<Field("amount", 4, 8)>>)
           Token(t) ==
             {Format(t, <<3>>, "transfer", <<Field("amount", 1, 8)>>),
              Format(t, <<6>>, "authority", <<Field("type", 1, 1),
                                              Field("some", 2, 1)>>),
              Format(t, <<7>>, "mintTo", <<Field("amount", 1, 8)>>),
              Format(t, <<8>>, "burn", <<Field("amount", 1, 8)>>),
              Format(t, <<9>>, "close", <<>>)}
<1>1. \A g : g \in Formats <=>
        \/ g \in Engine \/ g = System \/ g \in Token("token")
        \/ g \in Token("token22")
  BY DEF Formats
<1>2. \A g, h \in Engine :
        g.to = "engine" /\ (g.tag[1] = h.tag[1] => g = h)
  BY DEF Format
<1>3. \A t : \A g, h \in Token(t) :
        g.to = t /\ (g.tag[1] = h.tag[1] => g = h)
  BY DEF Format
<1>4. System.to = "system"
  BY DEF Format
<1>5. f.tag \in Seq(Byte) /\ f.tag # <<>> /\ f.tag[1] # 210
  <2>1. \/ f.tag = <<2, 0, 0, 0>>
        \/ \E b \in {1, 2, 3, 6, 7, 8, 9, 14, 20} : f.tag = <<b>>
    BY <1>1 DEF Format
  <2>2. CASE f.tag = <<2, 0, 0, 0>>
    BY <2>2 DEF Byte
  <2>3. ASSUME NEW b \in {1, 2, 3, 6, 7, 8, 9, 14, 20}, f.tag = <<b>>
        PROVE  f.tag \in Seq(Byte) /\ f.tag # <<>> /\ f.tag[1] # 210
    BY <2>3 DEF Byte
  <2> QED
    BY <2>1, <2>2, <2>3
<1> HIDE DEF Engine, System, Token
<1>6. ASSUME NEW g \in Formats, g.to = f.to, g.tag[1] = f.tag[1]
      PROVE  g = f
  BY <1>1, <1>2, <1>3, <1>4, <1>6
<1> QED
  BY <1>5, <1>6

(* So a payload that begins with a tag is taken for what the tag says. *)
LEMMA UnderstoodAs ==
  ASSUME NEW f \in Formats, NEW bytes \in Seq(Byte), Says(bytes, 0, f.tag)
  PROVE  Understood(Payload(f.to, bytes)) =
           Message(f.to, f.op, Values(bytes, f.layout))
<1> DEFINE p == Payload(f.to, bytes)
<1>1. p.to = f.to /\ p.bytes = bytes
  BY DEF Payload
<1>2. /\ f.tag \in Seq(Byte) /\ f.tag # <<>> /\ f.tag[1] # 210
      /\ IsPrefix(f.tag, bytes) /\ bytes[1] = f.tag[1]
  BY FormatsApart, Begins
<1>3. ~IsPrefix(Discriminator, bytes)
  <2>1. /\ Discriminator \in Seq(Byte) /\ Discriminator # <<>>
        /\ Discriminator[1] = 210
    BY DEF Discriminator, Byte
  <2> HIDE DEF Discriminator
  <2> QED
    BY <1>2, <2>1, Begins
<1>4. \A g \in Formats :
        g.to = f.to /\ IsPrefix(g.tag, bytes) => g = f
  <2>1. SUFFICES ASSUME NEW g \in Formats, g.to = f.to,
                        IsPrefix(g.tag, bytes)
                 PROVE  g = f
    OBVIOUS
  <2>2. g.tag \in Seq(Byte) /\ g.tag # <<>>
    BY FormatsApart
  <2>3. bytes[1] = g.tag[1]
    BY <2>1, <2>2, Begins
  <2>4. g.to = f.to /\ g.tag[1] = f.tag[1]
    BY <1>2, <2>1, <2>3
  <2> HIDE DEF p
  <2> QED
    BY <2>4, FormatsApart
<1>5. (CHOOSE g \in Formats : g.to = p.to /\ IsPrefix(g.tag, p.bytes)) = f
  <2> HIDE DEF p
  <2>1. \A g \in Formats : g.to = p.to /\ IsPrefix(g.tag, p.bytes) <=> g = f
    BY <1>1, <1>2, <1>4
  <2> QED
    BY <2>1
<1> QED
  BY <1>1, <1>3, <1>5 DEF Understood

(* The arguments of a message that has only one. *)
Single(n, v) == [k \in {n} |-> v]

(* A tag and a number: what is understood is the number. *)
LEMMA OneNumber ==
  ASSUME NEW f \in Formats, NEW n, NEW w \in Nat,
         f.layout = <<Field(n, Len(f.tag), w)>>,
         NEW v \in 0 .. Place[w] - 1
  PROVE  Understood(Payload(f.to, f.tag \o LE(v, w))) =
           Message(f.to, f.op, Single(n, v))
<1> DEFINE bytes == f.tag \o LE(v, w)
           g == Field(n, Len(f.tag), w)
           args == Values(bytes, f.layout)
<1>1. Place[w] \in Nat \ {0} /\ v \in Int
  BY PlaceValues
<1>2. f.tag \in Seq(Byte) /\ LE(v, w) \in Seq(Byte)
  BY <1>1, FormatsApart, DigitsAreBytes
<1>3. /\ bytes \in Seq(Byte) /\ Says(bytes, 0, f.tag)
      /\ Says(bytes, Len(f.tag), LE(v, w))
  BY <1>2, TwoParts
<1> HIDE DEF bytes
<1>4. Understood(Payload(f.to, bytes)) = Message(f.to, f.op, args)
  BY <1>3, UnderstoodAs
<1>5. g.name = n /\ g.offset = Len(f.tag) /\ g.width = w
  BY DEF Field
<1> HIDE DEF g
<1>6. /\ DOMAIN f.layout = {1} /\ f.layout[1] = g
  BY DEF g
<1>7. DOMAIN args = {n} /\ args[n] = ValueOf(Slice(bytes, g))
  <2>1. {f.layout[i].name : i \in DOMAIN f.layout} = {n}
    BY <1>5, <1>6
  <2>2. DOMAIN args = {f.layout[i].name : i \in DOMAIN f.layout}
    BY DEF Values
  <2>3. /\ 1 \in DOMAIN f.layout /\ f.layout[1].name = n
        /\ \A i \in DOMAIN f.layout : f.layout[i].name = n => i = 1
    BY <1>5, <1>6
  <2>4. args[n] = ValueOf(Slice(bytes, f.layout[1]))
    BY <2>3, ByName
  <2> QED
    BY <1>6, <2>1, <2>2, <2>4
<1>8. ValueOf(Slice(bytes, g)) = v % Limit(g)
  BY <1>1, <1>3, <1>5, NumberSaid
<1>9. args[n] = v
  BY <1>1, <1>5, <1>7, <1>8, SmallEnough DEF Limit
<1>10. args = [k \in DOMAIN args |-> args[k]]
  BY DEF Values
<1>11. args = Single(n, v)
  <2> HIDE DEF args
  <2> QED
    BY <1>7, <1>9, <1>10 DEF Single
<1> QED
  BY <1>4, <1>11 DEF bytes

(* A function with one name is a record of one field. *)
LEMMA OneField ==
  ASSUME NEW v
  PROVE  /\ Single("amount", v) = [amount |-> v]
         /\ Single("bump", v) = [bump |-> v]
<1>1. Single("amount", v) = [amount |-> v]
  <2> DEFINE r == [amount |-> v]
  <2>1. DOMAIN r = {"amount"} /\ r["amount"] = v
    OBVIOUS
  <2>2. r = [k \in DOMAIN r |-> r[k]]
    OBVIOUS
  <2> HIDE DEF r
  <2>3. r = [k \in {"amount"} |-> v]
    BY <2>1, <2>2
  <2> QED
    BY <2>3 DEF r, Single
<1>2. Single("bump", v) = [bump |-> v]
  <2> DEFINE r == [bump |-> v]
  <2>1. DOMAIN r = {"bump"} /\ r["bump"] = v
    OBVIOUS
  <2>2. r = [k \in DOMAIN r |-> r[k]]
    OBVIOUS
  <2> HIDE DEF r
  <2>3. r = [k \in {"bump"} |-> v]
    BY <2>1, <2>2
  <2> QED
    BY <2>3 DEF r, Single
<1> QED
  BY <1>1, <1>2

(* Small numbers in one byte, and the system program's instruction 2. *)
LEMMA SmallNumbers ==
  /\ Place[1] = Radix
  /\ \A b \in 0 .. Radix - 1 : LE(b, 1) = <<b>>
  /\ LE(2, 4) = <<2, 0, 0, 0>>
  /\ Place[4] > 24
<1>1. /\ Place[0] = 1 /\ Place[1] = Radix /\ Radix \in Nat /\ Radix >= 3
      /\ Place[2] = Radix * Place[1] /\ Place[3] = Radix * Place[2]
      /\ Place[4] = Radix * Place[3]
      /\ Place[2] \in Nat /\ Place[3] \in Nat /\ Place[4] \in Nat
  <2>1. Radix \in Nat /\ Radix >= 3
    BY RadixAssumption
  <2>2. /\ Place[0 + 1] = Radix * Place[0] /\ Place[1 + 1] = Radix * Place[1]
        /\ Place[2 + 1] = Radix * Place[2] /\ Place[3 + 1] = Radix * Place[3]
    BY PlaceValues
  <2>3. /\ Place[0] = 1 /\ Place[2] \in Nat /\ Place[3] \in Nat
        /\ Place[4] \in Nat
    BY PlaceValues
  <2> QED
    BY <2>1, <2>2, <2>3
<1>2. Place[2] >= 9 /\ Place[3] >= 27 /\ Place[4] >= 81
  <2>1. \A p, c \in Nat : p >= c => Radix * p >= 3 * c
    <3>1. \A p, c \in Nat : p >= c => 3 * p >= 3 * c
      OBVIOUS
    <3>2. \A p, r \in Nat : r >= 3 => r * p >= 3 * p
      OBVIOUS
    <3>3. \A p, c \in Nat : Radix * p \in Nat /\ 3 * p \in Nat
                            /\ 3 * c \in Nat
      BY <1>1
    <3> QED
      BY <1>1, <3>1, <3>2, <3>3
  <2>2. Place[2] >= 3 * 3
    BY <1>1, <2>1
  <2>3. Place[3] >= 3 * 9
    BY <1>1, <2>1, <2>2
  <2>4. Place[4] >= 3 * 27
    BY <1>1, <2>1, <2>3
  <2> QED
    BY <1>1, <2>2, <2>3, <2>4
<1>3. ASSUME NEW b \in 0 .. Radix - 1 PROVE LE(b, 1) = <<b>>
  <2>1. (b \div 1) % Radix = b
    <3>1. b \div 1 = b /\ b % Radix = b
      BY <1>1
    <3> QED
      BY <3>1
  <2>2. b \in Int /\ 1 \in Nat
    BY <1>1
  <2>3. LE(b, 1) \in Seq(Byte) /\ Len(LE(b, 1)) = 1
    BY <2>2, DigitsAreBytes
  <2>4. LE(b, 1)[1] = b
    <3>1. \A d \in 1 .. 1 : LE(b, 1)[d] = (b \div Place[d - 1]) % Radix
      BY <2>2, LEDigits
    <3>2. 1 \in 1 .. 1 /\ 1 - 1 = 0
      OBVIOUS
    <3> HIDE DEF LE
    <3> QED
      BY <1>1, <2>1, <3>1, <3>2
  <2> HIDE DEF LE
  <2> QED
    BY <2>3, <2>4
<1>4. LE(2, 4) = <<2, 0, 0, 0>>
  <2>0. 2 \in Int /\ 4 \in Nat
    OBVIOUS
  <2>1. /\ LE(2, 4) \in Seq(Byte) /\ Len(LE(2, 4)) = 4
        /\ \A d \in 1 .. 4 : LE(2, 4)[d] = (2 \div Place[d - 1]) % Radix
    BY <2>0, LEDigits, DigitsAreBytes
  <2>2. 2 \div 1 = 2 /\ 2 % Radix = 2 /\ 0 % Radix = 0
    BY <1>1
  <2>3. \A p \in Nat : p >= 3 => 2 \div p = 0
    OBVIOUS
  <2>4. 2 \div Place[1] = 0 /\ 2 \div Place[2] = 0 /\ 2 \div Place[3] = 0
    BY <1>1, <1>2, <2>3
  <2>5. /\ LE(2, 4)[1] = 2 /\ LE(2, 4)[2] = 0
        /\ LE(2, 4)[3] = 0 /\ LE(2, 4)[4] = 0
    <3>1. /\ 1 \in 1 .. 4 /\ 2 \in 1 .. 4 /\ 3 \in 1 .. 4 /\ 4 \in 1 .. 4
          /\ 1 - 1 = 0 /\ 2 - 1 = 1 /\ 3 - 1 = 2 /\ 4 - 1 = 3
      OBVIOUS
    <3> HIDE DEF LE
    <3> QED
      BY <1>1, <2>1, <2>2, <2>4, <3>1
  <2> HIDE DEF LE
  <2> QED
    BY <2>1, <2>5
<1> QED
  BY <1>1, <1>2, <1>3, <1>4

(* One byte after another. *)
LEMMA TwoBytes ==
  ASSUME NEW b, NEW c
  PROVE  <<b>> \o <<c>> = <<b, c>>
<1> DEFINE S == {b, c}
           s == <<b>>
           t == <<c>>
           st == s \o t
           u == <<b, c>>
<1>1. s \in Seq(S) /\ t \in Seq(S) /\ Len(s) = 1 /\ Len(t) = 1
      /\ s[1] = b /\ t[1] = c
  OBVIOUS
<1>2. u \in Seq(S) /\ Len(u) = 2 /\ u[1] = b /\ u[2] = c
  OBVIOUS
<1> HIDE DEF S, s, t, u
<1>3. /\ st \in Seq(S) /\ Len(st) = Len(s) + Len(t)
      /\ \A i \in 1 .. Len(s) + Len(t) :
           st[i] = IF i <= Len(s) THEN s[i] ELSE t[i - Len(s)]
  BY <1>1, ConcatProperties
<1>4. Len(st) = 2 /\ st[1] = b /\ st[2] = c
  BY <1>1, <1>3
<1> HIDE DEF st
<1>5. \A i \in 1 .. 2 : st[i] = u[i]
  <2>1. \A i \in 1 .. 2 : i = 1 \/ i = 2
    OBVIOUS
  <2> QED
    BY <1>2, <1>4, <2>1
<1>6. st = u
  BY <1>2, <1>3, <1>4, <1>5, SeqEqual
<1> QED
  BY <1>6 DEF st, s, t, u

(* The engine hears the bump and the amounts as they are. *)
LEMMA EngineHears ==
  /\ \A bump \in 0 .. Place[1] - 1 :
       Understood(InitPortfolio(bump)) =
         Message("engine", "init", [bump |-> bump])
  /\ \A amount \in 0 .. Place[16] - 1 :
       /\ Understood(Deposit(amount)) =
            Message("engine", "deposit", [amount |-> amount])
       /\ Understood(Withdraw(amount)) =
            Message("engine", "withdraw", [amount |-> amount])
<1>1. ASSUME NEW bump \in 0 .. Place[1] - 1
      PROVE  Understood(InitPortfolio(bump)) =
               Message("engine", "init", [bump |-> bump])
  <2> DEFINE f == Format("engine", <<1>>, "init", <<Field("bump", 1, 1)>>)
  <2>1. /\ f \in Formats /\ f.to = "engine" /\ f.tag = <<1>>
        /\ f.op = "init" /\ f.layout = <<Field("bump", 1, 1)>>
    BY DEF Format, Formats
  <2> HIDE DEF f
  <2>2. Len(f.tag) = 1 /\ 1 \in Nat
    BY <2>1
  <2>3. Understood(Payload(f.to, f.tag \o LE(bump, 1))) =
          Message(f.to, f.op, Single("bump", bump))
    BY <2>1, <2>2, OneNumber
  <2>4. <<1>> \o LE(bump, 1) = <<1, bump>>
    <3>1. LE(bump, 1) = <<bump>>
      BY SmallNumbers
    <3>2. <<1>> \o <<bump>> = <<1, bump>>
      BY TwoBytes
    <3> QED
      BY <3>1, <3>2
  <2>5. Single("bump", bump) = [bump |-> bump]
    BY OneField
  <2> QED
    BY <2>1, <2>3, <2>4, <2>5 DEF InitPortfolio
<1>2. ASSUME NEW amount \in 0 .. Place[16] - 1
      PROVE  Understood(Deposit(amount)) =
               Message("engine", "deposit", [amount |-> amount])
  <2> DEFINE f == Format("engine", <<2>>, "deposit",
                         <<Field("amount", 1, 16)>>)
  <2>1. /\ f \in Formats /\ f.to = "engine" /\ f.tag = <<2>>
        /\ f.op = "deposit" /\ f.layout = <<Field("amount", 1, 16)>>
    BY DEF Format, Formats
  <2> HIDE DEF f
  <2>2. Len(f.tag) = 1 /\ 16 \in Nat
    BY <2>1
  <2>3. Understood(Payload(f.to, f.tag \o LE(amount, 16))) =
          Message(f.to, f.op, Single("amount", amount))
    BY <2>1, <2>2, OneNumber
  <2>4. Single("amount", amount) = [amount |-> amount]
    BY OneField
  <2> QED
    BY <2>1, <2>3, <2>4 DEF Deposit
<1>3. ASSUME NEW amount \in 0 .. Place[16] - 1
      PROVE  Understood(Withdraw(amount)) =
               Message("engine", "withdraw", [amount |-> amount])
  <2> DEFINE f == Format("engine", <<7>>, "withdraw",
                         <<Field("amount", 1, 16)>>)
  <2>1. /\ f \in Formats /\ f.to = "engine" /\ f.tag = <<7>>
        /\ f.op = "withdraw" /\ f.layout = <<Field("amount", 1, 16)>>
    BY DEF Format, Formats
  <2> HIDE DEF f
  <2>2. Len(f.tag) = 1 /\ 16 \in Nat
    BY <2>1
  <2>3. Understood(Payload(f.to, f.tag \o LE(amount, 16))) =
          Message(f.to, f.op, Single("amount", amount))
    BY <2>1, <2>2, OneNumber
  <2>4. Single("amount", amount) = [amount |-> amount]
    BY OneField
  <2> QED
    BY <2>1, <2>3, <2>4 DEF Withdraw
<1> QED
  BY <1>1, <1>2, <1>3

(* It hears an order field by field. *)
LEMMA OrderHeard ==
  ASSUME NEW a, a.side \in 0 .. Place[1] - 1, a.asset \in 0 .. Place[4] - 1,
         a.size \in 0 .. Place[16] - 1, a.price \in 0 .. Place[8] - 1,
         a.fee \in 0 .. Place[8] - 1
  PROVE  Understood(PlaceOrder(a)) = Message("engine", "order", Orders(a))
<1> DEFINE layout == <<Field("side", 1, 1), Field("asset", 2, 4),
                       Field("size", 6, 16), Field("price", 22, 8),
                       Field("fee", 30, 8)>>
           f == Format("engine", <<14>>, "order", layout)
           bytes == <<14>> \o LE(a.side, 1) \o LE(a.asset, 4)
                      \o LE(a.size, 16) \o LE(a.price, 8) \o LE(a.fee, 8)
           args == Values(bytes, layout)
<1>1. /\ f \in Formats /\ f.to = "engine" /\ f.tag = <<14>>
      /\ f.op = "order" /\ f.layout = layout
  BY DEF Format, Formats
<1>2. /\ DOMAIN layout = 1 .. 5
      /\ layout[1] = Field("side", 1, 1) /\ layout[2] = Field("asset", 2, 4)
      /\ layout[3] = Field("size", 6, 16)
      /\ layout[4] = Field("price", 22, 8) /\ layout[5] = Field("fee", 30, 8)
  OBVIOUS
<1> HIDE DEF layout, f
<1>3. /\ a.side \in Int /\ a.asset \in Int /\ a.size \in Int
      /\ a.price \in Int /\ a.fee \in Int
      /\ Place[1] \in Nat \ {0} /\ Place[4] \in Nat \ {0}
      /\ Place[8] \in Nat \ {0} /\ Place[16] \in Nat \ {0}
  BY PlaceValues
<1>4. /\ <<14>> \in Seq(Byte) /\ Len(<<14>>) = 1
      /\ LE(a.side, 1) \in Seq(Byte) /\ Len(LE(a.side, 1)) = 1
      /\ LE(a.asset, 4) \in Seq(Byte) /\ Len(LE(a.asset, 4)) = 4
      /\ LE(a.size, 16) \in Seq(Byte) /\ Len(LE(a.size, 16)) = 16
      /\ LE(a.price, 8) \in Seq(Byte) /\ Len(LE(a.price, 8)) = 8
      /\ LE(a.fee, 8) \in Seq(Byte)
  <2>1. 1 \in Nat /\ 4 \in Nat /\ 8 \in Nat /\ 16 \in Nat
    OBVIOUS
  <2>2. <<14>> \in Seq(Byte) /\ Len(<<14>>) = 1
    BY DEF Byte
  <2> QED
    BY <1>3, <2>1, <2>2, DigitsAreBytes
<1>5. /\ bytes \in Seq(Byte) /\ Says(bytes, 0, <<14>>)
      /\ Says(bytes, 1, LE(a.side, 1))
      /\ Says(bytes, 2, LE(a.asset, 4))
      /\ Says(bytes, 6, LE(a.size, 16))
      /\ Says(bytes, 22, LE(a.price, 8))
      /\ Says(bytes, 30, LE(a.fee, 8))
  <2> DEFINE p == <<14>>
             q == LE(a.side, 1)
             r == LE(a.asset, 4)
             s == LE(a.size, 16)
             t == LE(a.price, 8)
             u == LE(a.fee, 8)
  <2>1. /\ p \in Seq(Byte) /\ q \in Seq(Byte) /\ r \in Seq(Byte)
        /\ s \in Seq(Byte) /\ t \in Seq(Byte) /\ u \in Seq(Byte)
        /\ Len(p) = 1 /\ Len(q) = 1 /\ Len(r) = 4 /\ Len(s) = 16
        /\ Len(t) = 8
    BY <1>4
  <2>2. bytes = Row(p, q, r, s, t, u)
    BY DEF Row
  <2> HIDE DEF p, q, r, s, t, u, bytes
  <2>3. LET row == Row(p, q, r, s, t, u) IN
        /\ row \in Seq(Byte) /\ Says(row, 0, p) /\ Says(row, Len(p), q)
        /\ Says(row, Len(p) + Len(q), r)
        /\ Says(row, Len(p) + Len(q) + Len(r), s)
        /\ Says(row, Len(p) + Len(q) + Len(r) + Len(s), t)
        /\ Says(row, Len(p) + Len(q) + Len(r) + Len(s) + Len(t), u)
    BY <2>1, SixParts
  <2>4. /\ Len(p) + Len(q) = 2 /\ Len(p) + Len(q) + Len(r) = 6
        /\ Len(p) + Len(q) + Len(r) + Len(s) = 22
        /\ Len(p) + Len(q) + Len(r) + Len(s) + Len(t) = 30
    BY <2>1
  <2> QED
    BY <2>1, <2>2, <2>3, <2>4 DEF p, q, r, s, t, u
<1> HIDE DEF bytes
<1>6. Understood(Payload("engine", bytes)) = Message("engine", "order", args)
  <2>1. Understood(Payload(f.to, bytes)) =
          Message(f.to, f.op, Values(bytes, f.layout))
    BY <1>1, <1>5, UnderstoodAs
  <2> QED
    BY <1>1, <2>1
<1>7. /\ layout[1].name = "side" /\ layout[2].name = "asset"
      /\ layout[3].name = "size" /\ layout[4].name = "price"
      /\ layout[5].name = "fee"
      /\ layout[1].offset = 1 /\ layout[2].offset = 2
      /\ layout[3].offset = 6 /\ layout[4].offset = 22
      /\ layout[5].offset = 30
      /\ layout[1].width = 1 /\ layout[2].width = 4 /\ layout[3].width = 16
      /\ layout[4].width = 8 /\ layout[5].width = 8
  BY <1>2 DEF Field
<1>8. DOMAIN args = {"side", "asset", "size", "price", "fee"}
  <2>1. DOMAIN args = {layout[i].name : i \in DOMAIN layout}
    BY DEF Values
  <2> HIDE DEF args
  <2> QED
    BY <1>2, <1>7, <2>1
<1>9. ASSUME NEW i \in 1 .. 5
      PROVE  /\ layout[i].width \in Nat
             /\ a[layout[i].name] \in 0 .. Place[layout[i].width] - 1
             /\ Says(bytes, layout[i].offset,
                     LE(a[layout[i].name], layout[i].width))
             /\ \A j \in 1 .. 5 : layout[j].name = layout[i].name => j = i
  <2>1. \A j \in 1 .. 5 : j \in {1, 2, 3, 4, 5}
    OBVIOUS
  <2>2. \A j \in 1 .. 5 : layout[j].name = layout[i].name => j = i
    BY <1>7, <2>1
  <2>3. /\ layout[i].width \in Nat
        /\ a[layout[i].name] \in 0 .. Place[layout[i].width] - 1
    BY <1>7, <2>1
  <2>4. Says(bytes, layout[i].offset,
             LE(a[layout[i].name], layout[i].width))
    <3>1. CASE i = 1
      BY <1>5, <1>7, <3>1
    <3>2. CASE i = 2
      BY <1>5, <1>7, <3>2
    <3>3. CASE i = 3
      BY <1>5, <1>7, <3>3
    <3>4. CASE i = 4
      BY <1>5, <1>7, <3>4
    <3>5. CASE i = 5
      BY <1>5, <1>7, <3>5
    <3> QED
      BY <2>1, <3>1, <3>2, <3>3, <3>4, <3>5
  <2> QED
    BY <2>2, <2>3, <2>4
<1>10. ASSUME NEW i \in 1 .. 5 PROVE args[layout[i].name] = a[layout[i].name]
  <2> DEFINE n == layout[i].name
             w == layout[i].width
             v == a[n]
  <2>1. /\ w \in Nat /\ v \in 0 .. Place[w] - 1
        /\ Says(bytes, layout[i].offset, LE(v, w))
        /\ \A j \in DOMAIN layout : layout[j].name = n => j = i
        /\ i \in DOMAIN layout
    BY <1>2, <1>9
  <2>2. n = layout[i].name /\ w = layout[i].width
    OBVIOUS
  <2> HIDE DEF n, w, v
  <2>3. Place[w] \in Nat \ {0} /\ v \in Int
    BY <2>1, PlaceValues
  <2>4. args[n] = ValueOf(Slice(bytes, layout[i]))
    BY <2>1, <2>2, ByName
  <2>5. ValueOf(Slice(bytes, layout[i])) = v % Limit(layout[i])
    BY <2>1, <2>2, <2>3, NumberSaid
  <2>6. args[n] = v
    BY <2>1, <2>2, <2>3, <2>4, <2>5, SmallEnough DEF Limit
  <2> QED
    BY <2>6 DEF n, v
<1>11. /\ args["side"] = a["side"] /\ args["asset"] = a["asset"]
       /\ args["size"] = a["size"] /\ args["price"] = a["price"]
       /\ args["fee"] = a["fee"]
  <2> HIDE DEF args
  <2>1. \A i \in {1, 2, 3, 4, 5} : args[layout[i].name] = a[layout[i].name]
    BY <1>10
  <2> QED
    BY <1>7, <2>1
<1>12. args = [n \in DOMAIN args |-> args[n]]
  BY DEF Values
<1> HIDE DEF args
<1>13. args = Orders(a)
  BY <1>8, <1>11, <1>12 DEF Orders
<1> QED
  BY <1>6, <1>13 DEF PlaceOrder, bytes

(* To whom a payload speaks, and of what. *)
Speaks(p, to, op) == Understood(p).to = to /\ Understood(p).op = op

(* The tag says of what. *)
LEMMA TagSpeaks ==
  ASSUME NEW f \in Formats, NEW bytes \in Seq(Byte), Says(bytes, 0, f.tag)
  PROVE  Speaks(Payload(f.to, bytes), f.to, f.op)
<1> DEFINE args == Values(bytes, f.layout)
<1>1. Understood(Payload(f.to, bytes)) = Message(f.to, f.op, args)
  BY UnderstoodAs
<1> HIDE DEF args
<1> QED
  BY <1>1 DEF Speaks, Message

(* What the other payloads are about. *)
LEMMA OthersSpeak ==
  /\ Speaks(SettlePnl, "engine", "settle")
  /\ Speaks(MintToOne, "token22", "mintTo")
  /\ Speaks(RevokeMintAuthority, "token22", "authority")
  /\ Speaks(BurnOne, "token22", "burn")
  /\ Speaks(CloseAccount("token"), "token", "close")
  /\ Speaks(CloseAccount("token22"), "token22", "close")
  /\ \A amount \in Int :
       /\ Speaks(TokenTransfer(amount), "token", "transfer")
       /\ Speaks(SystemTransfer(amount), "system", "transfer")
<1>1. Speaks(SettlePnl, "engine", "settle")
  <2> DEFINE f == Format("engine", <<20>>, "settle", <<>>)
  <2>1. /\ f \in Formats /\ f.to = "engine" /\ f.tag = <<20>>
        /\ f.op = "settle"
    BY DEF Format, Formats
  <2>2. f.tag \in Seq(Byte) /\ Says(f.tag, 0, f.tag)
    BY <2>1, FormatsApart, SaysItself
  <2> HIDE DEF f
  <2> QED
    BY <2>1, <2>2, TagSpeaks DEF SettlePnl
<1>2. ASSUME NEW program \in {"token", "token22"}
      PROVE  Speaks(CloseAccount(program), program, "close")
  <2> DEFINE f == Format(program, <<9>>, "close", <<>>)
  <2>1. /\ f \in Formats /\ f.to = program /\ f.tag = <<9>>
        /\ f.op = "close"
    BY DEF Format, Formats
  <2>2. f.tag \in Seq(Byte) /\ Says(f.tag, 0, f.tag)
    BY <2>1, FormatsApart, SaysItself
  <2> HIDE DEF f
  <2> QED
    BY <2>1, <2>2, TagSpeaks DEF CloseAccount
<1>3. ASSUME NEW f \in Formats, NEW v \in Int, NEW w \in Nat
      PROVE  Speaks(Payload(f.to, f.tag \o LE(v, w)), f.to, f.op)
  <2>1. f.tag \in Seq(Byte) /\ LE(v, w) \in Seq(Byte)
    BY FormatsApart, DigitsAreBytes
  <2>2. /\ f.tag \o LE(v, w) \in Seq(Byte)
        /\ Says(f.tag \o LE(v, w), 0, f.tag)
    BY <2>1, TwoParts
  <2> QED
    BY <2>2, TagSpeaks
<1>4. 1 \in Int /\ 8 \in Nat
  OBVIOUS
<1>5. Speaks(MintToOne, "token22", "mintTo")
  <2> DEFINE f == Format("token22", <<7>>, "mintTo",
                         <<Field("amount", 1, 8)>>)
  <2>1. /\ f \in Formats /\ f.to = "token22" /\ f.tag = <<7>>
        /\ f.op = "mintTo"
    BY DEF Format, Formats
  <2> HIDE DEF f
  <2>2. Speaks(Payload(f.to, f.tag \o LE(1, 8)), f.to, f.op)
    BY <1>3, <1>4, <2>1
  <2> QED
    BY <2>1, <2>2 DEF MintToOne
<1>6. Speaks(BurnOne, "token22", "burn")
  <2> DEFINE f == Format("token22", <<8>>, "burn",
                         <<Field("amount", 1, 8)>>)
  <2>1. /\ f \in Formats /\ f.to = "token22" /\ f.tag = <<8>>
        /\ f.op = "burn"
    BY DEF Format, Formats
  <2> HIDE DEF f
  <2>2. Speaks(Payload(f.to, f.tag \o LE(1, 8)), f.to, f.op)
    BY <1>3, <1>4, <2>1
  <2> QED
    BY <2>1, <2>2 DEF BurnOne
<1>7. Speaks(RevokeMintAuthority, "token22", "authority")
  <2> DEFINE f == Format("token22", <<6>>, "authority",
                         <<Field("type", 1, 1), Field("some", 2, 1)>>)
             bytes == <<6, 0, 0>>
  <2>1. /\ f \in Formats /\ f.to = "token22" /\ f.tag = <<6>>
        /\ f.op = "authority"
    BY DEF Format, Formats
  <2>2. /\ bytes \in Seq(Byte) /\ Len(bytes) = 3 /\ bytes[0 + 1] = 6
        /\ <<6>> \in Seq(Byte) /\ Len(<<6>>) = 1 /\ <<6>>[1] = 6
    BY DEF Byte
  <2> HIDE DEF f, bytes
  <2>3. Says(bytes, 0, f.tag)
    <3>1. f.tag \in Seq(Byte) /\ Len(f.tag) = 1 /\ f.tag[1] = 6
      BY <2>1, <2>2
    <3>2. \A d \in 1 .. Len(f.tag) : bytes[0 + d] = f.tag[d]
      BY <2>2, <3>1
    <3>3. 0 \in Nat /\ 0 + Len(f.tag) <= Len(bytes)
      BY <2>2, <3>1
    <3> QED
      BY <2>2, <3>1, <3>2, <3>3, SaysByteByByte
  <2>4. Speaks(Payload(f.to, bytes), f.to, f.op)
    BY <2>1, <2>2, <2>3, TagSpeaks
  <2> QED
    BY <2>1, <2>4 DEF RevokeMintAuthority, bytes
<1>8. ASSUME NEW amount \in Int
      PROVE  Speaks(TokenTransfer(amount), "token", "transfer")
  <2> DEFINE f == Format("token", <<3>>, "transfer",
                         <<Field("amount", 1, 8)>>)
  <2>1. /\ f \in Formats /\ f.to = "token" /\ f.tag = <<3>>
        /\ f.op = "transfer"
    BY DEF Format, Formats
  <2> HIDE DEF f
  <2>2. Speaks(Payload(f.to, f.tag \o LE(amount, 8)), f.to, f.op)
    BY <1>3, <1>4, <2>1
  <2> QED
    BY <2>1, <2>2 DEF TokenTransfer
<1>9. ASSUME NEW amount \in Int
      PROVE  Speaks(SystemTransfer(amount), "system", "transfer")
  <2> DEFINE f == Format("system", <<2, 0, 0, 0>>, "transfer",
                         <<Field("amount", 4, 8)>>)
  <2>1. /\ f \in Formats /\ f.to = "system" /\ f.tag = LE(2, 4)
        /\ f.op = "transfer"
    BY SmallNumbers DEF Format, Formats
  <2> HIDE DEF f
  <2>2. Speaks(Payload(f.to, f.tag \o LE(amount, 8)), f.to, f.op)
    BY <1>3, <1>4, <2>1
  <2> QED
    BY <2>1, <2>2 DEF SystemTransfer
<1> QED
  BY <1>1, <1>2, <1>5, <1>6, <1>7, <1>8, <1>9

(* A borsh string is found by its length. *)
LEMMA TextFound ==
  ASSUME NEW bytes \in Seq(Byte), NEW text \in Seq(Byte), NEW at \in Nat,
         Len(text) < Place[4], Says(bytes, at, LE(Len(text), 4)),
         Says(bytes, at + 4, text)
  PROVE  BorshText(bytes, at) = text /\ After(bytes, at) = at + 4 + Len(text)
<1>1. Len(text) \in Nat /\ 4 \in Nat /\ Len(text) \in Int
  BY LenProperties
<1>2. Len(LE(Len(text), 4)) = 4
  BY <1>1, LEDigits
<1>3. SubSeq(bytes, at + 1, at + 4) = LE(Len(text), 4)
  BY <1>2 DEF Says
<1>4. ValueOf(LE(Len(text), 4)) = Len(text)
  <2>1. ValueOf(LE(Len(text), 4)) = Len(text) % Place[4]
    BY <1>1, <1>2, ValueOfDigits
  <2>2. Place[4] \in Nat \ {0}
    BY <1>1, PlaceValues
  <2>3. Len(text) \in 0 .. Place[4] - 1
    BY <1>1, <2>2
  <2> QED
    BY <2>1, <2>2, <2>3, SmallEnough
<1>5. SubSeq(bytes, at + 5, at + 4 + Len(text)) = text
  <2>1. (at + 4) + 1 = at + 5
    OBVIOUS
  <2> QED
    BY <2>1 DEF Says
<1> QED
  BY <1>3, <1>4, <1>5 DEF BorshText, After

(* Names are made of bytes. *)
LEMMA LettersAreBytes ==
  ASSUME NEW m \in Nat, NEW letter \in Byte
  PROVE  Letters(letter, m) \in Seq(Byte) /\ Len(Letters(letter, m)) = m
<1>1. Letters(letter, m) \in [1 .. m -> Byte]
  BY DEF Letters
<1> DEFINE s == Letters(letter, m)
<1> HIDE DEF s
<1>2. s \in [1 .. m -> Byte]
  BY <1>1 DEF s
<1>3. s \in Seq(Byte)
  BY <1>2
<1>4. Len(s) = m
  BY <1>2, <1>3
<1> QED
  BY <1>3, <1>4 DEF s

(* So the metadata program hears the name, the symbol and no uri. *)
LEMMA NameHeard ==
  ASSUME NEW side
  PROVE  Understood(MetadataInitialize(NameOf(side))) =
           Message("token22", "metadata",
                   [name |-> NameOf(side), symbol |-> Symbol, uri |-> <<>>])
<1> DEFINE name == NameOf(side)
           n == Len(name)
           p == Discriminator
           q == LE(n, 4)
           s == LE(Len(Symbol), 4)
           u == LE(0, 4)
           bytes == Row(p, q, name, s, Symbol, u)
<1>0. /\ "S" \in Byte /\ "L" \in Byte /\ "O" \in Byte
      /\ 0 \in Int /\ 4 \in Nat /\ 5 \in Nat /\ 8 \in Nat /\ 23 \in Nat
      /\ 24 \in Nat
      /\ Place[4] \in Nat /\ Place[4] > 24
  <2>1. 4 \in Nat
    OBVIOUS
  <2>2. Place[4] \in Nat
    BY <2>1, PlaceValues
  <2> QED
    BY <2>1, <2>2, SmallNumbers DEF Byte
<1>1. name \in Seq(Byte) /\ n \in Nat /\ n <= 24 /\ n \in Int
  <2>1. /\ Letters("S", 24) \in Seq(Byte) /\ Len(Letters("S", 24)) = 24
        /\ Letters("L", 23) \in Seq(Byte) /\ Len(Letters("L", 23)) = 23
    BY <1>0, LettersAreBytes
  <2>2. name = Letters("S", 24) \/ name = Letters("L", 23)
    BY DEF NameOf
  <2>3. name \in Seq(Byte) /\ (Len(name) = 24 \/ Len(name) = 23)
    <3> HIDE DEF name
    <3> QED
      BY <2>1, <2>2
  <2>4. n = 24 \/ n = 23
    BY <2>3
  <2> HIDE DEF name, n
  <2> QED
    BY <2>3, <2>4
<1>2. Symbol \in Seq(Byte) /\ Len(Symbol) = 5 /\ Len(Symbol) \in Int
  <2>1. Letters("O", 5) \in Seq(Byte) /\ Len(Letters("O", 5)) = 5
    BY <1>0, LettersAreBytes
  <2> QED
    BY <2>1 DEF Symbol
<1>3. p \in Seq(Byte) /\ Len(p) = 8
  BY DEF Discriminator, Byte
<1>4. q \in Seq(Byte) /\ Len(q) = 4
  <2> HIDE DEF n
  <2> QED
    BY <1>0, <1>1, DigitsAreBytes
<1>5. s \in Seq(Byte) /\ Len(s) = 4
  BY <1>0, <1>2, DigitsAreBytes
<1>6. u \in Seq(Byte) /\ Len(u) = 4
  BY <1>0, DigitsAreBytes
<1>7. MetadataInitialize(name) = Payload("token22", bytes)
  BY DEF MetadataInitialize, Row
<1> HIDE DEF name, n, p, q, s, u
<1>8. /\ bytes \in Seq(Byte) /\ Says(bytes, 0, p) /\ Says(bytes, 8, q)
      /\ Says(bytes, 12, name) /\ Says(bytes, 12 + n, s)
      /\ Says(bytes, 16 + n, Symbol) /\ Says(bytes, 21 + n, u)
  <2>1. /\ bytes \in Seq(Byte) /\ Says(bytes, 0, p) /\ Says(bytes, Len(p), q)
        /\ Says(bytes, Len(p) + Len(q), name)
        /\ Says(bytes, Len(p) + Len(q) + Len(name), s)
        /\ Says(bytes, Len(p) + Len(q) + Len(name) + Len(s), Symbol)
        /\ Says(bytes, Len(p) + Len(q) + Len(name) + Len(s) + Len(Symbol), u)
    BY <1>1, <1>2, <1>3, <1>4, <1>5, <1>6, SixParts
  <2>2. /\ Len(p) + Len(q) = 12 /\ Len(p) + Len(q) + Len(name) = 12 + n
        /\ Len(p) + Len(q) + Len(name) + Len(s) = 16 + n
        /\ Len(p) + Len(q) + Len(name) + Len(s) + Len(Symbol) = 21 + n
    BY <1>1, <1>2, <1>3, <1>4, <1>5 DEF n
  <2> HIDE DEF bytes
  <2> QED
    BY <1>3, <2>1, <2>2
<1> HIDE DEF bytes
<1>9. IsPrefix(Discriminator, bytes)
  BY <1>3, <1>8, Begins DEF p
<1>10. BorshText(bytes, 8) = name /\ After(bytes, 8) = 12 + n
  <2>1. n < Place[4] /\ 8 + 4 = 12 /\ 8 \in Nat
    BY <1>0, <1>1
  <2>2. BorshText(bytes, 8) = name /\ After(bytes, 8) = 8 + 4 + Len(name)
    BY <1>1, <1>8, <2>1, TextFound DEF q, n
  <2> QED
    BY <1>1, <2>2 DEF n
<1>11. BorshText(bytes, 12 + n) = Symbol /\ After(bytes, 12 + n) = 21 + n
  <2>1. Len(Symbol) < Place[4] /\ (12 + n) + 4 = 16 + n /\ 12 + n \in Nat
    BY <1>0, <1>1, <1>2
  <2>2. /\ BorshText(bytes, 12 + n) = Symbol
        /\ After(bytes, 12 + n) = (12 + n) + 4 + Len(Symbol)
    BY <1>2, <1>8, <2>1, TextFound DEF s
  <2> QED
    BY <1>1, <1>2, <2>2
<1>12. BorshText(bytes, 21 + n) = <<>>
  <2>1. <<>> \in Seq(Byte) /\ Len(<<>>) = 0
    OBVIOUS
  <2>2. Says(bytes, (21 + n) + 4, <<>>)
    <3>1. (21 + n) + 4 <= Len(bytes) /\ Len(bytes) \in Nat
      BY <1>1, <1>6, <1>8, LenProperties DEF Says
    <3>2. \A d \in 1 .. Len(<<>>) : bytes[((21 + n) + 4) + d] = <<>>[d]
      BY <2>1
    <3>3. (21 + n) + 4 \in Nat
          /\ ((21 + n) + 4) + Len(<<>>) <= Len(bytes)
      BY <1>1, <2>1, <3>1
    <3> QED
      BY <1>8, <2>1, <3>2, <3>3, SaysByteByByte
  <2>3. Len(<<>>) < Place[4] /\ 21 + n \in Nat
    BY <1>0, <1>1, <2>1
  <2>4. Says(bytes, 21 + n, LE(Len(<<>>), 4))
    BY <1>8, <2>1 DEF u
  <2> DEFINE at == 21 + n
             text == <<>>
  <2>5. /\ text \in Seq(Byte) /\ Len(text) < Place[4] /\ at \in Nat
        /\ Says(bytes, at, LE(Len(text), 4)) /\ Says(bytes, at + 4, text)
    BY <2>1, <2>2, <2>3, <2>4
  <2> HIDE DEF at, text
  <2>6. BorshText(bytes, at) = text
    BY <1>8, <2>5, TextFound
  <2> QED
    BY <2>6 DEF at, text
<1>13. Understood(Payload("token22", bytes)) =
         Message("token22", "metadata",
                 [name |-> name, symbol |-> Symbol, uri |-> <<>>])
  BY <1>9, <1>10, <1>11, <1>12 DEF Understood, Payload
<1> QED
  BY <1>7, <1>13 DEF name

-----------------------------------------------------------------------------
(* What a handler says. *)

(* The messages of a handler's payloads. *)
Understanding(payloads) ==
  [i \in DOMAIN payloads |-> Understood(payloads[i])]

(* A payload in a row of them. *)
Among(p, payloads) == \E i \in DOMAIN payloads : payloads[i] = p

(* Among a row and another are those of each. *)
LEMMA AmongBoth ==
  ASSUME NEW S, NEW s \in Seq(S), NEW t \in Seq(S)
  PROVE  /\ s \o t \in Seq(S)
         /\ \A p : Among(p, s \o t) <=> Among(p, s) \/ Among(p, t)
<1> DEFINE st == s \o t
<1>1. /\ Len(s) \in Nat /\ DOMAIN s = 1 .. Len(s)
      /\ Len(t) \in Nat /\ DOMAIN t = 1 .. Len(t)
  BY LenProperties
<1>2. /\ st \in Seq(S) /\ Len(st) = Len(s) + Len(t)
      /\ \A i \in 1 .. Len(s) + Len(t) :
           st[i] = IF i <= Len(s) THEN s[i] ELSE t[i - Len(s)]
  BY ConcatProperties
<1> HIDE DEF st
<1>3. DOMAIN st = 1 .. Len(s) + Len(t)
  BY <1>2, LenProperties
<1>4. ASSUME NEW p, Among(p, st) PROVE Among(p, s) \/ Among(p, t)
  <2>1. PICK i \in 1 .. Len(s) + Len(t) : st[i] = p
    BY <1>3, <1>4 DEF Among
  <2>2. CASE i <= Len(s)
    <3>1. i \in 1 .. Len(s) /\ s[i] = p
      BY <1>1, <1>2, <2>1, <2>2
    <3> QED
      BY <1>1, <3>1 DEF Among
  <2>3. CASE ~(i <= Len(s))
    <3>1. i - Len(s) \in 1 .. Len(t) /\ t[i - Len(s)] = p
      BY <1>1, <1>2, <2>1, <2>3
    <3> QED
      BY <1>1, <3>1 DEF Among
  <2> QED
    BY <2>2, <2>3
<1>5. ASSUME NEW p, Among(p, s) PROVE Among(p, st)
  <2>1. PICK i \in 1 .. Len(s) : s[i] = p
    BY <1>1, <1>5 DEF Among
  <2>2. i \in 1 .. Len(s) + Len(t) /\ st[i] = p
    BY <1>1, <1>2, <2>1
  <2> QED
    BY <1>3, <2>2 DEF Among
<1>6. ASSUME NEW p, Among(p, t) PROVE Among(p, st)
  <2>1. PICK i \in 1 .. Len(t) : t[i] = p
    BY <1>1, <1>6 DEF Among
  <2>2. /\ Len(s) + i \in 1 .. Len(s) + Len(t) /\ ~(Len(s) + i <= Len(s))
        /\ (Len(s) + i) - Len(s) = i
    BY <1>1
  <2>3. st[Len(s) + i] = p
    BY <1>2, <2>1, <2>2
  <2> QED
    BY <1>3, <2>2, <2>3 DEF Among
<1> QED
  BY <1>2, <1>4, <1>5, <1>6 DEF st

(* What is said under a condition, and what is said anyway. *)
LEMMA AmongWhen ==
  ASSUME NEW S, NEW q \in S, NEW c \in BOOLEAN
  PROVE  /\ When(c, q) \in Seq(S) /\ <<q>> \in Seq(S)
         /\ \A p : Among(p, When(c, q)) <=> c /\ p = q
         /\ \A p : Among(p, <<q>>) <=> p = q
<1>1. <<q>> \in Seq(S) /\ DOMAIN <<q>> = {1} /\ <<q>>[1] = q
  OBVIOUS
<1>2. <<>> \in Seq(S) /\ DOMAIN <<>> = {}
  OBVIOUS
<1>3. \A p : Among(p, <<q>>) <=> p = q
  BY <1>1 DEF Among
<1>4. \A p : ~Among(p, <<>>)
  BY <1>2 DEF Among
<1>5. When(c, q) = IF c THEN <<q>> ELSE <<>>
  BY DEF When
<1> QED
  BY <1>1, <1>2, <1>3, <1>4, <1>5

(* What an open says. *)
LEMMA OpenSays ==
  ASSUME NEW a, NEW p
  PROVE  Among(p, OpenPayloads(a)) <=>
           \/ p = MetadataInitialize(NameOf(a.side)) \/ p = MintToOne
           \/ p = RevokeMintAuthority \/ p = InitPortfolio(a.portfolioBump)
           \/ p = Deposit(a.amount) \/ p = PlaceOrder(a)
<1> DEFINE ps == OpenPayloads(a)
<1>1. /\ DOMAIN ps = {1, 2, 3, 4, 5, 6}
      /\ ps[1] = MetadataInitialize(NameOf(a.side)) /\ ps[2] = MintToOne
      /\ ps[3] = RevokeMintAuthority
      /\ ps[4] = InitPortfolio(a.portfolioBump)
      /\ ps[5] = Deposit(a.amount) /\ ps[6] = PlaceOrder(a)
  BY DEF OpenPayloads
<1> HIDE DEF ps
<1>2. Among(p, ps) <=> \/ ps[1] = p \/ ps[2] = p \/ ps[3] = p
                       \/ ps[4] = p \/ ps[5] = p \/ ps[6] = p
  BY <1>1 DEF Among
<1> QED
  BY <1>1, <1>2 DEF ps

(* What a close says. *)
LEMMA CloseSays ==
  ASSUME NEW a, NEW staged, NEW lamports, NEW p
  PROVE  Among(p, ClosePayloads(a, staged, lamports)) <=>
           \/ a.size > 0 /\ p = PlaceOrder(a)
           \/ p = SettlePnl
           \/ a.amount > 0 /\ p = Withdraw(a.amount)
           \/ p = BurnOne
           \/ staged > 0 /\ p = TokenTransfer(staged)
           \/ p = CloseAccount("token") \/ p = CloseAccount("token22")
           \/ lamports > 0 /\ p = SystemTransfer(lamports)
<1> DEFINE S == {PlaceOrder(a), SettlePnl, Withdraw(a.amount), BurnOne,
                 TokenTransfer(staged), CloseAccount("token"),
                 CloseAccount("token22"), SystemTransfer(lamports)}
           s1 == When(a.size > 0, PlaceOrder(a))
           s2 == When(a.amount > 0, Withdraw(a.amount))
           s3 == When(staged > 0, TokenTransfer(staged))
           s4 == <<CloseAccount("token"), CloseAccount("token22"),
                   CloseAccount("token22")>>
           s5 == When(lamports > 0, SystemTransfer(lamports))
           r1 == s1 \o <<SettlePnl>>
           r2 == r1 \o s2
           r3 == r2 \o <<BurnOne>>
           r4 == r3 \o s3
           r5 == r4 \o s4
           r6 == r5 \o s5
<1>1. /\ PlaceOrder(a) \in S /\ SettlePnl \in S /\ Withdraw(a.amount) \in S
      /\ BurnOne \in S /\ TokenTransfer(staged) \in S
      /\ CloseAccount("token") \in S /\ CloseAccount("token22") \in S
      /\ SystemTransfer(lamports) \in S
  OBVIOUS
<1> HIDE DEF S
<1>2. s1 \in Seq(S) /\ (Among(p, s1) <=> a.size > 0 /\ p = PlaceOrder(a))
  <2>1. (a.size > 0) \in BOOLEAN
    OBVIOUS
  <2> QED
    BY <1>1, <2>1, AmongWhen
<1>3. /\ s2 \in Seq(S)
      /\ Among(p, s2) <=> a.amount > 0 /\ p = Withdraw(a.amount)
  <2>1. (a.amount > 0) \in BOOLEAN
    OBVIOUS
  <2> QED
    BY <1>1, <2>1, AmongWhen
<1>4. /\ s3 \in Seq(S)
      /\ Among(p, s3) <=> staged > 0 /\ p = TokenTransfer(staged)
  <2>1. (staged > 0) \in BOOLEAN
    OBVIOUS
  <2> QED
    BY <1>1, <2>1, AmongWhen
<1>5. /\ s5 \in Seq(S)
      /\ Among(p, s5) <=> lamports > 0 /\ p = SystemTransfer(lamports)
  <2>1. (lamports > 0) \in BOOLEAN
    OBVIOUS
  <2> QED
    BY <1>1, <2>1, AmongWhen
<1>6. /\ <<SettlePnl>> \in Seq(S)
      /\ Among(p, <<SettlePnl>>) <=> p = SettlePnl
  BY <1>1, AmongWhen
<1>7. <<BurnOne>> \in Seq(S) /\ (Among(p, <<BurnOne>>) <=> p = BurnOne)
  BY <1>1, AmongWhen
<1>8. /\ s4 \in Seq(S)
      /\ Among(p, s4) <=>
           p = CloseAccount("token") \/ p = CloseAccount("token22")
  <2>1. s4 \in Seq(S)
    BY <1>1
  <2>2. /\ DOMAIN s4 = {1, 2, 3} /\ s4[1] = CloseAccount("token")
        /\ s4[2] = CloseAccount("token22") /\ s4[3] = CloseAccount("token22")
    OBVIOUS
  <2> HIDE DEF s4
  <2> QED
    BY <2>1, <2>2 DEF Among
<1>9. ClosePayloads(a, staged, lamports) = r6
  BY DEF ClosePayloads
<1> HIDE DEF s1, s2, s3, s4, s5
<1>10. /\ r1 \in Seq(S)
       /\ Among(p, r1) <=> Among(p, s1) \/ Among(p, <<SettlePnl>>)
  BY <1>2, <1>6, AmongBoth
<1> HIDE DEF r1
<1>11. r2 \in Seq(S) /\ (Among(p, r2) <=> Among(p, r1) \/ Among(p, s2))
  BY <1>3, <1>10, AmongBoth
<1> HIDE DEF r2
<1>12. /\ r3 \in Seq(S)
       /\ Among(p, r3) <=> Among(p, r2) \/ Among(p, <<BurnOne>>)
  BY <1>7, <1>11, AmongBoth
<1> HIDE DEF r3
<1>13. r4 \in Seq(S) /\ (Among(p, r4) <=> Among(p, r3) \/ Among(p, s3))
  BY <1>4, <1>12, AmongBoth
<1> HIDE DEF r4
<1>14. r5 \in Seq(S) /\ (Among(p, r5) <=> Among(p, r4) \/ Among(p, s4))
  BY <1>8, <1>13, AmongBoth
<1> HIDE DEF r5
<1>15. Among(p, r6) <=> Among(p, r5) \/ Among(p, s5)
  BY <1>5, <1>14, AmongBoth
<1> HIDE DEF r6
<1> QED
  BY <1>2, <1>3, <1>4, <1>5, <1>6, <1>7, <1>8, <1>9, <1>10, <1>11, <1>12,
     <1>13, <1>14, <1>15

(* What a program was told is what the payloads that speak of it say. *)
LEMMA ToldAsSaid ==
  ASSUME NEW payloads, heard = Understanding(payloads),
         NEW to, NEW op, NEW args, NEW wanted \in BOOLEAN,
         wanted => \E p : Among(p, payloads) /\ Speaks(p, to, op),
         \A p : Among(p, payloads) /\ Speaks(p, to, op) =>
                  wanted /\ Understood(p).args = args
  PROVE  Told(wanted, to, op, args)
<1>1. /\ DOMAIN heard = DOMAIN payloads
      /\ \A i \in DOMAIN payloads : heard[i] = Understood(payloads[i])
  BY DEF Understanding
<1>2. \A i : i \in ToldTo(to, op) <=>
               i \in DOMAIN payloads /\ Speaks(payloads[i], to, op)
  BY <1>1 DEF ToldTo, Speaks
<1>3. \A i \in ToldTo(to, op) : wanted /\ heard[i].args = args
  BY <1>1, <1>2 DEF Among
<1>4. CASE wanted
  <2>1. PICK p : Among(p, payloads) /\ Speaks(p, to, op)
    BY <1>4
  <2>2. PICK i \in DOMAIN payloads : payloads[i] = p
    BY <2>1 DEF Among
  <2>3. i \in ToldTo(to, op) /\ heard[i].args = args
    BY <1>2, <1>3, <2>1, <2>2
  <2> QED
    BY <1>3, <1>4, <2>3 DEF Told
<1>5. CASE ~wanted
  BY <1>3, <1>5 DEF Told
<1> QED
  BY <1>4, <1>5

(* The arguments both handlers use are in the range of their fields. *)
FitsFields(a) ==
  /\ a.side \in 0 .. Place[1] - 1 /\ a.asset \in 0 .. Place[4] - 1
  /\ a.size \in 0 .. Place[16] - 1 /\ a.price \in 0 .. Place[8] - 1
  /\ a.fee \in 0 .. Place[8] - 1 /\ a.amount \in 0 .. Place[16] - 1

(* A message speaks as it is. *)
LEMMA MessageSpeaks ==
  ASSUME NEW p, NEW to, NEW op, NEW args,
         Understood(p) = Message(to, op, args)
  PROVE  Speaks(p, to, op) /\ Understood(p).args = args
BY DEF Speaks, Message

(* An open tells the engine and the metadata program what it was asked. *)
LEMMA OpenTold ==
  ASSUME NEW a, FitsFields(a), a.portfolioBump \in 0 .. Place[1] - 1,
         heard = Understanding(OpenPayloads(a))
  PROVE  /\ Told(TRUE, "engine", "order", Orders(a))
         /\ Told(TRUE, "engine", "deposit", [amount |-> a.amount])
         /\ Told(FALSE, "engine", "withdraw", [amount |-> a.amount])
         /\ Told(TRUE, "engine", "init", [bump |-> a.portfolioBump])
         /\ Told(TRUE, "token22", "metadata",
                 [name |-> NameOf(a.side), symbol |-> Symbol, uri |-> <<>>])
<1> DEFINE named == [name |-> NameOf(a.side), symbol |-> Symbol,
                     uri |-> <<>>]
           bump == [bump |-> a.portfolioBump]
           amount == [amount |-> a.amount]
           metadata == MetadataInitialize(NameOf(a.side))
           init == InitPortfolio(a.portfolioBump)
           deposit == Deposit(a.amount)
           order == PlaceOrder(a)
           ps == OpenPayloads(a)
<1>1. Speaks(metadata, "token22", "metadata")
      /\ Understood(metadata).args = named
  BY NameHeard, MessageSpeaks
<1>2. Speaks(init, "engine", "init") /\ Understood(init).args = bump
  BY EngineHears, MessageSpeaks
<1>3. Speaks(deposit, "engine", "deposit")
      /\ Understood(deposit).args = amount
  BY EngineHears, MessageSpeaks DEF FitsFields
<1>4. Speaks(order, "engine", "order") /\ Understood(order).args = Orders(a)
  BY OrderHeard, MessageSpeaks DEF FitsFields
<1>5. /\ Speaks(MintToOne, "token22", "mintTo")
      /\ Speaks(RevokeMintAuthority, "token22", "authority")
  BY OthersSpeak
<1>6. \A p : Among(p, ps) <=>
               \/ p = metadata \/ p = MintToOne \/ p = RevokeMintAuthority
               \/ p = init \/ p = deposit \/ p = order
  BY OpenSays
<1> HIDE DEF named, bump, amount, metadata, init, deposit, order, ps
<1>7. heard = Understanding(ps)
  BY DEF ps
<1>8. Told(TRUE, "engine", "order", Orders(a))
  <2>1. \A p : Among(p, ps) /\ Speaks(p, "engine", "order") =>
                 Understood(p).args = Orders(a)
    BY <1>1, <1>2, <1>3, <1>4, <1>5, <1>6 DEF Speaks
  <2> QED
    BY <1>4, <1>6, <1>7, <2>1, ToldAsSaid
<1>9. Told(TRUE, "engine", "deposit", amount)
  <2>1. \A p : Among(p, ps) /\ Speaks(p, "engine", "deposit") =>
                 Understood(p).args = amount
    BY <1>1, <1>2, <1>3, <1>4, <1>5, <1>6 DEF Speaks
  <2> QED
    BY <1>3, <1>6, <1>7, <2>1, ToldAsSaid
<1>10. Told(FALSE, "engine", "withdraw", amount)
  <2>1. \A p : ~(Among(p, ps) /\ Speaks(p, "engine", "withdraw"))
    BY <1>1, <1>2, <1>3, <1>4, <1>5, <1>6 DEF Speaks
  <2> QED
    BY <1>7, <2>1, ToldAsSaid
<1>11. Told(TRUE, "engine", "init", bump)
  <2>1. \A p : Among(p, ps) /\ Speaks(p, "engine", "init") =>
                 Understood(p).args = bump
    BY <1>1, <1>2, <1>3, <1>4, <1>5, <1>6 DEF Speaks
  <2> QED
    BY <1>2, <1>6, <1>7, <2>1, ToldAsSaid
<1>12. Told(TRUE, "token22", "metadata", named)
  <2>1. \A p : Among(p, ps) /\ Speaks(p, "token22", "metadata") =>
                 Understood(p).args = named
    BY <1>1, <1>2, <1>3, <1>4, <1>5, <1>6 DEF Speaks
  <2> QED
    BY <1>1, <1>6, <1>7, <2>1, ToldAsSaid
<1> QED
  BY <1>8, <1>9, <1>10, <1>11, <1>12 DEF amount, bump, named

(* A close tells the engine what it was asked, if it was. *)
LEMMA CloseTold ==
  ASSUME NEW a, FitsFields(a), NEW staged \in Balances,
         NEW lamports \in Balances,
         heard = Understanding(ClosePayloads(a, staged, lamports))
  PROVE  /\ Told(a.size > 0, "engine", "order", Orders(a))
         /\ Told(FALSE, "engine", "deposit", [amount |-> a.amount])
         /\ Told(a.amount > 0, "engine", "withdraw", [amount |-> a.amount])
<1> DEFINE amount == [amount |-> a.amount]
           withdraw == Withdraw(a.amount)
           order == PlaceOrder(a)
           transfer == TokenTransfer(staged)
           payout == SystemTransfer(lamports)
           ps == ClosePayloads(a, staged, lamports)
           some == a.amount > 0
           any == a.size > 0
<1>1. Speaks(withdraw, "engine", "withdraw")
      /\ Understood(withdraw).args = amount
  BY EngineHears, MessageSpeaks DEF FitsFields
<1>2. Speaks(order, "engine", "order") /\ Understood(order).args = Orders(a)
  BY OrderHeard, MessageSpeaks DEF FitsFields
<1>3. /\ Speaks(SettlePnl, "engine", "settle")
      /\ Speaks(BurnOne, "token22", "burn")
      /\ Speaks(CloseAccount("token"), "token", "close")
      /\ Speaks(CloseAccount("token22"), "token22", "close")
      /\ Speaks(transfer, "token", "transfer")
      /\ Speaks(payout, "system", "transfer")
  <2>1. staged \in Int /\ lamports \in Int
    BY BalanceAssumption
  <2> QED
    BY <2>1, OthersSpeak
<1>4. some \in BOOLEAN /\ any \in BOOLEAN
  OBVIOUS
<1>5. \A p : Among(p, ps) =>
               \/ any /\ p = order
               \/ p = SettlePnl
               \/ some /\ p = withdraw
               \/ p = BurnOne
               \/ p = transfer
               \/ p = CloseAccount("token") \/ p = CloseAccount("token22")
               \/ p = payout
  BY CloseSays
<1>6. (any => Among(order, ps)) /\ (some => Among(withdraw, ps))
  BY CloseSays
<1> HIDE DEF amount, withdraw, order, transfer, payout, ps, some, any
<1>7. heard = Understanding(ps)
  BY DEF ps
<1>8. Told(any, "engine", "order", Orders(a))
  <2>1. \A p : Among(p, ps) /\ Speaks(p, "engine", "order") =>
                 any /\ Understood(p).args = Orders(a)
    BY <1>1, <1>2, <1>3, <1>5 DEF Speaks
  <2> QED
    BY <1>2, <1>4, <1>6, <1>7, <2>1, ToldAsSaid
<1>9. Told(FALSE, "engine", "deposit", amount)
  <2>1. \A p : ~(Among(p, ps) /\ Speaks(p, "engine", "deposit"))
    BY <1>1, <1>2, <1>3, <1>5 DEF Speaks
  <2> QED
    BY <1>7, <2>1, ToldAsSaid
<1>10. Told(some, "engine", "withdraw", amount)
  <2>1. \A p : Among(p, ps) /\ Speaks(p, "engine", "withdraw") =>
                 some /\ Understood(p).args = amount
    BY <1>1, <1>2, <1>3, <1>5 DEF Speaks
  <2> QED
    BY <1>1, <1>4, <1>6, <1>7, <2>1, ToldAsSaid
<1> QED
  BY <1>8, <1>9, <1>10 DEF amount, some, any

-----------------------------------------------------------------------------
(* Part of a payload. *)

(* The values the bytes of a call take, and that of the byte which a       *)
(* client lets follow them.                                                *)
Bytes(call) ==
  {Encoded(call.kind, call.args)[k] : k \in 1 .. SdkLength(call.kind)}
    \cup {1}

(* A payload is a sequence as long as the SDK's buffer. *)
LEMMA EncodedIsSeq ==
  ASSUME NEW call, call.kind \in Kind
  PROVE  /\ Encoded(call.kind, call.args) \in Seq(Bytes(call))
         /\ Len(Encoded(call.kind, call.args)) = SdkLength(call.kind)
         /\ SdkLength(call.kind) \in {55, 56}
<1> DEFINE enc == Encoded(call.kind, call.args)
           length == SdkLength(call.kind)
<1>1. length \in {55, 56} /\ length \in Nat
  BY DEF SdkLength
<1>2. enc = [k \in 1 .. length |-> enc[k]]
  BY EncodedBytes
<1>3. \A k \in 1 .. length : enc[k] \in Bytes(call)
  BY DEF Bytes
<1> HIDE DEF enc, length
<1>4. enc \in [1 .. length -> Bytes(call)]
  BY <1>2, <1>3
<1>5. enc \in Seq(Bytes(call))
  BY <1>1, <1>4
<1>6. Len(enc) = length
  BY <1>1, <1>4, <1>5
<1> QED
  BY <1>1, <1>5, <1>6 DEF enc, length

(* A part of a payload that still has the tag lacks the last field, which  *)
(* is the reason nothing shorter than a payload can be read.               *)
LEMMA CutShort ==
  ASSUME NEW call, call.kind \in Kind,
         NEW n \in 0 .. SdkLength(call.kind) - 1,
         SubSeq(Encoded(call.kind, call.args), 1, n) # <<>>
  PROVE  LET part == SubSeq(Encoded(call.kind, call.args), 1, n) IN
         KindOf(Head(part)) = call.kind /\ ~Readable(Tail(part), call.kind)
<1> DEFINE enc == Encoded(call.kind, call.args)
           part == SubSeq(enc, 1, n)
           last == Fields(call.kind)
           rest == RestLayout(call.kind)
<1>1. /\ SdkLength(call.kind) \in {55, 56} /\ enc \in Seq(Bytes(call))
      /\ Len(enc) = SdkLength(call.kind)
  BY EncodedIsSeq
<1>2. n \in Nat /\ n < SdkLength(call.kind)
  BY <1>1
<1>3. n # 0
  BY <1>2, SubSeqEmpty
<1>4. \A k \in 1 .. n : enc[k] \in Bytes(call)
  BY <1>1, <1>2, LenProperties
<1>5. /\ part \in Seq(Bytes(call)) /\ Len(part) = n
      /\ part[1] = enc[1]
  <2> HIDE DEF enc
  <2>1. /\ SubSeq(enc, 1, n) \in Seq(Bytes(call))
        /\ Len(SubSeq(enc, 1, n)) = IF 1 <= n THEN n - 1 + 1 ELSE 0
        /\ \A i \in 1 .. n - 1 + 1 : SubSeq(enc, 1, n)[i] = enc[1 + i - 1]
    BY <1>2, <1>4, SubSeqProperties
  <2>2. /\ (IF 1 <= n THEN n - 1 + 1 ELSE 0) = n
        /\ 1 \in 1 .. n - 1 + 1 /\ 1 + 1 - 1 = 1
    BY <1>2, <1>3
  <2> QED
    BY <2>1, <2>2
<1>6. /\ Head(part) = part[1] /\ Len(Tail(part)) = n - 1
  BY <1>5, HeadTailProperties DEF Head
<1>7. KindOf(Head(part)) = call.kind
  <2>1. enc[1] = TagOf(call.kind)
    BY EncodedBytes
  <2>2. KindOf(TagOf(call.kind)) = call.kind
    BY DEF KindOf, TagOf, Kind
  <2> QED
    BY <1>5, <1>6, <2>1, <2>2
<1>8. ~Readable(Tail(part), call.kind)
  <2> DEFINE at == rest[last].offset
             width == rest[last].width
  <2>1. /\ last \in DOMAIN rest /\ at \in Nat /\ width \in Nat
        /\ (at + 1) + width = SdkLength(call.kind)
    BY Layouts, Places
  <2>2. ~(at + width <= Len(Tail(part)))
    <3> HIDE DEF at, width, part
    <3> QED
      BY <1>1, <1>2, <1>6, <2>1
  <2> HIDE DEF part
  <2> QED
    BY <2>1, <2>2 DEF Readable, Fits
<1> QED
  BY <1>7, <1>8

-----------------------------------------------------------------------------
(* One call. *)

(* What a client built, until it sends it. *)
Built ==
  sent = "built" =>
    /\ data = Encoded(asked.kind, asked.args)
    /\ read = Nothing
    /\ heard = <<>>
    /\ verdict = "pending"

(* A part of it is refused, the empty one as unknown, the others as short. *)
CutOff ==
  sent = "cut" =>
    /\ \E n \in 0 .. SdkLength(asked.kind) - 1 :
         data = SubSeq(Encoded(asked.kind, asked.args), 1, n)
    /\ read = Nothing
    /\ heard = <<>>
    /\ verdict # "pending" =>
         (verdict = "InvalidInstruction" <=> data = <<>>)

(* The whole of it, and whatever follows, is the call asked for: what the  *)
(* program decodes are the digits the SDK wrote for each argument, and the *)
(* bytes are never why it is refused.                                      *)
Arrives ==
  sent \in {"whole", "padded"} =>
    /\ Finds(data, asked)
    /\ read # Nothing =>
         read = [kind |-> asked.kind,
                 args |-> Values(Tail(data), RestLayout(asked.kind))]
    /\ verdict # "InvalidInstruction"
    /\ verdict = "InvalidInstructionData" =>
         read # Nothing /\ read.kind = "open" /\ Empty(read.args)

WireInductive == asked \in Calls /\ Built /\ CutOff /\ Arrives

(* A payload, and a payload with a byte after it, are the call asked for. *)
LEMMA WholeArrives ==
  ASSUME NEW call, call.kind \in Kind
  PROVE  /\ Finds(Encoded(call.kind, call.args), call)
         /\ Finds(Append(Encoded(call.kind, call.args), 1), call)
<1> DEFINE enc == Encoded(call.kind, call.args)
           padded == Append(enc, 1)
<1>1. /\ enc \in Seq(Bytes(call)) /\ Len(enc) = SdkLength(call.kind)
      /\ SdkLength(call.kind) \in Nat
  BY EncodedIsSeq
<1>2. Finds(enc, call)
  BY <1>1, BeginsWithACall
<1>3. 1 \in Bytes(call)
  BY DEF Bytes
<1>4. /\ padded \in Seq(Bytes(call)) /\ Len(padded) = Len(enc) + 1
      /\ \A k \in 1 .. Len(enc) : padded[k] = enc[k]
  <2> HIDE DEF enc
  <2> QED
    BY <1>1, <1>3, AppendProperties
<1>5. Len(padded) >= SdkLength(call.kind)
  BY <1>1, <1>4
<1>6. Finds(padded, call)
  BY <1>1, <1>4, <1>5, BeginsWithACall
<1> QED
  BY <1>2, <1>6

(* The first bytes of an unsent call. *)
LEMMA WireStarts == Init => WireInductive
BY DEF Init, WireInductive, Built, CutOff, Arrives

(* What a client sends is a part of the payload or begins with it. *)
LEMMA SendStep ==
  ASSUME WireInductive,
         \/ Whole \/ Padded \/ Mistagged
         \/ \E n \in 0 .. Len(data) - 1 : CutTo(n)
  PROVE  WireInductive'
<1>1. /\ sent = "built" /\ UNCHANGED <<asked, read, heard, verdict>>
      /\ sent' \in {"whole", "padded", "mistagged", "cut"}
  BY DEF Whole, Padded, Mistagged, CutTo, Sent
<1>2. /\ asked \in Calls /\ asked.kind \in Kind
      /\ data = Encoded(asked.kind, asked.args)
      /\ read = Nothing /\ heard = <<>> /\ verdict = "pending"
  BY <1>1, CallAssumption DEF WireInductive, Built
<1>3. asked' \in Calls /\ Built'
  BY <1>1, <1>2 DEF Built
<1>4. Arrives'
  <2>1. CASE Whole
    <3>1. Finds(data', asked')
      BY <1>1, <1>2, <2>1, WholeArrives DEF Whole, Sent
    <3> QED
      BY <1>1, <1>2, <3>1 DEF Arrives
  <2>2. CASE Padded
    <3>1. data' = Append(data, 1)
      BY <2>2 DEF Padded, Sent
    <3>2. Finds(data', asked')
      BY <1>1, <1>2, <3>1, WholeArrives
    <3> QED
      BY <1>1, <1>2, <3>2 DEF Arrives
  <2>3. CASE sent' \notin {"whole", "padded"}
    BY <2>3 DEF Arrives
  <2> QED
    BY <2>1, <2>2, <2>3 DEF Mistagged, CutTo, Sent
<1>5. CutOff'
  <2>1. CASE \E n \in 0 .. Len(data) - 1 : CutTo(n)
    <3>1. PICK n \in 0 .. Len(data) - 1 : CutTo(n)
      BY <2>1
    <3>2. n \in 0 .. SdkLength(asked.kind) - 1
      BY <1>2, <3>1, EncodedIsSeq
    <3>3. data' = SubSeq(Encoded(asked.kind, asked.args), 1, n)
      BY <1>2, <3>1 DEF CutTo, Sent
    <3> QED
      BY <1>1, <1>2, <3>2, <3>3 DEF CutOff
  <2>2. CASE sent' # "cut"
    BY <2>2 DEF CutOff
  <2> QED
    BY <2>1, <2>2 DEF Whole, Padded, Mistagged, Sent
<1> QED
  BY <1>3, <1>4, <1>5 DEF WireInductive

(* What arrives is decoded as the call asked for, or refused for the       *)
(* reason its length gives.                                                *)
LEMMA UnpackStep ==
  ASSUME WireInductive, RefuseTag \/ RefuseShort \/ Unpack
  PROVE  WireInductive'
<1>1. /\ Arrived /\ UNCHANGED <<asked, data, sent, heard>>
  BY DEF RefuseTag, RefuseShort, Known, Unpack, Refuse
<1>2. /\ asked' \in Calls /\ asked.kind \in Kind /\ Built'
  BY <1>1, CallAssumption DEF WireInductive, Arrived, Built
<1>3. CutOff'
  <2>1. SUFFICES ASSUME sent = "cut" PROVE CutOff'
    BY <1>1 DEF CutOff
  <2>2. PICK n \in 0 .. SdkLength(asked.kind) - 1 :
          data = SubSeq(Encoded(asked.kind, asked.args), 1, n)
    BY <2>1 DEF WireInductive, CutOff
  <2>3. read = Nothing /\ heard = <<>>
    BY <2>1 DEF WireInductive, CutOff
  <2>4. data # <<>> => Tagged /\ ~Readable(Tail(data), KindOf(Head(data)))
    <3>1. SUFFICES ASSUME data # <<>>
                   PROVE  Tagged /\ ~Readable(Tail(data), KindOf(Head(data)))
      OBVIOUS
    <3>2. /\ KindOf(Head(data)) = asked.kind
          /\ ~Readable(Tail(data), asked.kind)
      BY <1>2, <2>2, <3>1, CutShort
    <3> QED
      BY <1>2, <3>1, <3>2 DEF Tagged, Kind
  <2>5. CASE RefuseTag
    <3>1. data = <<>> /\ verdict' = "InvalidInstruction" /\ read' = read
      BY <2>4, <2>5 DEF RefuseTag, Refuse
    <3> QED
      BY <1>1, <2>2, <2>3, <3>1 DEF CutOff
  <2>6. CASE RefuseShort
    <3>1. /\ data # <<>> /\ verdict' = "InvalidInstructionData"
          /\ read' = read
      BY <2>6 DEF RefuseShort, Known, Tagged, Refuse
    <3> QED
      BY <1>1, <2>2, <2>3, <3>1 DEF CutOff
  <2>7. CASE Unpack
    BY <2>4, <2>7 DEF Unpack, Known, Tagged
  <2> QED
    BY <2>5, <2>6, <2>7
<1>4. Arrives'
  <2>1. SUFFICES ASSUME sent \in {"whole", "padded"} PROVE Arrives'
    BY <1>1 DEF Arrives
  <2>2. Finds(data, asked) /\ verdict = "pending"
    BY <1>1, <2>1 DEF WireInductive, Arrives, Arrived
  <2>3. /\ KindOf(Head(data)) = asked.kind /\ Tagged
        /\ Readable(Tail(data), asked.kind)
    BY <1>2, <2>2 DEF Finds, Tagged, Kind
  <2>4. Unpack
    BY <2>3 DEF RefuseTag, RefuseShort
  <2>5. /\ verdict' = "pending"
        /\ read' = [kind |-> asked.kind,
                    args |-> Values(Tail(data), RestLayout(asked.kind))]
    BY <2>2, <2>3, <2>4 DEF Unpack
  <2> QED
    BY <1>1, <2>2, <2>5 DEF Arrives
<1> QED
  BY <1>2, <1>3, <1>4 DEF WireInductive

(* A handler runs on what was decoded, so never on a part. *)
LEMMA HandlerStep ==
  ASSUME WireInductive,
         \/ RefuseEmpty \/ OpenPosition
         \/ \E staged, lamports \in Balances : ClosePosition(staged, lamports)
  PROVE  WireInductive'
<1>1. /\ Decoded /\ UNCHANGED <<asked, data, sent, read>>
  BY DEF RefuseEmpty, OpenPosition, ClosePosition, Refuse, Say
<1>2. sent # "built" /\ sent # "cut"
  BY <1>1 DEF WireInductive, Built, CutOff, Decoded
<1>3. \/ verdict' = "ok"
      \/ /\ verdict' = "InvalidInstructionData"
         /\ read.kind = "open" /\ Empty(read.args)
  BY DEF RefuseEmpty, OpenPosition, ClosePosition, Refuse, Say
<1>4. asked' \in Calls /\ Built' /\ CutOff'
  BY <1>1, <1>2 DEF WireInductive, Built, CutOff
<1>5. Arrives'
  BY <1>1, <1>3 DEF WireInductive, Arrives, Decoded
<1> QED
  BY <1>4, <1>5 DEF WireInductive

(* Whatever is asked, every part of a payload is refused and the whole of  *)
(* it is taken for the call it was built for.                              *)
LEMMA WireStaysInductive == WireInductive /\ [Next]_wvars => WireInductive'
<1> SUFFICES ASSUME WireInductive, [Next]_wvars PROVE WireInductive'
  OBVIOUS
<1>1. CASE \/ Whole \/ Padded \/ Mistagged
           \/ \E n \in 0 .. Len(data) - 1 : CutTo(n)
  BY <1>1, SendStep
<1>2. CASE RefuseTag \/ RefuseShort \/ Unpack
  BY <1>2, UnpackStep
<1>3. CASE \/ RefuseEmpty \/ OpenPosition
           \/ \E staged, lamports \in Balances :
                ClosePosition(staged, lamports)
  BY <1>3, HandlerStep
<1>4. CASE UNCHANGED wvars
  BY <1>4 DEF wvars, WireInductive, Built, CutOff, Arrives
<1> QED
  BY <1>1, <1>2, <1>3, <1>4 DEF Next

(* For every base and every set of calls: no strict prefix of a payload is *)
(* ever decoded or executed, whatever its arguments; and only the empty    *)
(* one is an unknown instruction (instruction.rs:98-129).                  *)
THEOREM NoPrefixIsACall == Spec => []NoPrefixDecodes
<1>1. WireInductive => NoPrefixDecodes
  BY DEF WireInductive, CutOff, NoPrefixDecodes
<1> QED
  BY <1>1, WireStarts, WireStaysInductive, PTL DEF Spec

(* A payload sent whole, or with a byte after it, is never refused for its *)
(* bytes, its kind is the one asked for, and the program decodes each      *)
(* argument from exactly the digits the SDK wrote for that argument, in    *)
(* range or not: the two layouts agree (instructions.ts:27-70,             *)
(* instruction.rs:98-153).                                                 *)
THEOREM EveryFieldArrives == Spec => []Arrives
<1>1. WireInductive => Arrives
  BY DEF WireInductive
<1> QED
  BY <1>1, WireStarts, WireStaysInductive, PTL DEF Spec

(* For every base and every call a client builds, of arguments of any size *)
(* and sign: what reaches the program of each argument is that argument    *)
(* reduced to its field, so a wrapped one disturbs no other                *)
(* (instructions.ts:14-25).                                                *)
THEOREM OneFieldWraps == Spec => []OnlyItselfWraps
<1>1. WireInductive => OnlyItselfWraps
  <2>1. SUFFICES ASSUME WireInductive, sent = "whole", read # Nothing,
                        NEW i \in DOMAIN SdkLayout(asked.kind)
                 PROVE  LET f == SdkLayout(asked.kind)[i] IN
                        read.args[f.name] = asked.args[f.name] % Limit(f)
    BY DEF OnlyItselfWraps
  <2>2. /\ asked \in Calls /\ Finds(data, asked)
        /\ read.args = Values(Tail(data), RestLayout(asked.kind))
    BY <2>1 DEF WireInductive, Arrives
  <2>3. asked.kind \in Kind
    BY <2>2, CallAssumption
  <2>4. i \in 1 .. Fields(asked.kind)
    BY <2>1, <2>3, Layouts
  <2> QED
    BY <2>2, <2>4, FieldsRead
<1> QED
  BY <1>1, WireStarts, WireStaysInductive, PTL DEF Spec

(* A handler says what it decoded, and nothing else. *)
Spoke ==
  verdict = "ok" =>
    /\ read # Nothing
    /\ \/ read.kind = "open" /\ heard = Understanding(OpenPayloads(read.args))
       \/ /\ read.kind = "close"
          /\ \E staged, lamports \in Balances :
               heard =
                 Understanding(ClosePayloads(read.args, staged, lamports))

(* It stays so: only a handler ends a call well. *)
LEMMA StillSpoke == Spoke /\ [Next]_wvars => Spoke'
<1> SUFFICES ASSUME Spoke, [Next]_wvars PROVE Spoke'
  OBVIOUS
<1>1. CASE OpenPosition
  <2>1. /\ read # Nothing /\ read.kind = "open" /\ read' = read
        /\ heard' = Understanding(OpenPayloads(read.args))
    BY <1>1 DEF OpenPosition, Decoded, Say, Understanding
  <2> QED
    BY <2>1 DEF Spoke
<1>2. CASE \E staged, lamports \in Balances : ClosePosition(staged, lamports)
  <2>1. PICK staged \in Balances, lamports \in Balances :
          ClosePosition(staged, lamports)
    BY <1>2
  <2>2. /\ read # Nothing /\ read.kind = "close" /\ read' = read
        /\ heard' =
             Understanding(ClosePayloads(read.args, staged, lamports))
    BY <2>1 DEF ClosePosition, Decoded, Say, Understanding
  <2> QED
    BY <2>2 DEF Spoke
<1>3. CASE \/ Whole \/ Padded \/ Mistagged
           \/ \E n \in 0 .. Len(data) - 1 : CutTo(n)
  BY <1>3 DEF Whole, Padded, Mistagged, CutTo, Sent, Spoke
<1>4. CASE RefuseTag \/ RefuseShort \/ RefuseEmpty
  BY <1>4 DEF RefuseTag, RefuseShort, RefuseEmpty, Refuse, Spoke
<1>5. CASE Unpack
  BY <1>5 DEF Unpack, Known, Arrived, Spoke
<1>6. CASE UNCHANGED wvars
  BY <1>6 DEF wvars, Spoke
<1> QED
  BY <1>1, <1>2, <1>3, <1>4, <1>5, <1>6 DEF Next

(* What fits its field is decoded as it was. *)
LEMMA DecodedAsAsked ==
  ASSUME WireInductive, sent \in {"whole", "padded"}, read # Nothing,
         AllInRange
  PROVE  /\ read.kind = asked.kind
         /\ FitsFields(read.args)
         /\ Orders(read.args) = Orders(asked.args)
         /\ read.args.side = asked.args.side
         /\ read.args.size = asked.args.size
         /\ read.args.amount = asked.args.amount
         /\ read.args.positionBump = asked.args.positionBump
         /\ asked.kind = "open" =>
              /\ read.args.portfolioBump = asked.args.portfolioBump
              /\ read.args.portfolioBump \in 0 .. Place[1] - 1
<1> DEFINE sdk == SdkLayout(asked.kind)
           a == asked.args
           b == read.args
<1>1. /\ asked \in Calls /\ asked.kind \in Kind /\ Finds(data, asked)
      /\ read = [kind |-> asked.kind,
                 args |-> Values(Tail(data), RestLayout(asked.kind))]
  BY CallAssumption DEF WireInductive, Arrives
<1>2. /\ DOMAIN sdk = 1 .. Fields(asked.kind) /\ Fields(asked.kind) \in {7, 8}
      /\ asked.kind = "open" => Fields(asked.kind) = 8
  BY <1>1, Layouts DEF Fields
<1>3. ASSUME NEW i \in DOMAIN sdk
      PROVE  /\ b[sdk[i].name] = a[sdk[i].name]
             /\ b[sdk[i].name] \in 0 .. Place[sdk[i].width] - 1
  <2> DEFINE f == sdk[i]
  <2>1. b[f.name] = a[f.name] % Limit(f)
    BY <1>1, <1>2, FieldsRead
  <2>2. a[f.name] \in 0 .. Limit(f) - 1
    BY DEF AllInRange, InRange
  <2>3. f.width \in Nat
    BY <1>1, <1>2, Layouts
  <2> HIDE DEF f, a, b
  <2>4. Limit(f) \in Nat \ {0}
    BY <2>3, PlaceValues DEF Limit
  <2>5. a[f.name] % Limit(f) = a[f.name]
    BY <2>2, <2>4, SmallEnough
  <2> QED
    BY <2>1, <2>2, <2>5 DEF f, Limit
<1>4. /\ sdk[1] = Field("side", 1, 1) /\ sdk[2] = Field("asset", 2, 4)
      /\ sdk[3] = Field("size", 6, 16) /\ sdk[4] = Field("price", 22, 8)
      /\ sdk[5] = Field("fee", 30, 8) /\ sdk[6] = Field("amount", 38, 16)
      /\ sdk[7] = Field("positionBump", 54, 1)
      /\ asked.kind = "open" => sdk[8] = Field("portfolioBump", 55, 1)
  BY <1>2 DEF SdkLayout
<1>5. /\ {1, 2, 3, 4, 5, 6, 7} \subseteq DOMAIN sdk
      /\ asked.kind = "open" => 8 \in DOMAIN sdk
  BY <1>2
<1> HIDE DEF sdk, a, b
<1>6. /\ b["side"] = a["side"] /\ b["side"] \in 0 .. Place[1] - 1
      /\ b["asset"] = a["asset"] /\ b["asset"] \in 0 .. Place[4] - 1
      /\ b["size"] = a["size"] /\ b["size"] \in 0 .. Place[16] - 1
      /\ b["price"] = a["price"] /\ b["price"] \in 0 .. Place[8] - 1
      /\ b["fee"] = a["fee"] /\ b["fee"] \in 0 .. Place[8] - 1
      /\ b["amount"] = a["amount"] /\ b["amount"] \in 0 .. Place[16] - 1
      /\ b["positionBump"] = a["positionBump"]
  <2>1. \A i \in DOMAIN sdk : \A n, at, w :
          sdk[i] = Field(n, at, w) => b[n] = a[n] /\ b[n] \in 0 .. Place[w] - 1
    BY <1>3 DEF Field
  <2> QED
    BY <1>4, <1>5, <2>1
<1>7. asked.kind = "open" =>
        /\ b["portfolioBump"] = a["portfolioBump"]
        /\ b["portfolioBump"] \in 0 .. Place[1] - 1
  <2>1. \A i \in DOMAIN sdk : \A n, at, w :
          sdk[i] = Field(n, at, w) => b[n] = a[n] /\ b[n] \in 0 .. Place[w] - 1
    BY <1>3 DEF Field
  <2> QED
    BY <1>4, <1>5, <2>1
<1>8. read.kind = asked.kind
  BY <1>1
<1> QED
  BY <1>6, <1>7, <1>8 DEF a, b, FitsFields, Orders

(* For every base and every call whose arguments fit their fields: the     *)
(* engine is told to place the order, deposit and withdraw exactly what    *)
(* the caller of the SDK asked for, the metadata program the name of the   *)
(* side, and the call is refused only if it is an open of nothing          *)
(* (instructions.ts:27-70, instruction.rs:125, opcpi.rs:249-286,           *)
(* processor.rs:133, 394, 436).                                            *)
THEOREM AskedIsHeard == Spec => []HeardAsAsked
<1>1. Init => Spoke
  BY DEF Init, Spoke
<1>2. WireInductive /\ Spoke => HeardAsAsked
  <2> DEFINE a == asked.args
             b == read.args
             opening == asked.kind = "open"
             closing == ~opening
  <2>1. SUFFICES ASSUME WireInductive, Spoke, sent \in {"whole", "padded"},
                        AllInRange
                 PROVE
          /\ verdict = "InvalidInstructionData" => opening /\ Empty(a)
          /\ verdict # "InvalidInstruction"
          /\ verdict = "ok" =>
               /\ Told(opening \/ a.size > 0, "engine", "order", Orders(a))
               /\ Told(opening, "engine", "deposit", [amount |-> a.amount])
               /\ Told(closing /\ a.amount > 0, "engine", "withdraw",
                       [amount |-> a.amount])
               /\ opening =>
                    /\ Told(TRUE, "engine", "init",
                            [bump |-> a.portfolioBump])
                    /\ Told(TRUE, "token22", "metadata",
                            [name |-> NameOf(a.side), symbol |-> Symbol,
                             uri |-> <<>>])
               /\ read.args.positionBump = a.positionBump
    BY DEF HeardAsAsked
  <2>2. read # Nothing =>
          /\ read.kind = asked.kind /\ FitsFields(b)
          /\ Orders(b) = Orders(a)
          /\ b.side = a.side /\ b.size = a.size /\ b.amount = a.amount
          /\ b.positionBump = a.positionBump
          /\ opening => /\ b.portfolioBump = a.portfolioBump
                        /\ b.portfolioBump \in 0 .. Place[1] - 1
    BY <2>1, DecodedAsAsked
  <2>3. verdict = "InvalidInstructionData" => opening /\ Empty(a)
    BY <2>1, <2>2 DEF WireInductive, Arrives, Empty
  <2>4. verdict # "InvalidInstruction"
    BY <2>1 DEF WireInductive, Arrives
  <2>5. ASSUME verdict = "ok", opening
        PROVE  /\ Told(TRUE, "engine", "order", Orders(a))
               /\ Told(TRUE, "engine", "deposit", [amount |-> a.amount])
               /\ Told(FALSE, "engine", "withdraw", [amount |-> a.amount])
               /\ Told(TRUE, "engine", "init", [bump |-> a.portfolioBump])
               /\ Told(TRUE, "token22", "metadata",
                       [name |-> NameOf(a.side), symbol |-> Symbol,
                        uri |-> <<>>])
               /\ b.positionBump = a.positionBump
    <3>1. read # Nothing /\ heard = Understanding(OpenPayloads(b))
      BY <2>1, <2>2, <2>5 DEF Spoke
    <3> HIDE DEF a, b
    <3>2. /\ Told(TRUE, "engine", "order", Orders(b))
          /\ Told(TRUE, "engine", "deposit", [amount |-> b.amount])
          /\ Told(FALSE, "engine", "withdraw", [amount |-> b.amount])
          /\ Told(TRUE, "engine", "init", [bump |-> b.portfolioBump])
          /\ Told(TRUE, "token22", "metadata",
                  [name |-> NameOf(b.side), symbol |-> Symbol,
                   uri |-> <<>>])
      BY <2>2, <2>5, <3>1, OpenTold
    <3> QED
      BY <2>2, <2>5, <3>1, <3>2
  <2>6. ASSUME verdict = "ok", closing
        PROVE  /\ Told(a.size > 0, "engine", "order", Orders(a))
               /\ Told(FALSE, "engine", "deposit", [amount |-> a.amount])
               /\ Told(a.amount > 0, "engine", "withdraw",
                       [amount |-> a.amount])
               /\ b.positionBump = a.positionBump
    <3>1. PICK staged \in Balances, lamports \in Balances :
            /\ read # Nothing
            /\ heard = Understanding(ClosePayloads(b, staged, lamports))
      BY <2>1, <2>2, <2>6 DEF Spoke
    <3> HIDE DEF a, b
    <3>2. /\ Told(b.size > 0, "engine", "order", Orders(b))
          /\ Told(FALSE, "engine", "deposit", [amount |-> b.amount])
          /\ Told(b.amount > 0, "engine", "withdraw", [amount |-> b.amount])
      BY <2>2, <3>1, CloseTold
    <3> QED
      BY <2>2, <3>1, <3>2
  <2> HIDE DEF a, b
  <2>7. CASE opening
    BY <2>3, <2>4, <2>5, <2>7 DEF b
  <2>8. CASE closing
    <3>1. /\ (opening \/ a.size > 0) <=> a.size > 0
          /\ opening <=> FALSE
          /\ (closing /\ a.amount > 0) <=> a.amount > 0
      BY <2>8
    <3> HIDE DEF opening, closing
    <3> QED
      BY <2>3, <2>4, <2>6, <2>8, <3>1 DEF b, Told
  <2> QED
    BY <2>7, <2>8
<1> QED
  BY <1>1, <1>2, WireStarts, WireStaysInductive, StillSpoke, PTL DEF Spec
=============================================================================
