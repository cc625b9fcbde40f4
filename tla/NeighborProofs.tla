---------------------------- MODULE NeighborProofs ----------------------------
(***************************************************************************)
(* Proofs about Neighbor, for every packet, every address and every width  *)
(* of a byte: the checksum as the code computes it is that of the          *)
(* protocol, so that the right packets are answered with valid ones.       *)
(***************************************************************************)
EXTENDS Neighbor, TLAPS, WellFoundedInduction

-----------------------------------------------------------------------------
(***************************************************************************)
(* Induction, for sets of numbers, and functions that are defined by it.   *)
(***************************************************************************)

LEMMA LeastElement ==
  ASSUME NEW T \in SUBSET Nat, T # {}
  PROVE  \E n \in T : \A m \in T : n <= m
<1> DEFINE Less == {pair \in Nat \X Nat : pair[1] < pair[2]}
<1>1. IsWellFoundedOn(Less, Nat)
  BY NatLessThanWellFounded DEF OpToRel
<1>2. \A m, n \in Nat : <<m, n>> \in Less <=> m < n
  OBVIOUS
<1> HIDE DEF Less
<1>3. PICK n \in T : \A m \in T : ~(<<m, n>> \in Less)
  BY <1>1, WFMin
<1>4. \A m \in T : ~(m < n)
  BY <1>2, <1>3
<1> QED
  BY <1>4

LEMMA Induction ==
  ASSUME NEW S, 0 \in S, \A n \in Nat : n \in S => n + 1 \in S
  PROVE  Nat \subseteq S
<1> DEFINE T == Nat \ S
<1> SUFFICES ASSUME T # {} PROVE FALSE
  OBVIOUS
<1>1. PICK n \in T : \A m \in T : n <= m
  BY LeastElement
<1>2. n # 0 /\ n - 1 \in Nat /\ n - 1 \notin T
  BY <1>1
<1> QED
  BY <1>2

\* A first value and a step determine a function up to any bound.
LEMMA Recursion ==
  ASSUME NEW S, NEW z \in S, NEW N \in Nat, NEW step \in [1 .. N -> [S -> S]]
  PROVE  \E f \in [0 .. N -> S] :
           f[0] = z /\ \A n \in 1 .. N : f[n] = step[n][f[n - 1]]
<1> DEFINE Upto(m, f) == /\ f \in [0 .. m -> S]
                         /\ f[0] = z
                         /\ \A n \in 1 .. m : f[n] = step[n][f[n - 1]]
           T == {m \in Nat : m <= N => \E f : Upto(m, f)}
<1>1. 0 \in T
  <2>1. Upto(0, [n \in 0 .. 0 |-> z])
    OBVIOUS
  <2> QED
    BY <2>1
<1>2. ASSUME NEW m \in Nat, m \in T, m + 1 <= N PROVE m + 1 \in T
  <2>1. PICK f : Upto(m, f)
    BY <1>2
  <2> DEFINE g == [n \in 0 .. (m + 1) |->
                     IF n = m + 1 THEN step[m + 1][f[m]] ELSE f[n]]
  <2>2. m + 1 \in 1 .. N /\ f[m] \in S /\ step[m + 1][f[m]] \in S
    BY <1>2, <2>1
  <2>3. g \in [0 .. (m + 1) -> S] /\ g[0] = z
    BY <2>1, <2>2
  <2>4. ASSUME NEW n \in 1 .. (m + 1) PROVE g[n] = step[n][g[n - 1]]
    <3>1. /\ n \in 0 .. (m + 1) /\ n - 1 \in 0 .. (m + 1)
          /\ n - 1 # m + 1
      BY <1>2, <2>4
    <3>2. g[n - 1] = f[n - 1]
      BY <3>1
    <3>3. CASE n = m + 1
      <4>1. g[n] = step[m + 1][f[m]] /\ n - 1 = m
        BY <1>2, <3>1, <3>3
      <4> QED
        BY <3>2, <3>3, <4>1
    <3>4. CASE n \in 1 .. m
      <4>1. g[n] = f[n]
        BY <3>1, <3>4
      <4> QED
        BY <2>1, <3>2, <3>4, <4>1
    <3> QED
      BY <1>2, <2>4, <3>3, <3>4
  <2> HIDE DEF g
  <2>5. Upto(m + 1, g)
    BY <2>3, <2>4
  <2> HIDE DEF Upto
  <2> QED
    BY <2>5
<1>3. ASSUME NEW m \in Nat, m \in T PROVE m + 1 \in T
  <2>1. CASE m + 1 <= N
    BY <1>2, <1>3, <2>1
  <2>2. CASE ~(m + 1 <= N)
    BY <2>2
  <2> QED
    BY <2>1, <2>2
<1> HIDE DEF T
<1>4. N \in T
  BY <1>1, <1>3, Induction
<1> QED
  BY <1>4 DEF T

-----------------------------------------------------------------------------
(***************************************************************************)
(* The sums.  Each is the value of a function that is defined by recursion *)
(* on the number of bytes or words added.                                  *)
(***************************************************************************)

LEMMA Numbers ==
  /\ B \in Nat /\ B > 1 /\ B * B \in Nat /\ B * B >= 2 * B
  /\ AllOnes \in Nat /\ AllOnes = B * B - 1 /\ AllOnes > B
  /\ Bytes \subseteq Nat
BY BytesAssumption DEF AllOnes, Bytes

LEMMA WeightedType ==
  ASSUME NEW data \in Seq(Bytes), NEW i \in 1 .. Len(data)
  PROVE  Weighted(data, i) \in Nat
<1>1. data[i] \in Nat
  <2>1. data[i] \in Bytes
    OBVIOUS
  <2> QED
    BY <2>1, Numbers
<1>2. B * data[i] \in Nat
  BY <1>1, Numbers
<1> QED
  BY <1>1, <1>2 DEF Weighted

LEMMA SumsEquation ==
  ASSUME NEW data \in Seq(Bytes)
  PROVE  /\ Sums(data) \in [0 .. Len(data) -> Nat]
         /\ Sums(data)[0] = 0
         /\ \A n \in 1 .. Len(data) :
              Sums(data)[n] = Sums(data)[n - 1] + Weighted(data, n)
<1> DEFINE step == [n \in 1 .. Len(data) |-> [s \in Nat |-> s + Weighted(data, n)]]
           Equation(f) ==
             f = [n \in 0 .. Len(data) |->
                    IF n = 0 THEN 0 ELSE f[n - 1] + Weighted(data, n)]
           sum == Sums(data)
<1>1. step \in [1 .. Len(data) -> [Nat -> Nat]]
  BY WeightedType
<1>2. PICK f \in [0 .. Len(data) -> Nat] :
        f[0] = 0 /\ \A n \in 1 .. Len(data) : f[n] = step[n][f[n - 1]]
  <2> DEFINE len == Len(data)  S == Nat  z == 0
  <2>1. z \in S /\ len \in Nat /\ step \in [1 .. len -> [S -> S]]
    BY <1>1
  <2> HIDE DEF step, len, S, z
  <2>2. \E f \in [0 .. len -> S] :
          f[0] = z /\ \A n \in 1 .. len : f[n] = step[n][f[n - 1]]
    BY <2>1, Recursion
  <2> QED
    BY <2>2 DEF len, S, z
<1>3. \A n \in 1 .. Len(data) : f[n] = f[n - 1] + Weighted(data, n)
  BY <1>2
<1>4. Equation(f)
  BY <1>2, <1>3
<1>5. Equation(sum)
  BY <1>4 DEF Sums
<1> HIDE DEF sum
<1>6. /\ sum[0] = 0
      /\ \A n \in 1 .. Len(data) : sum[n] = sum[n - 1] + Weighted(data, n)
  BY <1>5
<1> DEFINE T == {n \in Nat : n <= Len(data) => sum[n] \in Nat}
<1>7. 0 \in T
  BY <1>6
<1>8. ASSUME NEW n \in Nat, n \in T PROVE n + 1 \in T
  <2> SUFFICES ASSUME n + 1 \in 1 .. Len(data) PROVE sum[n + 1] \in Nat
    OBVIOUS
  <2>1. sum[n] \in Nat /\ Weighted(data, n + 1) \in Nat
    BY <1>8, WeightedType
  <2>2. sum[n + 1] = sum[n] + Weighted(data, n + 1)
    BY <1>6
  <2> QED
    BY <2>1, <2>2
<1>9. \A n \in 0 .. Len(data) : sum[n] \in Nat
  <2>1. Nat \subseteq T
    <3> HIDE DEF T
    <3> QED
      BY <1>7, <1>8, Induction
  <2> QED
    BY <2>1
<1>10. sum \in [0 .. Len(data) -> Nat]
  <2> DEFINE g == [n \in 0 .. Len(data) |->
                     IF n = 0 THEN 0 ELSE sum[n - 1] + Weighted(data, n)]
  <2>1. sum = g /\ g = [n \in 0 .. Len(data) |-> g[n]]
    BY <1>5
  <2> HIDE DEF g
  <2> QED
    BY <1>9, <2>1
<1> QED
  BY <1>6, <1>10 DEF sum

\* The sums of a part of the data that begins at an even offset.
LEMMA SumsOfPart ==
  ASSUME NEW data \in Seq(Bytes), NEW part \in Seq(Bytes), NEW from \in Nat,
         from % 2 = 0, NEW len \in Nat,
         from + len <= Len(data), len <= Len(part),
         \A i \in 1 .. len : data[from + i] = part[i]
  PROVE  Sums(data)[from + len] = Sums(data)[from] + Sums(part)[len]
<1> DEFINE T == {n \in Nat : n <= len =>
                   Sums(data)[from + n] = Sums(data)[from] + Sums(part)[n]}
           d == Sums(data)  p == Sums(part)
<1>1. /\ d \in [0 .. Len(data) -> Nat]
      /\ \A n \in 1 .. Len(data) : d[n] = d[n - 1] + Weighted(data, n)
  BY SumsEquation
<1>2. /\ p \in [0 .. Len(part) -> Nat] /\ p[0] = 0
      /\ \A n \in 1 .. Len(part) : p[n] = p[n - 1] + Weighted(part, n)
  BY SumsEquation
<1>3. Len(data) \in Nat /\ Len(part) \in Nat /\ from \in 0 .. Len(data)
  OBVIOUS
<1> HIDE DEF d, p
<1>4. d[from] \in Nat
  BY <1>1, <1>3
<1>5. 0 \in T
  BY <1>2, <1>4 DEF d, p
<1>6. ASSUME NEW n \in Nat, n \in T PROVE n + 1 \in T
  <2> SUFFICES ASSUME n + 1 <= len PROVE d[from + (n + 1)] = d[from] + p[n + 1]
    BY DEF d, p
  <2>1. d[from + n] = d[from] + p[n]
    BY <1>6 DEF d, p
  <2>2. d[from + (n + 1)] = d[from + n] + Weighted(data, from + (n + 1))
    <3>1. from + (n + 1) \in 1 .. Len(data) /\ (from + (n + 1)) - 1 = from + n
      OBVIOUS
    <3> QED
      BY <1>1, <3>1
  <2>3. p[n + 1] = p[n] + Weighted(part, n + 1)
    <3>1. n + 1 \in 1 .. Len(part) /\ (n + 1) - 1 = n
      OBVIOUS
    <3> QED
      BY <1>2, <3>1
  <2>4. Weighted(data, from + (n + 1)) = Weighted(part, n + 1)
    <3>1. data[from + (n + 1)] = part[n + 1]
      OBVIOUS
    <3>2. (from + (n + 1)) % 2 = (n + 1) % 2
      <4> PICK half \in Nat : from = 2 * half
        OBVIOUS
      <4> QED
        OBVIOUS
    <3> QED
      BY <3>1, <3>2 DEF Weighted
  <2>5. p[n] \in Nat /\ Weighted(part, n + 1) \in Nat
    <3>1. n \in 0 .. Len(part) /\ n + 1 \in 1 .. Len(part)
      BY <1>3
    <3> QED
      BY <1>2, <3>1, WeightedType
  <2> QED
    BY <1>4, <2>1, <2>2, <2>3, <2>4, <2>5
<1>7. len \in T
  <2> HIDE DEF T
  <2> QED
    BY <1>5, <1>6, Induction
<1> QED
  BY <1>7

LEMMA SumType == ASSUME NEW data \in Seq(Bytes) PROVE Sum(data) \in Nat
<1>1. Len(data) \in 0 .. Len(data)
  OBVIOUS
<1> QED
  BY <1>1, SumsEquation DEF Sum

\* What follows an even number of bytes can be added for itself.
LEMMA SumOfConcat ==
  ASSUME NEW a \in Seq(Bytes), NEW b \in Seq(Bytes), Len(a) % 2 = 0
  PROVE  Sum(a \o b) = Sum(a) + Sum(b)
<1> DEFINE ab == a \o b
<1>1. /\ ab \in Seq(Bytes) /\ Len(ab) = Len(a) + Len(b)
      /\ \A i \in 1 .. Len(a) : ab[i] = a[i]
      /\ \A i \in 1 .. Len(b) : ab[Len(a) + i] = b[i]
  OBVIOUS
<1>2. Len(a) \in Nat /\ Len(b) \in Nat
  OBVIOUS
<1> DEFINE m == Len(a)  n == Len(b)
<1> HIDE DEF ab, m, n
<1>3. Sums(ab)[m] = Sums(a)[m]
  <2>1. Sums(ab)[0 + m] = Sums(ab)[0] + Sums(a)[m]
    <3>1. \A i \in 1 .. m : ab[0 + i] = a[i]
      BY <1>1 DEF m
    <3>2. /\ 0 + m <= Len(ab) /\ m <= Len(a)
          /\ m \in Nat /\ 0 % 2 = 0 /\ 0 \in Nat
      BY <1>1, <1>2 DEF m
    <3>3. ab \in Seq(Bytes)
      BY <1>1
    <3> QED
      BY <3>1, <3>2, <3>3, SumsOfPart
  <2>2. Sums(ab)[0] = 0 /\ Sums(a)[m] \in Nat
    BY <1>1, <1>2, SumsEquation DEF m
  <2> QED
    BY <1>2, <2>1, <2>2 DEF m
<1>4. Sums(ab)[m + n] = Sums(ab)[m] + Sums(b)[n]
  <2>1. /\ m + n <= Len(ab) /\ n <= Len(b) /\ m % 2 = 0
        /\ m \in Nat /\ n \in Nat /\ ab \in Seq(Bytes)
        /\ \A i \in 1 .. n : ab[m + i] = b[i]
    BY <1>1, <1>2 DEF m, n
  <2> QED
    BY <2>1, SumsOfPart
<1> QED
  BY <1>1, <1>3, <1>4 DEF Sum, ab, m, n

-----------------------------------------------------------------------------
(***************************************************************************)
(* Ones'-complement arithmetic is arithmetic modulo AllOnes, in which the  *)
(* multiples of AllOnes other than zero are all ones.                      *)
(***************************************************************************)
Multiples == {k * AllOnes : k \in Int}

IsAllOnes(sum) == sum # 0 /\ sum \in Multiples

\* `ones' stands for `sum' in a word.
Reduced(ones, sum) ==
  /\ ones \in 0 .. AllOnes
  /\ ones - sum \in Multiples
  /\ ones = 0 <=> sum = 0

LEMMA MultiplesClosed ==
  ASSUME NEW a \in Multiples, NEW b \in Multiples, NEW n \in Int
  PROVE  /\ 0 \in Multiples /\ AllOnes \in Multiples
         /\ a + b \in Multiples /\ a - b \in Multiples
         /\ n * a \in Multiples /\ a \in Int /\ n * AllOnes \in Multiples
<1>1. PICK k \in Int : a = k * AllOnes
  BY DEF Multiples
<1>2. PICK l \in Int : b = l * AllOnes
  BY DEF Multiples
<1>3. AllOnes \in Int
  BY Numbers
<1>4. a + b = (k + l) * AllOnes /\ a - b = (k - l) * AllOnes
  BY <1>1, <1>2, <1>3
<1>5. n * a = (n * k) * AllOnes /\ a \in Int
  BY <1>1, <1>3
<1>6. 0 = 0 * AllOnes /\ AllOnes = 1 * AllOnes
  BY <1>3
<1>7. k + l \in Int /\ k - l \in Int /\ n * k \in Int /\ 0 \in Int /\ 1 \in Int
  OBVIOUS
<1> HIDE DEF AllOnes
<1> QED
  BY <1>4, <1>5, <1>6, <1>7 DEF Multiples

\* A word that is a multiple of AllOnes is it, or zero.
LEMMA ReducedAllOnes ==
  ASSUME NEW sum \in Nat, NEW ones, Reduced(ones, sum)
  PROVE  ones = AllOnes <=> IsAllOnes(sum)
<1>1. AllOnes \in Nat /\ AllOnes > 0
  BY Numbers
<1>2. ones \in Int /\ 0 <= ones /\ ones <= AllOnes
  BY <1>1 DEF Reduced
<1>3. ones - sum \in Multiples
  BY DEF Reduced
<1>4. AllOnes \in Multiples
  BY <1>3, MultiplesClosed
<1>5. ASSUME ones = AllOnes PROVE IsAllOnes(sum)
  <2>1. AllOnes - (ones - sum) \in Multiples
    BY <1>3, <1>4, MultiplesClosed
  <2>2. AllOnes - (ones - sum) = sum
    BY <1>1, <1>5
  <2> QED
    BY <1>1, <1>5, <2>1, <2>2 DEF IsAllOnes, Reduced
<1>6. ASSUME IsAllOnes(sum) PROVE ones = AllOnes
  <2>1. (ones - sum) + sum \in Multiples
    <3> DEFINE gap == ones - sum
    <3>1. sum \in Multiples /\ gap \in Multiples
      BY <1>3, <1>6 DEF IsAllOnes
    <3> HIDE DEF gap
    <3>2. gap + sum \in Multiples
      BY <3>1, MultiplesClosed
    <3> QED
      BY <3>2 DEF gap
  <2>2. ones \in Multiples /\ ones # 0
    BY <1>2, <1>6, <2>1 DEF IsAllOnes, Reduced
  <2>3. PICK k \in Int : ones = k * AllOnes
    BY <2>2 DEF Multiples
  <2>4. k = 1
    <3>1. k <= 0 => ones <= 0
      BY <1>1, <2>3
    <3>2. k >= 2 => ones >= 2 * AllOnes
      BY <1>1, <2>3
    <3> QED
      BY <1>1, <1>2, <2>2, <3>1, <3>2
  <2> QED
    BY <1>1, <2>3, <2>4
<1> QED
  BY <1>5, <1>6

LEMMA CarryAndLow ==
  ASSUME NEW sum \in Nat
  PROVE  /\ Carry(sum) \in Nat /\ Low(sum) \in 0 .. AllOnes
         /\ sum = B * B * Carry(sum) + Low(sum)
         /\ Carry(sum) = 0 <=> sum <= AllOnes
<1>1. /\ \A w \in Nat : w > 0 => /\ sum \div w \in Nat /\ sum % w \in 0 .. w - 1
                                 /\ sum = w * (sum \div w) + (sum % w)
                                 /\ sum \div w = 0 <=> sum < w
  OBVIOUS
<1>2. B * B \in Nat /\ B * B > 0
  BY Numbers
<1>3. AllOnes = B * B - 1
  BY DEF AllOnes
<1> DEFINE w == B * B
<1> HIDE DEF w
<1>4. /\ sum \div w \in Nat /\ sum % w \in 0 .. w - 1
      /\ sum = w * (sum \div w) + (sum % w)
      /\ sum \div w = 0 <=> sum < w
  BY <1>1, <1>2 DEF w
<1>5. w \in Nat /\ AllOnes = w - 1
  BY <1>2, <1>3 DEF w
<1>6. Carry(sum) = sum \div w /\ Low(sum) = sum % w
  BY DEF Carry, Low, w
<1>7. sum \div w = 0 <=> sum <= AllOnes
  BY <1>4, <1>5
<1> QED
  BY <1>4, <1>5, <1>6, <1>7 DEF w

\* The recursion ends: one plus a remainder is a solution of it.
LEMMA AddCarriesEquation ==
  \A sum \in Nat :
    AddCarries[sum] =
      IF Carry(sum) = 0 THEN sum ELSE AddCarries[Carry(sum) + Low(sum)]
<1> DEFINE Equation(f) ==
             f = [sum \in Nat |->
                    IF Carry(sum) = 0 THEN sum ELSE f[Carry(sum) + Low(sum)]]
           f == [sum \in Nat |->
                   IF sum = 0 THEN 0 ELSE 1 + ((sum - 1) % AllOnes)]
<1>1. ASSUME NEW sum \in Nat
      PROVE  f[sum] = IF Carry(sum) = 0 THEN sum ELSE f[Carry(sum) + Low(sum)]
  <2> DEFINE c == Carry(sum)  l == Low(sum)  m == AllOnes
  <2>1. /\ c \in Nat /\ l \in 0 .. m
        /\ sum = (m + 1) * c + l
        /\ c = 0 <=> sum <= m
        /\ m \in Nat /\ m > 0
    <3>1. B * B = m + 1 /\ m > 0
      BY Numbers
    <3> QED
      BY <3>1, Numbers, CarryAndLow
  <2>2. f[sum] = IF sum = 0 THEN 0 ELSE 1 + ((sum - 1) % m)
    OBVIOUS
  <2>3. f[c + l] = IF c + l = 0 THEN 0 ELSE 1 + ((c + l - 1) % m)
    <3>1. \A n \in Nat : f[n] = IF n = 0 THEN 0 ELSE 1 + ((n - 1) % m)
      OBVIOUS
    <3>2. c + l \in Nat /\ c \in Int /\ l \in Int
      BY <2>1
    <3> HIDE DEF c, l, f, m
    <3> QED
      BY <3>1, <3>2
  <2> HIDE DEF f, c, l, m
  <2>4. CASE c = 0
    <3>1. sum # 0 => (sum - 1) % m = sum - 1
      BY <2>1, <2>4
    <3> QED
      BY <2>2, <2>4, <3>1 DEF c
  <2>5. CASE c # 0
    <3>1. c + l - 1 \in Nat /\ sum - 1 = m * c + (c + l - 1) /\ sum # 0 /\ c + l # 0
      BY <2>1, <2>5
    <3>2. ASSUME NEW n \in Nat PROVE (m * c + n) % m = n % m
      <4>1. PICK q \in Nat, rest \in 0 .. m - 1 : n = m * q + rest
        <5>1. /\ n \div m \in Nat /\ n % m \in 0 .. m - 1
              /\ n = m * (n \div m) + (n % m)
          BY <2>1
        <5> QED
          BY <5>1
      <4>2. m * c + n = m * (c + q) + rest /\ c + q \in Nat
        BY <2>1, <4>1
      <4>3. \A k \in Nat : (m * k + rest) % m = rest
        BY <2>1
      <4> QED
        BY <4>1, <4>2, <4>3
    <3>3. (sum - 1) % m = (c + l - 1) % m
      BY <3>1, <3>2
    <3> QED
      BY <2>2, <2>3, <2>5, <3>1, <3>3 DEF c, l
  <2> QED
    BY <2>4, <2>5
<1>2. Equation(f)
  <2> DEFINE g == [sum \in Nat |->
                     IF Carry(sum) = 0 THEN sum ELSE f[Carry(sum) + Low(sum)]]
  <2>1. f = [sum \in Nat |-> f[sum]]
    OBVIOUS
  <2> HIDE DEF f
  <2> QED
    BY <1>1, <2>1
<1>3. Equation(AddCarries)
  <2> HIDE DEF f
  <2> QED
    BY <1>2 DEF AddCarries
<1> QED
  BY <1>3

\* The carries that are added change a sum by a multiple of AllOnes only.
LEMMA AddCarriesReduces ==
  ASSUME NEW sum \in Nat
  PROVE  Reduced(AddCarries[sum], sum)
<1> DEFINE T == {n \in Nat : ~Reduced(AddCarries[n], n)}
<1> SUFFICES ASSUME T # {} PROVE FALSE
  OBVIOUS
<1>1. PICK n \in T : \A m \in T : n <= m
  BY LeastElement
<1> DEFINE c == Carry(n)  l == Low(n)
<1>2. /\ n \in Nat /\ ~Reduced(AddCarries[n], n)
      /\ \A m \in Nat : m < n => Reduced(AddCarries[m], m)
  BY <1>1
<1>3. /\ c \in Nat /\ l \in 0 .. AllOnes
      /\ n = (AllOnes + 1) * c + l
      /\ c = 0 <=> n <= AllOnes
      /\ AllOnes \in Nat /\ AllOnes > 0
  <2>1. B * B = AllOnes + 1 /\ AllOnes > 0
    BY Numbers
  <2> QED
    BY <1>2, <2>1, Numbers, CarryAndLow
<1>4. AddCarries[n] = IF c = 0 THEN n ELSE AddCarries[c + l]
  BY <1>2, AddCarriesEquation
<1> HIDE DEF T, c, l, AllOnes
<1>5. CASE c = 0
  <2>1. AddCarries[n] = n /\ n \in 0 .. AllOnes /\ n - n = 0
    BY <1>2, <1>3, <1>4, <1>5
  <2>2. 0 \in Multiples
    <3>1. 0 = 0 * AllOnes
      BY <1>3
    <3> QED
      BY <3>1 DEF Multiples
  <2> QED
    BY <1>2, <2>1, <2>2 DEF Reduced
<1>6. CASE c # 0
  <2>1. c + l \in Nat /\ c + l < n /\ c + l # 0 /\ n # 0
    BY <1>3, <1>6
  <2>2. Reduced(AddCarries[c + l], c + l)
    BY <1>2, <2>1
  <2>3. AddCarries[n] = AddCarries[c + l]
    BY <1>4, <1>6
  <2> DEFINE a == AddCarries[n]
  <2>4. a \in 0 .. AllOnes /\ a - (c + l) \in Multiples /\ a # 0
    BY <2>1, <2>2, <2>3 DEF Reduced
  <2>5. a - n = (a - (c + l)) - c * AllOnes
    BY <1>3, <2>4
  <2>6. c * AllOnes \in Multiples
    BY <1>3 DEF Multiples
  <2>7. a - n \in Multiples
    BY <2>4, <2>5, <2>6, MultiplesClosed
  <2> QED
    BY <1>2, <2>1, <2>4, <2>7 DEF Reduced
<1> QED
  BY <1>5, <1>6

LEMMA ChecksumReduces ==
  ASSUME NEW data \in Seq(Bytes)
  PROVE  Reduced(Checksum(data), Sum(data))
BY SumType, AddCarriesReduces DEF Checksum

-----------------------------------------------------------------------------
(***************************************************************************)
(* The reference.  Its words are those of the machine, multiplied by B.    *)
(***************************************************************************)

LEMMA WordType ==
  ASSUME NEW data \in Seq(Bytes), NEW i \in 1 .. Len(data) \div 2
  PROVE  /\ NetworkWord(data, i) \in 0 .. AllOnes
         /\ Len(data) \div 2 \in Nat
         /\ 2 * i - 1 \in 1 .. Len(data) /\ 2 * i \in 1 .. Len(data)
         /\ data[2 * i - 1] \in Bytes /\ data[2 * i] \in Bytes
<1>1. Len(data) \div 2 \in Nat /\ 2 * i \in 1 .. Len(data) /\ 2 * i - 1 \in 1 .. Len(data)
  OBVIOUS
<1>2. data[2 * i - 1] \in Bytes /\ data[2 * i] \in Bytes
  BY <1>1
<1> DEFINE x == data[2 * i - 1]  y == data[2 * i]
<1>3. x * B + y \in 0 .. AllOnes
  <2>1. x \in 0 .. B - 1 /\ y \in 0 .. B - 1
    BY <1>2 DEF Bytes
  <2> HIDE DEF x, y
  <2>2. x * B \in Nat /\ x * B <= (B - 1) * B
    BY <2>1, Numbers
  <2>3. (B - 1) * B = B * B - B
    BY Numbers
  <2> QED
    BY <2>1, <2>2, <2>3, Numbers
<1> QED
  BY <1>1, <1>2, <1>3 DEF NetworkWord

LEMMA OnesPlusType ==
  ASSUME NEW a \in 0 .. AllOnes, NEW b \in 0 .. AllOnes
  PROVE  /\ OnesPlus(a, b) \in 0 .. AllOnes
         /\ OnesPlus(a, b) \in {a + b, a + b - AllOnes}
         /\ OnesPlus(a, b) = 0 <=> a + b = 0
<1>1. B * B = AllOnes + 1 /\ AllOnes \in Nat /\ AllOnes > 0
  BY Numbers
<1> HIDE DEF AllOnes
<1>2. OnesPlus(a, b) =
        IF a + b >= AllOnes + 1 THEN a + b - (AllOnes + 1) + 1 ELSE a + b
  BY <1>1 DEF OnesPlus
<1> QED
  BY <1>1, <1>2

LEMMA OnesSumsEquation ==
  ASSUME NEW data \in Seq(Bytes)
  PROVE  /\ OnesSums(data)[0] = 0
         /\ \A n \in 1 .. Len(data) \div 2 :
              OnesSums(data)[n] =
                OnesPlus(OnesSums(data)[n - 1], NetworkWord(data, n))
<1> DEFINE len == Len(data) \div 2  S == 0 .. AllOnes  z == 0
           step == [n \in 1 .. len |->
                      [s \in S |-> OnesPlus(s, NetworkWord(data, n))]]
           Equation(f) ==
             f = [n \in 0 .. len |->
                    IF n = 0 THEN 0 ELSE OnesPlus(f[n - 1], NetworkWord(data, n))]
<1>1. len \in Nat /\ z \in S /\ step \in [1 .. len -> [S -> S]]
  <2>1. len \in Nat /\ z \in S
    BY Numbers
  <2>2. ASSUME NEW n \in 1 .. len, NEW s \in S
        PROVE  OnesPlus(s, NetworkWord(data, n)) \in S
    BY WordType, OnesPlusType
  <2> HIDE DEF S, len
  <2> QED
    BY <2>1, <2>2
<1>2. PICK f \in [0 .. len -> S] :
        f[0] = z /\ \A n \in 1 .. len : f[n] = step[n][f[n - 1]]
  <2> HIDE DEF len, S, z, step
  <2> QED
    BY <1>1, Recursion
<1>3. Equation(f)
  <2>1. \A n \in 1 .. len : f[n] = OnesPlus(f[n - 1], NetworkWord(data, n))
    <3>1. \A n \in 1 .. len : n - 1 \in 0 .. len /\ f[n - 1] \in S
      BY <1>1
    <3> HIDE DEF len, S
    <3> QED
      BY <1>2, <3>1
  <2> HIDE DEF len, S
  <2> QED
    BY <1>2, <2>1 DEF z
<1>4. Equation(OnesSums(data))
  <2> USE DEF OnesSums
  <2> QED
    BY <1>3
<1> QED
  BY <1>1, <1>4

LEMMA WordsReduce ==
  ASSUME NEW data \in Seq(Bytes), Len(data) % 2 = 0, NEW n \in 0 .. Len(data) \div 2
  PROVE  Reduced(OnesSums(data)[n], B * Sums(data)[2 * n])
<1> DEFINE len == Len(data) \div 2  o == OnesSums(data)  s == Sums(data)
           T == {m \in Nat : m <= len => Reduced(o[m], B * s[2 * m])}
<1>1. /\ s \in [0 .. Len(data) -> Nat] /\ s[0] = 0
      /\ \A i \in 1 .. Len(data) : s[i] = s[i - 1] + Weighted(data, i)
  BY SumsEquation
<1>2. /\ o[0] = 0
      /\ \A m \in 1 .. len : o[m] = OnesPlus(o[m - 1], NetworkWord(data, m))
  BY OnesSumsEquation
<1>3. len \in Nat /\ Len(data) \in Nat /\ Len(data) = 2 * len
  OBVIOUS
<1> HIDE DEF o, s, len
<1>4. 0 \in T
  <2>1. 0 \in 0 .. AllOnes /\ B * 0 = 0 /\ 0 - 0 = 0
    BY Numbers
  <2>2. 0 \in Multiples
    <3>1. 0 = 0 * AllOnes
      BY Numbers
    <3> QED
      BY <3>1 DEF Multiples
  <2>3. Reduced(0, 0)
    BY <2>1, <2>2 DEF Reduced
  <2> QED
    BY <1>1, <1>2, <2>1, <2>3
<1>5. ASSUME NEW m \in Nat, m \in T PROVE m + 1 \in T
  <2> SUFFICES ASSUME m + 1 <= len PROVE Reduced(o[m + 1], B * s[2 * (m + 1)])
    OBVIOUS
  <2> DEFINE x == data[2 * (m + 1) - 1]  y == data[2 * (m + 1)]
             word == NetworkWord(data, m + 1)
             before == s[2 * m]  after == s[2 * (m + 1)]
  <2>1. m + 1 \in 1 .. len /\ m + 1 \in 1 .. Len(data) \div 2 /\ (m + 1) - 1 = m
    BY <1>3 DEF len
  <2>2. word \in 0 .. AllOnes /\ x \in Nat /\ y \in Nat /\ word = x * B + y
    <3>1. word \in 0 .. AllOnes /\ x \in Bytes /\ y \in Bytes
      BY <2>1, WordType
    <3> QED
      BY <3>1, Numbers DEF NetworkWord
  <2>3. after = before + x + B * y /\ before \in Nat
    <3>1. /\ 2 * m \in 0 .. Len(data)
          /\ 2 * (m + 1) - 1 \in 1 .. Len(data) /\ 2 * (m + 1) \in 1 .. Len(data)
          /\ (2 * (m + 1) - 1) - 1 = 2 * m
          /\ (2 * (m + 1) - 1) % 2 = 1 /\ (2 * (m + 1)) % 2 = 0
      BY <1>3, <2>1
    <3>2. s[2 * (m + 1) - 1] = before + x
      BY <1>1, <3>1 DEF Weighted
    <3>3. after = s[2 * (m + 1) - 1] + B * y
      BY <1>1, <3>1 DEF Weighted
    <3> QED
      BY <1>1, <3>1, <3>2, <3>3
  <2>4. Reduced(o[m], B * before)
    BY <1>5, <1>3, <2>1
  <2>5. o[m + 1] = OnesPlus(o[m], word)
    BY <1>2, <2>1
  <2> DEFINE a == o[m]  b == o[m + 1]
  <2>6. a \in 0 .. AllOnes /\ a - B * before \in Multiples /\ (a = 0 <=> B * before = 0)
    BY <2>4 DEF Reduced
  <2>7. /\ b \in 0 .. AllOnes /\ b \in {a + word, a + word - AllOnes}
        /\ b = 0 <=> a + word = 0
    BY <2>2, <2>5, <2>6, OnesPlusType
  <2> HIDE DEF word, x, y, before, after, a, b, T
  <2>8. B * after = B * before + word + y * AllOnes
    BY <2>2, <2>3, Numbers
  <2>9. b - B * after \in Multiples
    <3> DEFINE gap == a - B * before  more == y * AllOnes
    <3>1. /\ gap \in Multiples /\ more \in Multiples /\ AllOnes \in Multiples
          /\ gap \in Int /\ more \in Int
      <4>1. gap \in Multiples /\ y \in Int
        BY <2>2, <2>6
      <4> HIDE DEF gap
      <4>2. more \in Multiples /\ AllOnes \in Multiples /\ gap \in Int
        BY <4>1, MultiplesClosed
      <4>3. more \in Int
        BY <2>2, Numbers
      <4> QED
        BY <4>1, <4>2, <4>3
    <3>2. b - B * after \in {gap - more, gap - more - AllOnes}
      BY <2>2, <2>3, <2>6, <2>7, <2>8, Numbers
    <3> HIDE DEF gap, more
    <3>3. gap - more \in Multiples
      BY <3>1, MultiplesClosed
    <3>4. gap - more - AllOnes \in Multiples
      BY <3>1, <3>3, MultiplesClosed
    <3> QED
      BY <3>2, <3>3, <3>4
  <2>10. b = 0 <=> B * after = 0
    <3>1. B * before \in Nat /\ y * AllOnes \in Nat /\ (y * AllOnes = 0 <=> y = 0)
      BY <2>2, <2>3, Numbers
    <3>2. word = 0 => y = 0
      <4>1. x * B \in Nat
        BY <2>2, Numbers
      <4> QED
        BY <2>2, <4>1
    <3>3. B * after = 0 <=> B * before = 0 /\ word = 0
      BY <2>2, <2>8, <3>1, <3>2
    <3>4. a + word = 0 <=> a = 0 /\ word = 0
      BY <2>2, <2>6, Numbers
    <3> QED
      BY <2>6, <2>7, <3>3, <3>4
  <2> QED
    BY <2>7, <2>9, <2>10 DEF Reduced, a, b, after
<1>6. n \in T
  <2>1. n \in Nat
    OBVIOUS
  <2> HIDE DEF T
  <2> QED
    BY <1>4, <1>5, <2>1, Induction
<1> QED
  BY <1>6 DEF len, o, s

\* B * B is one more than a multiple of AllOnes.
LEMMA BytesSwapped ==
  ASSUME NEW sum \in Nat
  PROVE  B * sum \in Nat /\ (IsAllOnes(B * sum) <=> IsAllOnes(sum))
<1>1. B * sum \in Nat /\ (B * sum = 0 <=> sum = 0)
  BY Numbers
<1>2. sum \in Multiples => B * sum \in Multiples
  BY Numbers, MultiplesClosed
<1>3. ASSUME B * sum \in Multiples PROVE sum \in Multiples
  <2> DEFINE twice == B * (B * sum)  more == sum * AllOnes
  <2>1. twice \in Multiples /\ more \in Multiples
    <3>1. B \in Int /\ sum \in Int
      BY Numbers
    <3> QED
      BY <1>3, <3>1, MultiplesClosed
  <2>2. twice - more = sum
    BY Numbers
  <2> HIDE DEF twice, more
  <2>3. twice - more \in Multiples
    BY <2>1, MultiplesClosed
  <2> QED
    BY <2>2, <2>3
<1> QED
  BY <1>1, <1>2, <1>3 DEF IsAllOnes

LEMMA PaddedSum ==
  ASSUME NEW data \in Seq(Bytes)
  PROVE  /\ Padded(data) \in Seq(Bytes) /\ Len(Padded(data)) % 2 = 0
         /\ Sum(Padded(data)) = Sum(data)
<1>1. CASE Len(data) % 2 = 0
  BY <1>1 DEF Padded
<1>2. CASE Len(data) % 2 # 0
  <2> DEFINE padded == Append(data, 0)
  <2>1. 0 \in Bytes
    BY Numbers DEF Bytes
  <2>2. /\ padded \in Seq(Bytes) /\ Len(padded) = Len(data) + 1
        /\ \A i \in 1 .. Len(data) : padded[i] = data[i]
        /\ padded[Len(data) + 1] = 0
    BY <2>1
  <2>3. Padded(data) = padded
    BY <1>2 DEF Padded
  <2> DEFINE len == Len(data)
  <2>4. len \in Nat /\ len % 2 # 0 /\ (len + 1) % 2 = 0
    BY <1>2
  <2> HIDE DEF padded, len
  <2>5. Sums(padded)[0 + len] = Sums(padded)[0] + Sums(data)[len]
    <3>1. /\ 0 + len <= Len(padded) /\ len <= Len(data) /\ 0 \in Nat /\ 0 % 2 = 0
          /\ \A i \in 1 .. len : padded[0 + i] = data[i]
      BY <2>2, <2>4 DEF len
    <3> QED
      BY <2>2, <2>4, <3>1, SumsOfPart
  <2>6. /\ Sums(padded)[0] = 0
        /\ Sums(padded)[len + 1] = Sums(padded)[len] + Weighted(padded, len + 1)
    <3>1. len + 1 \in 1 .. Len(padded) /\ (len + 1) - 1 = len
      BY <2>2, <2>4 DEF len
    <3> QED
      BY <2>2, <3>1, SumsEquation
  <2>7. Weighted(padded, len + 1) = 0
    BY <2>2, <2>4, Numbers DEF Weighted, len
  <2>8. Sums(data)[len] \in Nat
    BY <2>4, SumsEquation DEF len
  <2> QED
    BY <2>2, <2>3, <2>4, <2>5, <2>6, <2>7, <2>8 DEF Sum, len
<1> QED
  BY <1>1, <1>2

\* The reference finds valid what the sum of the machine's words does.
LEMMA OnesSumAllOnes ==
  ASSUME NEW data \in Seq(Bytes)
  PROVE  OnesSum(data) = AllOnes <=> IsAllOnes(Sum(data))
<1> DEFINE d == Padded(data)  half == Len(d) \div 2
<1>1. d \in Seq(Bytes) /\ Len(d) % 2 = 0 /\ Sum(d) = Sum(data)
  BY PaddedSum
<1> HIDE DEF d
<1>2. half \in 0 .. half /\ 2 * half = Len(d) /\ half \in 0 .. Len(d) \div 2
  BY <1>1
<1>3. Reduced(OnesSums(d)[half], B * Sums(d)[2 * half])
  <2> HIDE DEF half
  <2> QED
    BY <1>1, <1>2, WordsReduce
<1>4. Reduced(OnesSum(data), B * Sum(data))
  BY <1>1, <1>2, <1>3 DEF OnesSum, Sum, d
<1>5. Sum(data) \in Nat
  BY SumType
<1> QED
  BY <1>4, <1>5, BytesSwapped, ReducedAllOnes

-----------------------------------------------------------------------------
(***************************************************************************)
(* Packets: their headers, the check of a received one, and what is sent.  *)
(***************************************************************************)

LEMMA WordInMemory ==
  ASSUME NEW n \in 0 .. AllOnes
  PROVE  /\ Word(n) \in Seq(Bytes) /\ Htons(n) \in Bytes \X Bytes
         /\ Htons(n) \in Seq(Bytes)
         /\ Len(Word(n)) = 2 /\ Len(Htons(n)) = 2 /\ Sum(Word(n)) = n
<1> DEFINE high == n \div B  low == n % B
<1>1. high \in Bytes /\ low \in Bytes /\ n = low + B * high
  <2>1. B \in Nat /\ B > 1 /\ n \in Nat /\ n < B * B
    BY Numbers
  <2>2. high \in Nat /\ low \in 0 .. B - 1 /\ n = low + B * high
    BY <2>1
  <2> HIDE DEF high, low
  <2>3. high < B
    <3>1. high >= B => B * high >= B * B
      BY <2>1, <2>2
    <3>2. B * high \in Nat /\ B * B \in Nat
      BY <2>1, <2>2
    <3> QED
      BY <2>1, <2>2, <3>1, <3>2
  <2> QED
    BY <2>1, <2>2, <2>3 DEF Bytes
<1> DEFINE word == <<low, high>>
<1>2. Word(n) = word /\ Htons(n) = <<high, low>>
  BY DEF Word, Htons
<1> HIDE DEF high, low
<1>3. word \in Seq(Bytes) /\ Len(word) = 2 /\ word[1] = low /\ word[2] = high
  BY <1>1
<1>4. /\ <<high, low>> \in Seq(Bytes) /\ Len(<<high, low>>) = 2
      /\ <<high, low>> \in Bytes \X Bytes
  BY <1>1
<1>5. Sum(word) = n
  <2> HIDE DEF word
  <2>1. /\ Sums(word)[0] = 0
        /\ Sums(word)[1] = Sums(word)[0] + Weighted(word, 1)
        /\ Sums(word)[2] = Sums(word)[1] + Weighted(word, 2)
    <3>1. 1 \in 1 .. Len(word) /\ 2 \in 1 .. Len(word) /\ 1 - 1 = 0 /\ 2 - 1 = 1
      BY <1>3
    <3> QED
      BY <1>3, <3>1, SumsEquation
  <2>2. Weighted(word, 1) = low /\ Weighted(word, 2) = B * high
    BY <1>3 DEF Weighted
  <2>3. low \in Nat /\ B * high \in Nat
    BY <1>1, Numbers
  <2> QED
    BY <1>1, <1>3, <2>1, <2>2, <2>3 DEF Sum
<1> QED
  BY <1>2, <1>3, <1>4, <1>5

LEMMA AddressIsBytes ==
  ASSUME NEW a \in Addresses
  PROVE  a \in Seq(Bytes) /\ Len(a) = SizeofAddress /\ Len(a) % 2 = 0
<1>1. SizeofAddress \in Nat /\ SizeofAddress % 2 = 0
  BY AddressAssumption
<1> QED
  BY <1>1 DEF Addresses

\* Data that is whole words.
Even(data) == data \in Seq(Bytes) /\ Len(data) % 2 = 0

LEMMA EvenConcat ==
  ASSUME NEW a, NEW b \in Seq(Bytes), Even(a)
  PROVE  /\ a \o b \in Seq(Bytes)
         /\ Len(a \o b) = Len(a) + Len(b)
         /\ Sum(a \o b) = Sum(a) + Sum(b)
         /\ Even(b) => Even(a \o b)
         /\ Len(a) > 0 => (a \o b)[1] = a[1]
<1>1. a \in Seq(Bytes)
  BY DEF Even
<1>2. a \o b \in Seq(Bytes) /\ Len(a \o b) = Len(a) + Len(b)
  BY <1>1
<1>3. Sum(a \o b) = Sum(a) + Sum(b)
  BY <1>1, SumOfConcat DEF Even
<1>4. ASSUME Even(b) PROVE Even(a \o b)
  <2>1. Len(a) \in Nat /\ Len(b) \in Nat /\ Len(a) % 2 = 0 /\ Len(b) % 2 = 0
    BY <1>1, <1>4 DEF Even
  <2> QED
    BY <1>2, <2>1 DEF Even
<1>5. Len(a) > 0 => (a \o b)[1] = a[1]
  BY <1>1
<1> QED
  BY <1>2, <1>3, <1>4, <1>5

LEMMA HeaderIsBytes ==
  ASSUME NEW src \in Addresses, NEW dst \in Addresses, NEW len \in 0 .. AllOnes
  PROVE  /\ Even(PseudoHeader(src, dst, len))
         /\ Even(ProtocolHeader(src, dst, len))
         /\ Sum(ProtocolHeader(src, dst, len)) = Sum(PseudoHeader(src, dst, len))
<1> DEFINE h == Htons(len)  zeros == <<0, 0>>  next == <<0, 0, 0, Icmp6>>
<1>1. Even(src) /\ Even(dst)
  BY AddressIsBytes DEF Even
<1>2. Even(h)
  <2>1. Htons(len) \in Seq(Bytes) /\ Len(Htons(len)) = 2
    BY WordInMemory
  <2> QED
    BY <2>1 DEF Even
<1>3. Even(zeros) /\ Even(next)
  <2>1. 0 \in Bytes /\ Icmp6 \in Bytes
    BY BytesAssumption DEF Bytes
  <2> QED
    BY <2>1 DEF Even
<1>4. /\ PseudoHeader(src, dst, len) = src \o dst \o h \o zeros \o next
      /\ ProtocolHeader(src, dst, len) = src \o dst \o zeros \o h \o next
  BY DEF PseudoHeader, ProtocolHeader
<1> HIDE DEF h, zeros, next
<1>5. dst \in Seq(Bytes) /\ h \in Seq(Bytes) /\ zeros \in Seq(Bytes)
      /\ next \in Seq(Bytes)
  BY <1>1, <1>2, <1>3 DEF Even
<1>6. Even(src \o dst) /\ Sum(src \o dst) \in Nat
      /\ Sum(h) \in Nat /\ Sum(zeros) \in Nat /\ Sum(next) \in Nat
  <2>1. Even(src \o dst)
    BY <1>1, <1>5, EvenConcat
  <2> QED
    BY <1>5, <2>1, SumType DEF Even
<1> DEFINE both == src \o dst
           code == both \o h  protocol == both \o zeros
           codes == code \o zeros  protocols == protocol \o h
<1> HIDE DEF both
<1>7. /\ Even(code) /\ Sum(code) = Sum(both) + Sum(h)
      /\ Even(protocol) /\ Sum(protocol) = Sum(both) + Sum(zeros)
  BY <1>2, <1>3, <1>5, <1>6, EvenConcat DEF both
<1> HIDE DEF code, protocol
<1>8. /\ Even(codes) /\ Sum(codes) = Sum(code) + Sum(zeros)
      /\ Even(protocols) /\ Sum(protocols) = Sum(protocol) + Sum(h)
  BY <1>2, <1>3, <1>5, <1>7, EvenConcat
<1> HIDE DEF codes, protocols
<1>9. Sum(codes) = Sum(protocols)
  BY <1>6, <1>7, <1>8 DEF both
<1>10. /\ Even(codes \o next) /\ Sum(codes \o next) = Sum(codes) + Sum(next)
       /\ Even(protocols \o next) /\ Sum(protocols \o next) = Sum(protocols) + Sum(next)
  BY <1>3, <1>5, <1>8, EvenConcat
<1>11. /\ PseudoHeader(src, dst, len) = codes \o next
       /\ ProtocolHeader(src, dst, len) = protocols \o next
  BY <1>4 DEF both, code, protocol, codes, protocols
<1> QED
  BY <1>9, <1>10, <1>11

\* Adding the sums of header and message is adding that of both.
LEMMA ValidMeansAllOnes ==
  ASSUME NEW p, IsPacket(p)
  PROVE  /\ PseudoHeader(p.src, p.dst, Len(p.icmp6)) \in Seq(Bytes)
         /\ Len(p.icmp6) \in 0 .. AllOnes
         /\ Valid(p) <=>
              IsAllOnes(Sum(PseudoHeader(p.src, p.dst, Len(p.icmp6))) + Sum(p.icmp6))
<1> DEFINE header == PseudoHeader(p.src, p.dst, Len(p.icmp6))  message == p.icmp6
           protocol == ProtocolHeader(p.src, p.dst, Len(p.icmp6))
<1>1. /\ p.src \in Addresses /\ p.dst \in Addresses
      /\ message \in Seq(Bytes) /\ Len(message) < B * B
  BY DEF IsPacket
<1>2. Len(message) \in 0 .. AllOnes
  <2>1. Len(message) \in Nat
    BY <1>1
  <2> QED
    BY <1>1, <2>1, Numbers
<1>3. /\ header \in Seq(Bytes) /\ Sum(protocol) = Sum(header)
      /\ protocol \in Seq(Bytes) /\ Len(protocol) % 2 = 0
  BY <1>1, <1>2, HeaderIsBytes DEF Even
<1>4. Valid(p) <=> OnesSum(protocol \o message) = AllOnes
  BY DEF Valid
<1> HIDE DEF header, protocol, message
<1>5. protocol \o message \in Seq(Bytes)
  BY <1>1, <1>3
<1>6. Sum(protocol \o message) = Sum(header) + Sum(message)
  BY <1>1, <1>3, SumOfConcat
<1>7. Valid(p) <=> IsAllOnes(Sum(header) + Sum(message))
  BY <1>4, <1>5, <1>6, OnesSumAllOnes
<1> QED
  BY <1>2, <1>3, <1>7 DEF header, message

LEMMA ChecksumRightIsValid ==
  ASSUME NEW p, IsPacket(p)
  PROVE  ChecksumRight(p) <=> Valid(p)
<1> DEFINE header == PseudoHeader(p.src, p.dst, Len(p.icmp6))  message == p.icmp6
           h == Checksum(header)  m == Checksum(message)
           words == Word(h) \o Word(m)
           s == Sum(header)  t == Sum(message)
<1>1. header \in Seq(Bytes) /\ message \in Seq(Bytes)
  BY ValidMeansAllOnes DEF IsPacket
<1>2. Reduced(h, s) /\ Reduced(m, t) /\ s \in Nat /\ t \in Nat
  BY <1>1, ChecksumReduces, SumType
<1>3. ChecksumRight(p) <=> AllOnes = Checksum(words)
  BY DEF ChecksumRight
<1>4. Valid(p) <=> IsAllOnes(s + t)
  BY ValidMeansAllOnes
<1> HIDE DEF header, message, h, m, s, t
<1>5. h \in 0 .. AllOnes /\ m \in 0 .. AllOnes
  BY <1>2 DEF Reduced
<1>6. /\ Word(h) \in Seq(Bytes) /\ Len(Word(h)) % 2 = 0 /\ Sum(Word(h)) = h
      /\ Word(m) \in Seq(Bytes) /\ Sum(Word(m)) = m
  <2>1. Len(Word(h)) = 2 /\ Word(h) \in Seq(Bytes) /\ Sum(Word(h)) = h
    BY <1>5, WordInMemory
  <2>2. Word(m) \in Seq(Bytes) /\ Sum(Word(m)) = m
    BY <1>5, WordInMemory
  <2> QED
    BY <2>1, <2>2
<1>7. words \in Seq(Bytes) /\ Sum(words) = h + m
  BY <1>6, SumOfConcat
<1> HIDE DEF words
<1>8. h \in Nat /\ m \in Nat
  BY <1>5, Numbers
<1>9. Checksum(words) = AllOnes <=> IsAllOnes(h + m)
  <2>1. Reduced(Checksum(words), h + m)
    BY <1>7, ChecksumReduces
  <2> QED
    BY <1>8, <2>1, ReducedAllOnes
<1>10. h + m \in Multiples <=> s + t \in Multiples
  <2> DEFINE a == h - s  b == m - t
  <2>1. a \in Multiples /\ b \in Multiples /\ a + b \in Multiples
    BY <1>2, MultiplesClosed DEF Reduced
  <2> DEFINE gap == a + b  x == h + m  y == s + t
  <2>2. x = gap + y /\ y = x - gap
    BY <1>2, <1>8
  <2>3. gap \in Multiples
    BY <2>1
  <2> HIDE DEF a, b, gap, x, y
  <2>4. x \in Multiples => x - gap \in Multiples
    BY <2>3, MultiplesClosed
  <2>5. y \in Multiples => gap + y \in Multiples
    BY <2>3, MultiplesClosed
  <2> QED
    BY <2>2, <2>4, <2>5 DEF x, y
<1>11. h + m = 0 <=> s + t = 0
  BY <1>2, <1>8 DEF Reduced
<1> QED
  BY <1>3, <1>4, <1>9, <1>10, <1>11 DEF IsAllOnes

-----------------------------------------------------------------------------
(***************************************************************************)
(* The advertisement.                                                      *)
(***************************************************************************)

\* The checksum field adds what it holds, whatever the rest of the message.
LEMMA AdvertMessageSum ==
  ASSUME NEW solicited \in BOOLEAN
  PROVE  \E rest \in Nat :
           /\ rest > 0
           /\ \A c \in 0 .. AllOnes :
                /\ AdvertMessage(c, solicited) \in Seq(Bytes)
                /\ Len(AdvertMessage(c, solicited)) = SizeofAdvert
                /\ AdvertMessage(c, solicited)[1] = Advert
                /\ Sum(AdvertMessage(c, solicited)) = c + rest
<1> DEFINE flag == (IF solicited THEN Solicited ELSE 0) + Router
           type == <<Advert, 0>>  flags == <<flag, 0>>  option == <<TargetLinkAddr, 1>>
<1>1. flag \in Bytes
  <2>1. Solicited + Router \in Bytes /\ 0 + Router \in Bytes
    BY BytesAssumption DEF Bytes
  <2> QED
    BY <2>1
<1>2. /\ Even(type) /\ Len(type) = 2 /\ type[1] = Advert
      /\ Even(flags) /\ Len(flags) = 2
  <2>1. 0 \in Bytes /\ Advert \in Bytes
    BY BytesAssumption DEF Bytes
  <2> HIDE DEF flag
  <2> QED
    BY <1>1, <2>1 DEF Even
<1>3. Even(option) /\ Len(option) = 2 /\ Sum(option) > 0
  <2>1. 1 \in Bytes /\ TargetLinkAddr \in Bytes
    BY BytesAssumption DEF Bytes
  <2>2. Even(option) /\ Len(option) = 2 /\ option[2] = 1 /\ option[1] = TargetLinkAddr
    BY <2>1 DEF Even
  <2> HIDE DEF option
  <2>3. /\ Sums(option)[1] \in Nat
        /\ Sums(option)[2] = Sums(option)[1] + Weighted(option, 2)
    <3>1. 1 \in 0 .. Len(option) /\ 2 \in 1 .. Len(option) /\ 2 - 1 = 1
      BY <2>2
    <3> QED
      BY <2>2, <3>1, SumsEquation DEF Even
  <2>4. Weighted(option, 2) = B
    <3>1. B * 1 = B
      BY Numbers
    <3> QED
      BY <2>2, <3>1 DEF Weighted
  <2> QED
    BY <2>2, <2>3, <2>4, Numbers DEF Sum
<1>4. Even(Gateway) /\ Len(Gateway) = SizeofAddress /\ Mac \in Seq(Bytes)
  BY AddressAssumption, AddressIsBytes DEF Even
<1> DEFINE others == Sum(type) + Sum(flags) + Sum(Gateway) + Sum(option) + Sum(Mac)
<1>5. \A c : AdvertMessage(c, solicited) =
               type \o Word(c) \o flags \o Gateway \o option \o Mac
  BY DEF AdvertMessage
<1> HIDE DEF type, flags, option
<1>6. /\ Sum(type) \in Nat /\ Sum(flags) \in Nat /\ Sum(Gateway) \in Nat
      /\ Sum(option) \in Nat /\ Sum(Mac) \in Nat
  BY <1>2, <1>3, <1>4, SumType DEF Even
<1>7. /\ type \in Seq(Bytes) /\ flags \in Seq(Bytes) /\ Gateway \in Seq(Bytes)
      /\ option \in Seq(Bytes) /\ Mac \in Seq(Bytes)
  BY <1>2, <1>3, <1>4 DEF Even
<1>8. ASSUME NEW c \in 0 .. AllOnes
      PROVE  /\ AdvertMessage(c, solicited) \in Seq(Bytes)
             /\ Len(AdvertMessage(c, solicited)) = SizeofAdvert
             /\ AdvertMessage(c, solicited)[1] = Advert
             /\ Sum(AdvertMessage(c, solicited)) = c + others
  <2> DEFINE word == Word(c)
             m1 == type \o word  m2 == m1 \o flags  m3 == m2 \o Gateway
             m4 == m3 \o option  m5 == m4 \o Mac
  <2>1. Even(word) /\ word \in Seq(Bytes) /\ Len(word) = 2 /\ Sum(word) = c
    <3>1. Word(c) \in Seq(Bytes) /\ Len(Word(c)) = 2 /\ Sum(Word(c)) = c
      BY WordInMemory
    <3> QED
      BY <3>1 DEF Even
  <2> HIDE DEF word
  <2>2. /\ Even(m1) /\ Len(m1) = Len(type) + Len(word)
        /\ Sum(m1) = Sum(type) + Sum(word)
        /\ Len(type) > 0 => m1[1] = type[1]
    BY <1>2, <2>1, EvenConcat
  <2> HIDE DEF m1
  <2>3. /\ Even(m2) /\ Len(m2) = Len(m1) + Len(flags)
        /\ Sum(m2) = Sum(m1) + Sum(flags)
        /\ Len(m1) > 0 => m2[1] = m1[1]
    BY <1>2, <1>7, <2>2, EvenConcat
  <2> HIDE DEF m2
  <2>4. /\ Even(m3) /\ Len(m3) = Len(m2) + Len(Gateway)
        /\ Sum(m3) = Sum(m2) + Sum(Gateway)
        /\ Len(m2) > 0 => m3[1] = m2[1]
    BY <1>4, <1>7, <2>3, EvenConcat
  <2> HIDE DEF m3
  <2>5. /\ Even(m4) /\ Len(m4) = Len(m3) + Len(option)
        /\ Sum(m4) = Sum(m3) + Sum(option)
        /\ Len(m3) > 0 => m4[1] = m3[1]
    BY <1>3, <1>7, <2>4, EvenConcat
  <2> HIDE DEF m4
  <2>6. /\ m5 \in Seq(Bytes) /\ Len(m5) = Len(m4) + Len(Mac)
        /\ Sum(m5) = Sum(m4) + Sum(Mac)
        /\ Len(m4) > 0 => m5[1] = m4[1]
    BY <1>7, <2>5, EvenConcat
  <2> HIDE DEF m5
  <2>7. Len(m5) = 6 + SizeofAddress + 2 + Len(Mac)
    <3>1. SizeofAddress \in Nat /\ Len(Mac) \in Nat
      BY AddressAssumption
    <3> QED
      BY <1>2, <1>3, <1>4, <2>1, <2>2, <2>3, <2>4, <2>5, <2>6, <3>1
  <2>8. Sum(m5) = c + others
    <3>1. c \in Nat
      BY Numbers
    <3>2. Sum(m3) = Sum(type) + c + Sum(flags) + Sum(Gateway)
      BY <2>1, <2>2, <2>3, <2>4
    <3>3. Sum(m5) = Sum(m3) + Sum(option) + Sum(Mac)
      BY <2>5, <2>6
    <3> QED
      BY <1>6, <3>1, <3>2, <3>3
  <2>9. AdvertMessage(c, solicited) = m5
    BY <1>5 DEF m1, m2, m3, m4, m5, word
  <2>10. m5[1] = Advert
    <3>1. SizeofAddress \in Nat
      BY AddressAssumption
    <3>2. /\ Len(type) > 0 /\ Len(m1) > 0 /\ Len(m2) > 0
          /\ Len(m3) > 0 /\ Len(m4) > 0
      BY <1>2, <1>3, <1>4, <2>1, <2>2, <2>3, <2>4, <2>5, <3>1
    <3> QED
      BY <1>2, <2>2, <2>3, <2>4, <2>5, <2>6, <3>2
  <2> QED
    BY <2>6, <2>7, <2>8, <2>9, <2>10 DEF SizeofAdvert
<1>9. others \in Nat /\ others > 0
  BY <1>3, <1>6
<1> HIDE DEF others
<1> QED
  BY <1>8, <1>9

\* The complement, in the place of the header's checksum, makes the sum of
\* header and message all ones.
LEMMA NeighborAdvertIsValid ==
  ASSUME NEW dst \in Addresses, NEW solicited \in BOOLEAN
  PROVE  /\ IsPacket(NeighborAdvert(dst, solicited))
         /\ NeighborAdvert(dst, solicited).icmp6[1] = Advert
         /\ Valid(NeighborAdvert(dst, solicited))
<1> DEFINE advert == NeighborAdvert(dst, solicited)
           header == PseudoHeader(Gateway, dst, SizeofAdvert)
           h == Checksum(header)
           field == Checksum(AdvertMessage(h, solicited))
           cksum == Cksum(dst, solicited)
           message == AdvertMessage(cksum, solicited)
           s == Sum(header)
<1>1. PICK rest \in Nat :
        /\ rest > 0
        /\ \A c \in 0 .. AllOnes :
             /\ AdvertMessage(c, solicited) \in Seq(Bytes)
             /\ Len(AdvertMessage(c, solicited)) = SizeofAdvert
             /\ AdvertMessage(c, solicited)[1] = Advert
             /\ Sum(AdvertMessage(c, solicited)) = c + rest
  BY AdvertMessageSum
<1>2. Gateway \in Addresses /\ SizeofAdvert \in 0 .. AllOnes
  <2>1. Gateway \in Addresses /\ SizeofAdvert \in Nat /\ SizeofAdvert < B * B
    BY AddressAssumption DEF SizeofAdvert
  <2> QED
    BY <2>1, Numbers
<1>3. header \in Seq(Bytes)
  BY <1>2, HeaderIsBytes DEF Even
<1>4. Reduced(h, s) /\ s \in Nat
  <2> HIDE DEF header
  <2> QED
    BY <1>3, ChecksumReduces, SumType
<1>5. cksum = AllOnes - field
  BY DEF Cksum
<1>6. /\ advert.version = 6 /\ advert.nxt = Icmp6 /\ advert.plen = Htons(SizeofAdvert)
      /\ advert.src = Gateway /\ advert.dst = dst /\ advert.icmp6 = message
  BY DEF NeighborAdvert
<1> HIDE DEF header, h, cksum, s, advert
<1>7. h \in 0 .. AllOnes /\ h \in Int
  BY <1>4, Numbers DEF Reduced
<1>8. Reduced(field, h + rest) /\ field \in 0 .. AllOnes
  <2>1. AdvertMessage(h, solicited) \in Seq(Bytes)
        /\ Sum(AdvertMessage(h, solicited)) = h + rest
    BY <1>1, <1>7
  <2>2. Reduced(field, h + rest)
    BY <2>1, ChecksumReduces
  <2> QED
    BY <2>2 DEF Reduced
<1> HIDE DEF field
<1>9. cksum \in 0 .. AllOnes /\ cksum \in Int /\ field \in Int
  BY <1>5, <1>8, Numbers
<1>10. /\ message \in Seq(Bytes) /\ Len(message) = SizeofAdvert
       /\ message[1] = Advert /\ Sum(message) = cksum + rest
  BY <1>1, <1>9
<1> HIDE DEF message
<1>11. IsPacket(advert)
  <2>1. Htons(SizeofAdvert) \in Bytes \X Bytes /\ Icmp6 \in Bytes
    BY <1>2, WordInMemory, BytesAssumption
  <2>2. SizeofAdvert < B * B
    BY AddressAssumption
  <2> QED
    BY <1>2, <1>6, <1>10, <2>1, <2>2 DEF IsPacket
<1>12. Valid(advert) <=> IsAllOnes(s + (cksum + rest))
  <2>1. header = PseudoHeader(advert.src, advert.dst, Len(advert.icmp6))
    BY <1>6, <1>10 DEF header
  <2>2. Sum(header) + Sum(advert.icmp6) = s + (cksum + rest)
    BY <1>6, <1>10 DEF s
  <2> QED
    BY <1>11, <2>1, <2>2, ValidMeansAllOnes
<1>13. s + (cksum + rest) \in Multiples
  <2> DEFINE a == field - (h + rest)  b == h - s
  <2>1. a \in Multiples /\ b \in Multiples
    BY <1>4, <1>8 DEF Reduced
  <2>2. s + (cksum + rest) = AllOnes - (a + b)
    BY <1>4, <1>5, <1>7, <1>9, Numbers
  <2> HIDE DEF a, b
  <2>3. a + b \in Multiples /\ AllOnes \in Multiples
    BY <2>1, MultiplesClosed
  <2> DEFINE ab == a + b
  <2> HIDE DEF ab
  <2>4. ab \in Multiples
    BY <2>3 DEF ab
  <2>5. AllOnes - ab \in Multiples
    BY <2>3, <2>4, MultiplesClosed
  <2> QED
    BY <2>2, <2>5 DEF ab
<1>14. s + (cksum + rest) # 0
  BY <1>1, <1>4, <1>9, Numbers
<1> QED
  BY <1>6, <1>10, <1>11, <1>12, <1>13, <1>14 DEF IsAllOnes, advert

-----------------------------------------------------------------------------
(***************************************************************************)
(* The invariant: which packet is sent for which.                          *)
(***************************************************************************)
SentFor ==
  IF packet = NoPacket THEN NeighborAdvert(AllNodes, FALSE)
  ELSE IF IsNeighborSolicitation(packet) THEN NeighborAdvert(packet.src, TRUE)
  ELSE packet

NeighborInv ==
  /\ packet = NoPacket \/ packet \in Packets
  /\ sent = NoPacket \/ sent = SentFor

LEMMA NextNeighborInv == NeighborInv /\ [Next]_vars => NeighborInv'
<1> SUFFICES ASSUME NeighborInv, [Next]_vars PROVE NeighborInv'
  OBVIOUS
<1>1. CASE Receive \/ Return
  BY <1>1 DEF NeighborInv, Receive, Return
<1>2. CASE Callback
  <2>1. packet' = packet /\ packet # NoPacket /\ sent' = SentFor
    BY <1>2 DEF Callback, SentFor
  <2>2. SentFor' = SentFor
    BY <2>1 DEF SentFor
  <2> QED
    BY <2>1, <2>2 DEF NeighborInv
<1>3. CASE Advertise
  <2>1. packet' = packet /\ packet = NoPacket /\ sent' = SentFor
    BY <1>3 DEF Advertise, SentFor
  <2>2. SentFor' = SentFor
    BY <2>1 DEF SentFor
  <2> QED
    BY <2>1, <2>2 DEF NeighborInv
<1>4. CASE UNCHANGED vars
  BY <1>4 DEF vars, NeighborInv, SentFor
<1> QED
  BY <1>1, <1>2, <1>3, <1>4 DEF Next

THEOREM NeighborInvariant == Spec => []NeighborInv
<1>1. Init => NeighborInv
  BY DEF Init, NeighborInv
<1> QED
  BY <1>1, NextNeighborInv, PTL DEF Spec

-----------------------------------------------------------------------------

LEMMA SentForIsValid ==
  ASSUME NeighborInv
  PROVE  /\ packet # NoPacket => IsPacket(packet)
         /\ IsPacket(SentFor)
         /\ SentFor # packet =>
              /\ Valid(SentFor)
              /\ SentFor.dst = IF packet = NoPacket THEN AllNodes ELSE packet.src
<1>1. packet # NoPacket => IsPacket(packet)
  BY PacketsAssumption DEF NeighborInv
<1>2. \A dst, solicited : NeighborAdvert(dst, solicited).dst = dst
  BY DEF NeighborAdvert
<1>3. CASE packet = NoPacket
  <2>1. AllNodes \in Addresses
    BY AddressAssumption
  <2> QED
    BY <1>1, <1>2, <1>3, <2>1, NeighborAdvertIsValid DEF SentFor
<1>4. CASE packet # NoPacket /\ IsNeighborSolicitation(packet)
  <2>1. packet.src \in Addresses
    BY <1>1, <1>4 DEF IsPacket
  <2> QED
    BY <1>1, <1>2, <1>4, <2>1, NeighborAdvertIsValid DEF SentFor
<1>5. CASE packet # NoPacket /\ ~IsNeighborSolicitation(packet)
  BY <1>1, <1>5 DEF SentFor
<1> QED
  BY <1>3, <1>4, <1>5

\* Whatever sendNeighborAdvert() makes has the fields of a packet.
THEOREM TypeCorrect == Spec => []TypeOK
<1>1. NeighborInv => TypeOK
  BY SentForIsValid DEF NeighborInv, TypeOK
<1> QED
  BY <1>1, NeighborInvariant, PTL

\* isNeighborSolicitation() finds the checksum of a packet right if and only
\* if it is: that the machine's byte order is not the network's, that header
\* and message are summed for themselves, that carries carry again and that
\* the last byte may be odd makes no difference, for words of any width.
THEOREM ChecksumIsProtocols == Spec => []ChecksumAgrees
<1>1. NeighborInv => ChecksumAgrees
  BY SentForIsValid, ChecksumRightIsValid DEF ChecksumAgrees
<1> QED
  BY <1>1, NeighborInvariant, PTL

\* Every advertisement of sendNeighborAdvert() is valid, and goes to who asked
\* or to all nodes: all of one's complement, for any addresses.
THEOREM AdvertsAreValid == Spec => []AdvertValid
<1>1. NeighborInv => AdvertValid
  BY SentForIsValid DEF NeighborInv, AdvertValid
<1> QED
  BY <1>1, NeighborInvariant, PTL

\* The length that is read without ntohs() is long enough when its low byte
\* is not zero.
LEMMA PlenReadIsLong ==
  ASSUME NEW p, IsPacket(p), p.plen = Htons(Len(p.icmp6)), p.plen[2] # 0,
         SizeofSolicit <= Len(p.icmp6)
  PROVE  SizeofSolicit <= PlenRead(p)
<1> DEFINE len == Len(p.icmp6)  high == len \div B  low == len % B
<1>1. p.plen[1] = high /\ p.plen[2] = low
  BY DEF Htons
<1>2. len \in Nat
  BY DEF IsPacket
<1> HIDE DEF len
<1>3. high \in Nat /\ low \in Nat /\ len = B * high + low
  BY <1>2, Numbers
<1> HIDE DEF high, low
<1>4. low >= 1
  BY <1>1, <1>3
<1>5. SizeofSolicit <= len /\ SizeofSolicit <= B + 2 /\ SizeofSolicit \in Nat
  BY AddressAssumption DEF len, SizeofSolicit
<1>6. SizeofSolicit <= high + B * low
  <2>1. CASE high = 0
    <3>1. len = low /\ B * low >= low
      BY <1>3, <1>4, <2>1, Numbers
    <3> QED
      BY <1>3, <1>5, <2>1, <3>1, Numbers
  <2>2. CASE high = 1 /\ low = 1
    BY <1>3, <1>5, <2>2, Numbers
  <2>3. CASE high >= 2
    <3>1. B * low >= B
      BY <1>3, <1>4, Numbers
    <3> QED
      BY <1>3, <1>5, <2>3, <3>1, Numbers
  <2>4. CASE high = 1 /\ low >= 2
    <3>1. B * low >= B * 2
      BY <1>3, <2>4, Numbers
    <3> QED
      BY <1>3, <1>5, <2>4, <3>1, Numbers
  <2> QED
    BY <1>3, <1>4, <2>1, <2>2, <2>3, <2>4
<1> QED
  BY <1>1, <1>6 DEF PlenRead

\* callback() answers the solicitations of the gateway and no other packet,
\* of those that the comparison of ip6_plen is right for.
THEOREM SolicitationsAnswered == Spec => []GenuineAnswered
<1>1. ASSUME NeighborInv, packet # NoPacket, sent # NoPacket,
             packet.plen = Htons(Len(packet.icmp6)), packet.plen[2] # 0
      PROVE  sent # packet <=> Genuine(packet)
  <2>1. IsPacket(packet) /\ sent = SentFor
    BY <1>1, SentForIsValid DEF NeighborInv
  <2>2. ChecksumRight(packet) <=> Valid(packet)
    BY <2>1, ChecksumRightIsValid
  <2>3. IsNeighborSolicitation(packet) <=> Genuine(packet)
    <3>1. SizeofSolicit <= Len(packet.icmp6) => SizeofSolicit <= PlenRead(packet)
      BY <1>1, <2>1, PlenReadIsLong
    <3>2. SizeofSolicit <= Len(packet.icmp6) <=> Len(packet.icmp6) >= SizeofSolicit
      OBVIOUS
    <3> QED
      BY <1>1, <2>2, <3>1, <3>2 DEF IsNeighborSolicitation, LooksRight, Genuine
  <2>4. ASSUME IsNeighborSolicitation(packet) PROVE sent # packet
    <3>1. packet.icmp6[1] = Solicit
      BY <2>4 DEF IsNeighborSolicitation, LooksRight
    <3>2. NeighborAdvert(packet.src, TRUE).icmp6[1] = Advert
      <4>1. packet.src \in Addresses
        BY <2>1 DEF IsPacket
      <4> QED
        BY <4>1, NeighborAdvertIsValid
    <3>3. Solicit # Advert
      BY BytesAssumption
    <3> QED
      BY <1>1, <2>1, <2>4, <3>1, <3>2, <3>3 DEF SentFor
  <2>5. ~IsNeighborSolicitation(packet) => sent = packet
    BY <1>1, <2>1 DEF SentFor
  <2> QED
    BY <2>3, <2>4, <2>5
<1>2. NeighborInv => GenuineAnswered
  BY <1>1 DEF GenuineAnswered
<1> QED
  BY <1>2, NeighborInvariant, PTL

=============================================================================
