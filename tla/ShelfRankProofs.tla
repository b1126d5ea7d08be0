-------------------------- MODULE ShelfRankProofs --------------------------
(***************************************************************************)
(* What callers rely on in the closed form of ShelfRank.between, for every *)
(* alphabet and every length limit.                                        *)
(***************************************************************************)
EXTENDS ShelfRank, TLAPS, WellFoundedInduction

Neighbour == Rank \cup {None}

LEMMA NeighbourType ==
  ASSUME NEW r \in Neighbour
  PROVE  /\ r \in Seq(Digit)
         /\ Len(r) \in Nat
         /\ \A i \in Nat \ {0} : DigitAt(r, i) \in Digit
         /\ \A i \in 1 .. Len(r) : r[i] \in Digit
<1>1. r \in Seq(Digit)
  <2>1. CASE r \in Rank
    BY <2>1 DEF Rank
  <2>2. CASE r = None
    BY <2>2 DEF None
  <2>3. QED
    BY <2>1, <2>2 DEF Neighbour
<1>2. \A i \in 1 .. Len(r) : r[i] \in Digit
  BY <1>1
<1>3. Len(r) \in Nat
  BY <1>1
<1>4. 0 \in Digit
  BY RankAssumption DEF Digit
<1>5. \A i \in Nat \ {0} : DigitAt(r, i) \in Digit
  BY <1>2, <1>3, <1>4 DEF DigitAt
<1>6. QED
  BY <1>1, <1>2, <1>3, <1>5

LEMMA RankType ==
  ASSUME NEW r \in Rank
  PROVE  /\ r \in Neighbour /\ r # None /\ r[Len(r)] # 0
         /\ Len(r) \in 1 .. MAX_LENGTH
         /\ \A i \in 1 .. Len(r) : r[i] \in Int
<1>1. r \in Neighbour /\ Len(r) \in 1 .. MAX_LENGTH /\ r[Len(r)] # 0
  BY DEF Rank, Neighbour
<1>2. \A i \in 1 .. Len(r) : r[i] \in 0 .. BASE - 1
  BY <1>1, NeighbourType DEF Digit
<1>3. r # None
  BY <1>1 DEF None
<1>4. QED
  BY <1>1, <1>2, <1>3, RankAssumption

\* At the position where `between` stops the digit it adds lies strictly
\* between the two bounds.
LEMMA MiddleDigit ==
  ASSUME NEW p \in Neighbour, NEW n \in Neighbour,
         NEW k \in 1 .. MAX_LENGTH, StopsAt(p, n, k)
  PROVE  LET m == DigitAt(p, k) + Gap(p, n, k) \div 2
         IN  /\ m \in Digit \ {0}
             /\ DigitAt(p, k) < m
             /\ Agree(p, n, k) => m < DigitAt(n, k)
<1>1. DigitAt(p, k) \in 0 .. BASE - 1 /\ DigitAt(n, k) \in 0 .. BASE - 1
  BY NeighbourType, RankAssumption DEF Digit
<1>2. DEFINE high == IF Agree(p, n, k) THEN DigitAt(n, k) ELSE BASE
<1>3. high \in 0 .. BASE
  BY <1>1, RankAssumption
<1>4. Gap(p, n, k) = high - DigitAt(p, k)
  BY DEF Gap
<1>5. high - DigitAt(p, k) > 1
  BY <1>4 DEF StopsAt
<1>6. \A l, h \in Int : h - l > 1 => l < l + (h - l) \div 2 /\ l + (h - l) \div 2 < h
  OBVIOUS
<1>7. \A l, h \in Int : l + (h - l) \div 2 \in Int
  OBVIOUS
<1>8. DigitAt(p, k) \in Int /\ high \in Int
  BY <1>1, <1>3
<1>9. DEFINE m == DigitAt(p, k) + (high - DigitAt(p, k)) \div 2
<1>10. DigitAt(p, k) < m /\ m < high /\ m \in Int
  BY <1>5, <1>6, <1>7, <1>8
<1> HIDE DEF high, m
<1>11. m \in Digit \ {0}
  BY <1>1, <1>3, <1>10, RankAssumption DEF Digit
<1>12. Agree(p, n, k) => high = DigitAt(n, k)
  BY DEF high
<1>13. m = DigitAt(p, k) + Gap(p, n, k) \div 2
  BY <1>4 DEF m
<1>14. QED
  BY <1>10, <1>11, <1>12, <1>13

\* The key `between` builds: the previous key's digits up to the stop, and
\* one greater digit there.
LEMMA BetweenShape ==
  ASSUME NEW p \in Neighbour, NEW n \in Neighbour, HasRoom(p, n)
  PROVE  \E k \in 1 .. MAX_LENGTH :
           /\ StopsAt(p, n, k)
           /\ Between(p, n) \in Rank
           /\ Len(Between(p, n)) = k
           /\ \A j \in 1 .. k - 1 : Between(p, n)[j] = DigitAt(p, j)
           /\ DigitAt(p, k) < Between(p, n)[k]
           /\ Agree(p, n, k) => Between(p, n)[k] < DigitAt(n, k)
<1>1. DEFINE k == CHOOSE x \in 1 .. MAX_LENGTH : StopsAt(p, n, x)
             m == DigitAt(p, k) + Gap(p, n, k) \div 2
<1>2. k \in 1 .. MAX_LENGTH /\ StopsAt(p, n, k)
  BY DEF HasRoom
<1>3. Between(p, n) = [i \in 1 .. k |-> IF i < k THEN DigitAt(p, i) ELSE m]
  BY DEF Between
<1> HIDE DEF k
<1>4. /\ m \in Digit \ {0}
      /\ DigitAt(p, k) < m
      /\ Agree(p, n, k) => m < DigitAt(n, k)
  BY <1>2, MiddleDigit
<1> HIDE DEF m
<1>5. k \in Nat \ {0} /\ MAX_LENGTH \in Nat
  BY <1>2, RankAssumption
<1>6. \A i \in 1 .. k : DigitAt(p, i) \in Digit
  BY <1>5, NeighbourType
<1>7. Between(p, n) \in [1 .. k -> Digit]
  BY <1>3, <1>4, <1>6
<1>8. Between(p, n) \in Seq(Digit) /\ Len(Between(p, n)) = k
  BY <1>3, <1>5, <1>7
<1>9. Between(p, n)[k] = m /\ \A j \in 1 .. k - 1 : Between(p, n)[j] = DigitAt(p, j)
  BY <1>3, <1>5
<1>10. Between(p, n) \in Rank
  BY <1>2, <1>4, <1>8, <1>9 DEF Rank
<1>11. QED
  BY <1>2, <1>4, <1>8, <1>9, <1>10

\* The new key sorts after the previous book's key.
THEOREM BetweenIsAfter ==
  ASSUME NEW p \in Neighbour, NEW n \in Neighbour, HasRoom(p, n)
  PROVE  Less(p, Between(p, n))
<1>1. PICK k \in 1 .. MAX_LENGTH :
        /\ Len(Between(p, n)) = k
        /\ \A j \in 1 .. k - 1 : Between(p, n)[j] = DigitAt(p, j)
        /\ DigitAt(p, k) < Between(p, n)[k]
  BY BetweenShape
<1>2. Len(p) \in Nat
  BY NeighbourType
<1>3. CASE k <= Len(p)
  <2>1. \A j \in 1 .. k - 1 : j <= Len(p) /\ p[j] = Between(p, n)[j]
    BY <1>1, <1>2, <1>3 DEF DigitAt
  <2>2. p[k] < Between(p, n)[k]
    BY <1>1, <1>3 DEF DigitAt
  <2>3. QED
    BY <1>1, <2>1, <2>2 DEF Less
<1>4. CASE Len(p) < k
  <2>1. Len(p) + 1 \in 1 .. Len(Between(p, n))
    BY <1>1, <1>2, <1>4
  <2>2. \A j \in 1 .. Len(p) : p[j] = Between(p, n)[j]
    BY <1>1, <1>2, <1>4 DEF DigitAt
  <2>3. QED
    BY <1>2, <2>1, <2>2 DEF Less
<1>5. QED
  BY <1>1, <1>2, <1>3, <1>4

\* The new key sorts before the next book's key.
THEOREM BetweenIsBefore ==
  ASSUME NEW p \in Neighbour, NEW n \in Rank, HasRoom(p, n)
  PROVE  Less(Between(p, n), n)
<1> n \in Neighbour
  BY DEF Neighbour
<1> DEFINE b == Between(p, n)
<1> SUFFICES Less(b, n)
  OBVIOUS
<1>1. PICK k \in 1 .. MAX_LENGTH :
        /\ StopsAt(p, n, k)
        /\ Len(b) = k
        /\ \A j \in 1 .. k - 1 : b[j] = DigitAt(p, j)
        /\ Agree(p, n, k) => b[k] < DigitAt(n, k)
  BY BetweenShape
<1> HIDE DEF b
<1>2. /\ Len(p) \in Nat /\ Len(n) \in Nat /\ n # None /\ n \in Seq(Digit)
      /\ \A j \in Nat \ {0} : DigitAt(p, j) \in Digit /\ DigitAt(n, j) \in Digit
  BY NeighbourType DEF Rank, None
<1>3. \A j \in Nat \ {0} : DigitAt(n, j) > 0 => j <= Len(n) /\ DigitAt(n, j) = n[j]
  BY DEF DigitAt
<1>4. CASE Agree(p, n, k)
  <2>1. DigitAt(p, k) >= 0 /\ DigitAt(p, k) \in Int /\ DigitAt(n, k) \in Int
    BY <1>2, RankAssumption DEF Digit
  <2>2. DigitAt(n, k) - DigitAt(p, k) > 1
    BY <1>1, <1>4 DEF StopsAt, Gap
  <2>3. k <= Len(n) /\ b[k] < n[k]
    BY <1>1, <1>3, <1>4, <2>1, <2>2
  <2>4. \A j \in 1 .. k - 1 : j <= Len(b) /\ b[j] = n[j]
    BY <1>1, <1>2, <1>4, <2>3 DEF DigitAt, Agree
  <2>5. QED
    BY <1>1, <1>2, <2>3, <2>4 DEF Less
<1>5. CASE ~ Agree(p, n, k)
  <2>1. PICK j \in 1 .. k - 1 : /\ DigitAt(n, j) - DigitAt(p, j) = 1
                                /\ Agree(p, n, j)
    BY <1>1, <1>2, <1>5 DEF StopsAt, Reaches, Released
  <2>2. DigitAt(p, j) >= 0 /\ DigitAt(p, j) \in Int /\ DigitAt(n, j) \in Int
    BY <1>2, RankAssumption DEF Digit
  <2>3. j <= Len(n) /\ b[j] < n[j]
    BY <1>1, <1>3, <2>1, <2>2
  <2>4. \A m \in 1 .. j - 1 : m <= Len(b) /\ b[m] = n[m]
    BY <1>1, <1>2, <2>1, <2>3 DEF DigitAt, Agree
  <2>5. QED
    BY <1>1, <1>2, <2>1, <2>3, <2>4 DEF Less
<1>6. QED
  BY <1>4, <1>5

\* Sorting is transitive and irreflexive on keys.
LEMMA LessTransitive ==
  ASSUME NEW a \in Rank, NEW b \in Rank, NEW c \in Rank, Less(a, b), Less(b, c)
  PROVE  Less(a, c)
<1>1. PICK i \in 1 .. Len(b) :
        /\ \A j \in 1 .. i - 1 : j <= Len(a) /\ a[j] = b[j]
        /\ i > Len(a) \/ a[i] < b[i]
  BY DEF Less
<1>2. PICK k \in 1 .. Len(c) :
        /\ \A j \in 1 .. k - 1 : j <= Len(b) /\ b[j] = c[j]
        /\ k > Len(b) \/ b[k] < c[k]
  BY DEF Less
<1>3. /\ Len(a) \in Nat /\ Len(b) \in Nat /\ Len(c) \in Nat
      /\ \A j \in 1 .. Len(a) : a[j] \in Int
      /\ \A j \in 1 .. Len(b) : b[j] \in Int
      /\ \A j \in 1 .. Len(c) : c[j] \in Int
  BY RankType
<1>4. CASE i < k
  <2>1. i \in 1 .. Len(c) /\ i <= Len(b) /\ b[i] = c[i]
    BY <1>2, <1>3, <1>4
  <2>2. \A j \in 1 .. i - 1 : j <= Len(a) /\ a[j] = c[j]
    BY <1>1, <1>2, <1>3, <1>4
  <2>3. QED
    BY <1>1, <2>1, <2>2 DEF Less
<1>5. CASE k <= i
  <2>1. \A j \in 1 .. k - 1 : j <= Len(a) /\ a[j] = c[j]
    BY <1>1, <1>2, <1>3, <1>5
  <2>2. k <= Len(b) /\ b[k] < c[k]
    BY <1>2, <1>3, <1>5
  <2>3. k > Len(a) \/ a[k] < c[k]
    BY <1>1, <1>3, <1>5, <2>2
  <2>4. QED
    BY <2>1, <2>3 DEF Less
<1>6. QED
  BY <1>3, <1>4, <1>5

LEMMA LessIrreflexive ==
  ASSUME NEW a \in Rank
  PROVE  ~ Less(a, a)
<1>1. Len(a) \in Nat /\ \A j \in 1 .. Len(a) : a[j] \in Int
  BY RankType
<1>2. QED
  BY <1>1 DEF Less

\* `between` can stop at one position only.
LEMMA OneStop ==
  ASSUME NEW p \in Neighbour, NEW n \in Neighbour,
         NEW k \in 1 .. MAX_LENGTH, NEW l \in 1 .. MAX_LENGTH,
         StopsAt(p, n, k), StopsAt(p, n, l), k < l
  PROVE  FALSE
<1>1. MAX_LENGTH \in Nat /\ BASE \in Nat
  BY RankAssumption
<1>2. /\ DigitAt(p, k) \in Int /\ DigitAt(n, k) \in Int
      /\ \A j \in 1 .. MAX_LENGTH : DigitAt(p, j) \in Int /\ DigitAt(n, j) \in Int
  BY <1>1, NeighbourType DEF Digit
<1>3. Gap(p, n, k) > 1
  BY DEF StopsAt
<1>4. CASE Agree(p, n, l)
  <2>1. Agree(p, n, k) /\ DigitAt(n, k) = DigitAt(p, k)
    BY <1>1, <1>4 DEF Agree
  <2>2. QED
    BY <1>2, <1>3, <2>1 DEF Gap
<1>5. ASSUME NEW c \in 0 .. l - 1, Released(p, n, c),
             \A j \in c + 1 .. l - 1 : DigitAt(p, j) = BASE - 1
      PROVE  FALSE
  <2>1. CASE c < k
    <3>1. DigitAt(p, k) = BASE - 1
      BY <1>1, <1>5, <2>1
    <3>2. ~ Agree(p, n, k)
      BY <1>1, <1>2, <1>5, <2>1 DEF Released, Agree
    <3>3. QED
      BY <1>1, <1>3, <3>1, <3>2 DEF Gap
  <2>2. CASE c = k
    BY <1>2, <1>3, <1>5, <2>2 DEF Released, Gap
  <2>3. CASE c > k
    <3>1. Agree(p, n, k) /\ DigitAt(n, k) = DigitAt(p, k)
      BY <1>1, <1>5, <2>3 DEF Released, Agree
    <3>2. QED
      BY <1>2, <1>3, <3>1 DEF Gap
  <2>4. QED
    BY <1>1, <2>1, <2>2, <2>3
<1>6. QED
  BY <1>4, <1>5 DEF StopsAt, Reaches

\* So the closed form's CHOOSE is that position.
LEMMA BetweenAtStop ==
  ASSUME NEW p \in Neighbour, NEW n \in Neighbour,
         NEW k \in 1 .. MAX_LENGTH, StopsAt(p, n, k)
  PROVE  /\ HasRoom(p, n)
         /\ Between(p, n) = [i \in 1 .. k |-> IF i < k THEN DigitAt(p, i)
                                 ELSE DigitAt(p, k) + Gap(p, n, k) \div 2]
<1>1. \A l \in 1 .. MAX_LENGTH : StopsAt(p, n, l) => l = k
  BY OneStop, RankAssumption
<1>2. (CHOOSE x \in 1 .. MAX_LENGTH : StopsAt(p, n, x)) = k
  BY <1>1
<1>3. QED
  BY <1>2 DEF Between, HasRoom

-----------------------------------------------------------------------------
\* The order of the natural numbers is well-founded.
LEMMA NatOrder ==
  \E R : IsWellFoundedOn(R, Nat) /\ \A m, n \in Nat : <<m, n>> \in R <=> m < n
<1>1. IsWellFoundedOn(OpToRel(<, Nat), Nat)
  BY NatLessThanWellFounded
<1>2. \A m, n \in Nat : <<m, n>> \in OpToRel(<, Nat) <=> m < n
  BY DEF OpToRel
<1>3. QED
  BY <1>1, <1>2

\* Induction by a least counterexample.
LEMMA LeastNat ==
  ASSUME NEW T, T \subseteq Nat, T # {}
  PROVE  \E x \in T : \A y \in T : x <= y
<1>1. PICK R : IsWellFoundedOn(R, Nat) /\ \A m, n \in Nat : <<m, n>> \in R <=> m < n
  BY NatOrder
<1>2. IsWellFoundedOn(R, Nat)
  BY <1>1
<1>3. PICK x \in T : \A y \in T : ~ (<<y, x>> \in R)
  BY <1>2, WFMin
<1>4. \A y \in T : ~ (y < x)
  BY <1>1, <1>3
<1>5. \A y \in T : x <= y
  BY <1>4
<1>6. QED
  BY <1>5

\* String order is total on keys.
THEOREM LessTotal ==
  ASSUME NEW a \in Rank, NEW b \in Rank
  PROVE  a = b \/ Less(a, b) \/ Less(b, a)
<1>1. /\ a \in Seq(Digit) /\ b \in Seq(Digit)
      /\ Len(a) \in Nat /\ Len(b) \in Nat
      /\ \A j \in 1 .. Len(a) : a[j] \in Int
      /\ \A j \in 1 .. Len(b) : b[j] \in Int
  BY RankType DEF Rank
<1> DEFINE Differ == {i \in Nat \ {0} : i > Len(a) \/ i > Len(b) \/ a[i] # b[i]}
<1>2. Len(a) + 1 \in Differ
  BY <1>1
<1>3. PICK i \in Differ : \A j \in Differ : i <= j
  BY <1>2, LeastNat
<1>4. \A j \in 1 .. i - 1 : j <= Len(a) /\ j <= Len(b) /\ a[j] = b[j]
  BY <1>3
<1>5. CASE i > Len(a) /\ i > Len(b)
  <2>1. Len(a) = i - 1 /\ Len(b) = i - 1
    BY <1>1, <1>4, <1>5
  <2>2. a \in [1 .. i - 1 -> Digit] /\ b \in [1 .. i - 1 -> Digit]
    BY <1>1, <2>1
  <2>3. \A j \in 1 .. i - 1 : a[j] = b[j]
    BY <1>4
  <2>4. QED
    BY <2>2, <2>3
<1>6. CASE i > Len(a) /\ i <= Len(b)
  BY <1>1, <1>4, <1>6 DEF Less
<1>7. CASE i <= Len(a) /\ i > Len(b)
  BY <1>1, <1>4, <1>7 DEF Less
<1>8. CASE i <= Len(a) /\ i <= Len(b)
  <2>1. a[i] < b[i] \/ b[i] < a[i]
    BY <1>1, <1>3, <1>8
  <2>2. i \in 1 .. Len(a) /\ i \in 1 .. Len(b)
    BY <1>1, <1>3, <1>8
  <2>3. CASE a[i] < b[i]
    BY <1>4, <2>2, <2>3 DEF Less
  <2>4. CASE b[i] < a[i]
    BY <1>4, <2>2, <2>4 DEF Less
  <2>5. QED
    BY <2>1, <2>3, <2>4
<1>9. QED
  BY <1>1, <1>3, <1>5, <1>6, <1>7, <1>8

\* Of finitely many things with keys of their own one has the greatest key.
LEMMA GreatestKey ==
  ASSUME NEW N \in Nat, NEW S, S \subseteq 1 .. N, S # {}, NEW key,
         \A b \in S : key[b] \in Rank,
         \A b \in S : \A c \in S \ {b} : key[b] # key[c]
  PROVE  \E b \in S : \A c \in S \ {b} : Less(key[c], key[b])
<1> DEFINE Max(T) == \E b \in T : \A c \in T \ {b} : Less(key[c], key[b])
           Bad == {n \in Nat : \E T \in SUBSET S : T # {} /\ T \subseteq 1 .. n /\ ~ Max(T)}
<1>1. SUFFICES ASSUME Bad # {} PROVE FALSE
  <2>1. N \notin Bad
    BY <1>1
  <2>2. QED
    BY <2>1
<1>2. PICK n \in Bad : \A m \in Bad : n <= m
  BY <1>1, LeastNat
<1>3. PICK T \in SUBSET S : T # {} /\ T \subseteq 1 .. n /\ ~ Max(T)
  BY <1>2
<1>4. n \in Nat /\ n # 0
  <2>1. n \in Nat
    BY <1>2
  <2>2. n = 0 => 1 .. n = {}
    BY <2>1
  <2>3. QED
    BY <1>3, <2>1, <2>2
<1>5. n - 1 \in Nat /\ n - 1 \notin Bad /\ T \ {n} \subseteq 1 .. n - 1
  <2>1. n - 1 \in Nat /\ ~ (n <= n - 1)
    BY <1>4
  <2>2. n - 1 \notin Bad
    BY <1>2, <2>1
  <2>3. \A i \in 1 .. n : i # n => i \in 1 .. n - 1
    BY <1>4
  <2>4. QED
    BY <1>3, <2>1, <2>2, <2>3
<1>6. CASE T \ {n} = {}
  BY <1>3, <1>6
<1>7. CASE T \ {n} # {}
  <2>1. PICK b \in T \ {n} : \A c \in (T \ {n}) \ {b} : Less(key[c], key[b])
    BY <1>4, <1>5, <1>7
  <2>2. n \in T
    BY <1>3, <2>1
  <2>3. CASE Less(key[n], key[b])
    BY <1>3, <2>1, <2>3
  <2>4. CASE Less(key[b], key[n])
    <3>1. \A c \in T \ {n} : Less(key[c], key[n])
      BY <2>1, <2>2, <2>4, LessTransitive
    <3>2. QED
      BY <1>3, <2>2, <3>1
  <2>5. QED
    BY <2>1, <2>2, <2>3, <2>4, LessTotal
<1>8. QED
  BY <1>6, <1>7

-----------------------------------------------------------------------------
\* The recursion of rebalanced_sequence's capacity has a solution up to every length ...
CapacityUpTo(n, f) == f = [i \in 0 .. n |-> IF i = 0 THEN 1 ELSE BASE * f[i - 1]]

LEMMA CapacityUpToExists == \A n \in Nat : \E f : CapacityUpTo(n, f)
<1> DEFINE Bad == {n \in Nat : ~ \E f : CapacityUpTo(n, f)}
<1>1. SUFFICES ASSUME Bad # {} PROVE FALSE
  OBVIOUS
<1>2. PICK n \in Bad : \A m \in Bad : n <= m
  BY <1>1, LeastNat
<1>3. CASE n = 0
  <2>1. CapacityUpTo(0, [i \in 0 .. 0 |-> 1])
    BY DEF CapacityUpTo
  <2>2. QED
    BY <1>2, <1>3, <2>1
<1>4. CASE n # 0
  <2>1. n - 1 \in Nat /\ n - 1 \notin Bad
    BY <1>2, <1>4
  <2>2. PICK g : CapacityUpTo(n - 1, g)
    BY <2>1
  <2> DEFINE f == [i \in 0 .. n |-> IF i = n THEN BASE * g[n - 1] ELSE g[i]]
  <2>3. ASSUME NEW i \in 0 .. n
        PROVE  f[i] = IF i = 0 THEN 1 ELSE BASE * f[i - 1]
    <3>1. CASE i = n
      <4>1. f[i] = BASE * g[n - 1] /\ f[i - 1] = g[n - 1]
        BY <1>2, <1>4, <2>1, <3>1
      <4> HIDE DEF f
      <4>2. QED
        BY <1>4, <3>1, <4>1
    <3>2. CASE i # n
      <4>1. i \in 0 .. n - 1 /\ f[i] = g[i] /\ (i # 0 => f[i - 1] = g[i - 1])
        BY <1>2, <3>2
      <4> HIDE DEF f
      <4>2. QED
        BY <2>2, <4>1 DEF CapacityUpTo
    <3>3. QED
      BY <3>1, <3>2
  <2>4. f = [i \in 0 .. n |-> f[i]]
    OBVIOUS
  <2> HIDE DEF f
  <2>5. CapacityUpTo(n, f)
    BY <2>3, <2>4 DEF CapacityUpTo
  <2>6. QED
    BY <1>2, <2>5
<1>5. QED
  BY <1>3, <1>4

\* ... and only one.
LEMMA CapacityUpToUnique ==
  ASSUME NEW m \in Nat, NEW n \in Nat, NEW f, NEW g, CapacityUpTo(m, f), CapacityUpTo(n, g)
  PROVE  \A i \in Nat : i <= m /\ i <= n => f[i] = g[i]
<1> DEFINE Bad == {i \in Nat : i <= m /\ i <= n /\ f[i] # g[i]}
<1>1. SUFFICES ASSUME Bad # {} PROVE FALSE
  OBVIOUS
<1>2. PICK i \in Bad : \A j \in Bad : i <= j
  BY <1>1, LeastNat
<1>3. f[i] = (IF i = 0 THEN 1 ELSE BASE * f[i - 1]) /\ g[i] = (IF i = 0 THEN 1 ELSE BASE * g[i - 1])
  BY <1>2 DEF CapacityUpTo
<1>4. i # 0 => i - 1 \in Nat /\ i - 1 <= m /\ i - 1 <= n /\ i - 1 \notin Bad
  BY <1>2
<1>5. i # 0 => f[i - 1] = g[i - 1]
  BY <1>4
<1>6. QED
  BY <1>2, <1>3, <1>5

CapacityFunction(f) == f = [digits \in Nat |-> IF digits = 0 THEN 1 ELSE BASE * f[digits - 1]]

LEMMA CapacityExists == \E f : CapacityFunction(f)
<1> DEFINE upTo(n) == CHOOSE f : CapacityUpTo(n, f)
           f == [n \in Nat |-> upTo(n)[n]]
<1>1. \A n \in Nat : CapacityUpTo(n, upTo(n))
  BY CapacityUpToExists
<1> HIDE DEF upTo
<1>2. ASSUME NEW n \in Nat PROVE f[n] = IF n = 0 THEN 1 ELSE BASE * f[n - 1]
  <2>1. f[n] = upTo(n)[n]
    OBVIOUS
  <2>2. upTo(n)[n] = IF n = 0 THEN 1 ELSE BASE * upTo(n)[n - 1]
    <3>1. CapacityUpTo(n, upTo(n))
      BY <1>1
    <3>2. n \in 0 .. n
      OBVIOUS
    <3>3. QED
      BY <3>1, <3>2 DEF CapacityUpTo
  <2>3. n # 0 => n - 1 \in Nat /\ f[n - 1] = upTo(n - 1)[n - 1]
    OBVIOUS
  <2>4. n # 0 => upTo(n)[n - 1] = upTo(n - 1)[n - 1]
    <3> SUFFICES ASSUME n # 0 PROVE upTo(n)[n - 1] = upTo(n - 1)[n - 1]
      OBVIOUS
    <3>1. n - 1 \in Nat /\ n - 1 <= n /\ n - 1 <= n - 1
      OBVIOUS
    <3>2. CapacityUpTo(n, upTo(n)) /\ CapacityUpTo(n - 1, upTo(n - 1))
      BY <1>1, <3>1
    <3>3. QED
      BY <3>1, <3>2, CapacityUpToUnique
  <2> HIDE DEF f
  <2>5. QED
    BY <2>1, <2>2, <2>3, <2>4
<1>3. f = [n \in Nat |-> f[n]]
  OBVIOUS
<1> HIDE DEF f
<1>4. CapacityFunction(f)
  BY <1>2, <1>3 DEF CapacityFunction
<1>5. QED
  BY <1>4

\* So it is the power of the alphabet's size.
LEMMA CapacityIs ==
  /\ Capacity[0] = 1
  /\ \A n \in Nat : Capacity[n + 1] = BASE * Capacity[n]
<1>1. Capacity = CHOOSE f : CapacityFunction(f)
  BY Zenon DEF Capacity, CapacityFunction
<1>2. CapacityFunction(Capacity)
  BY <1>1, CapacityExists, Zenon
<1>3. \A n \in Nat : Capacity[n] = IF n = 0 THEN 1 ELSE BASE * Capacity[n - 1]
  BY <1>2 DEF CapacityFunction
<1>4. ASSUME NEW n \in Nat PROVE Capacity[n + 1] = BASE * Capacity[n]
  <2>1. n + 1 \in Nat /\ n + 1 # 0 /\ (n + 1) - 1 = n
    OBVIOUS
  <2>2. Capacity[n + 1] = BASE * Capacity[(n + 1) - 1]
    BY <1>3, <2>1
  <2>3. QED
    BY <2>1, <2>2
<1>5. QED
  BY <1>3, <1>4

LEMMA Products ==
  ASSUME NEW a \in Int, NEW b \in Int, NEW c \in Nat, a <= b
  PROVE  a * c <= b * c
OBVIOUS

LEMMA CapacityGrows ==
  \A n \in Nat : Capacity[n] \in Nat /\ Capacity[n] > n
<1> DEFINE Bad == {n \in Nat : ~ (Capacity[n] \in Nat /\ Capacity[n] > n)}
<1>1. SUFFICES ASSUME Bad # {} PROVE FALSE
  OBVIOUS
<1>2. PICK n \in Bad : \A m \in Bad : n <= m
  BY <1>1, LeastNat
<1>3. n # 0
  BY <1>2, CapacityIs
<1>4. n - 1 \in Nat /\ n - 1 \notin Bad /\ (n - 1) + 1 = n
  BY <1>2, <1>3
<1> DEFINE c == Capacity[n - 1]
<1>5. c \in Nat /\ c > n - 1
  BY <1>4
<1>6. Capacity[n] = BASE * c
  BY <1>4, CapacityIs
<1> HIDE DEF c
<1>7. 2 * c <= BASE * c /\ BASE * c \in Nat
  BY <1>5, RankAssumption, Products
<1>8. QED
  BY <1>2, <1>3, <1>5, <1>6, <1>7

LEMMA Quotient ==
  ASSUME NEW x \in Int, NEW p \in Nat \ {0}
  PROVE  /\ x \div p \in Int
         /\ p * (x \div p) <= x /\ x < p * (x \div p) + p
OBVIOUS

LEMMA QuotientIs ==
  ASSUME NEW x \in Int, NEW p \in Nat \ {0}, NEW q \in Int, p * q <= x, x < p * q + p
  PROVE  x \div p = q
<1> DEFINE r == x \div p
<1>1. r \in Int /\ p * r <= x /\ x < p * r + p
  BY Quotient
<1> HIDE DEF r
<1>2. ~ (r <= q - 1)
  <2>1. SUFFICES ASSUME r <= q - 1 PROVE FALSE
    OBVIOUS
  <2>2. r * p <= (q - 1) * p
    BY <1>1, <2>1, Products
  <2>3. QED
    BY <1>1, <2>2
<1>3. ~ (q <= r - 1)
  <2>1. SUFFICES ASSUME q <= r - 1 PROVE FALSE
    OBVIOUS
  <2>2. q * p <= (r - 1) * p
    BY <1>1, <2>1, Products
  <2>3. QED
    BY <1>1, <2>2
<1>4. r = q
  BY <1>1, <1>2, <1>3
<1>5. QED
  BY <1>4 DEF r

\* rem //= BASE and position \div Capacity agree.
LEMMA DividedTwice ==
  ASSUME NEW x \in Int, NEW p \in Nat \ {0}, NEW b \in Nat \ {0}
  PROVE  x \div (b * p) = (x \div p) \div b
<1> DEFINE q == x \div p
           k == q \div b
<1>1. q \in Int /\ p * q <= x /\ x < p * q + p
  BY Quotient
<1> HIDE DEF q
<1>2. k \in Int /\ b * k <= q /\ q <= b * k + b - 1
  BY <1>1, Quotient
<1> HIDE DEF k
<1>3. (b * k) * p <= q * p /\ q * p <= (b * k + b - 1) * p
  BY <1>1, <1>2, Products
<1>4. b * p \in Nat \ {0}
  OBVIOUS
<1>5. (b * k) * p = (b * p) * k /\ (b * k + b - 1) * p = (b * p) * k + b * p - p /\ q * p = p * q
  BY <1>1, <1>2
<1> DEFINE bp == b * p
           bpk == bp * k
           qp == p * q
<1>6. bpk \in Int /\ bp \in Int /\ qp \in Int
  BY <1>1, <1>2
<1>7. bpk <= qp /\ qp <= bpk + bp - p
  BY <1>3, <1>5
<1>8. qp <= x /\ x < qp + p
  BY <1>1
<1> HIDE DEF bp, bpk, qp
<1>9. bpk <= x /\ x < bpk + bp
  BY <1>6, <1>7, <1>8
<1>10. (b * p) * k <= x /\ x < (b * p) * k + b * p
  BY <1>9 DEF bp, bpk
<1>11. x \div (b * p) = k
  BY <1>2, <1>4, <1>10, QuotientIs
<1>12. QED
  BY <1>11 DEF k, q

LEMMA QuotientsInOrder ==
  ASSUME NEW x \in Int, NEW y \in Int, NEW p \in Nat \ {0}, x <= y
  PROVE  x \div p <= y \div p
<1> DEFINE q == x \div p
           r == y \div p
<1>1. q \in Int /\ r \in Int /\ p * q <= x /\ x < p * q + p /\ p * r <= y /\ y < p * r + p
  BY Quotient
<1> HIDE DEF q, r
<1>2. SUFFICES ASSUME r + 1 <= q PROVE FALSE
  BY <1>1 DEF q, r
<1>3. (r + 1) * p <= q * p
  BY <1>1, <1>2, Products
<1>4. QED
  BY <1>1, <1>3

-----------------------------------------------------------------------------
\* What the first j of d digits leave of a position, and the last of them.
Leading(x, d, j) == x \div Capacity[d - j]

DigitOf(x, d, j) == (x \div Capacity[d - j]) % BASE

LEMMA Division ==
  ASSUME NEW q \in Nat, NEW b \in Nat \ {0}
  PROVE  q \div b \in Nat /\ q % b \in 0 .. b - 1 /\ q = b * (q \div b) + (q % b)
<1>1. q \div b \in Int /\ q % b \in 0 .. b - 1 /\ q = b * (q \div b) + (q % b)
  OBVIOUS
<1>2. 0 <= q \div b
  <2>1. 0 \div b = 0
    BY QuotientIs
  <2>2. 0 \div b <= q \div b
    BY QuotientsInOrder
  <2>3. QED
    BY <2>1, <2>2
<1>3. QED
  BY <1>1, <1>2

\* The digits of a position, from the first.
LEMMA LeadingGrows ==
  ASSUME NEW x \in Nat, NEW d \in Nat, NEW j \in 1 .. d
  PROVE  /\ Leading(x, d, j - 1) \in Nat /\ Leading(x, d, j) \in Nat
         /\ DigitOf(x, d, j) \in 0 .. BASE - 1
         /\ Leading(x, d, j) = BASE * Leading(x, d, j - 1) + DigitOf(x, d, j)
<1>1. d - j \in Nat /\ d - (j - 1) = (d - j) + 1
  OBVIOUS
<1> DEFINE p == Capacity[d - j]
           q == x \div p
<1>2. p \in Nat \ {0}
  <2>1. Capacity[d - j] \in Nat /\ Capacity[d - j] > d - j
    BY <1>1, CapacityGrows
  <2>2. QED
    BY <1>1, <2>1
<1>3. Capacity[d - (j - 1)] = BASE * p
  BY <1>1, CapacityIs
<1> HIDE DEF p
<1>4. BASE \in Nat \ {0} /\ x \in Int
  BY RankAssumption
<1>5. x \div (BASE * p) = q \div BASE
  BY <1>2, <1>4, DividedTwice
<1>6. q \in Nat
  BY <1>2, Division
<1>7. Leading(x, d, j) = q /\ DigitOf(x, d, j) = q % BASE
  BY DEF Leading, DigitOf, p
<1>8. Leading(x, d, j - 1) = q \div BASE
  BY <1>3, <1>5 DEF Leading
<1> HIDE DEF q
<1>9. q \div BASE \in Nat /\ q % BASE \in 0 .. BASE - 1 /\ q = BASE * (q \div BASE) + (q % BASE)
  BY <1>4, <1>6, Division
<1>10. Leading(x, d, j) = BASE * Leading(x, d, j - 1) + DigitOf(x, d, j)
  BY <1>7, <1>8, <1>9, Zenon
<1>11. QED
  BY <1>6, <1>7, <1>8, <1>9, <1>10

LEMMA LeadingEnds ==
  ASSUME NEW d \in Nat, NEW x \in Nat, x < Capacity[d]
  PROVE  Leading(x, d, 0) = 0 /\ Leading(x, d, d) = x
<1>1. Capacity[d] \in Nat \ {0} /\ d - 0 = d /\ d - d = 0
  BY CapacityGrows
<1> DEFINE c == Capacity[d]
<1> HIDE DEF c
<1>2. c \in Nat \ {0} /\ x < c
  BY <1>1 DEF c
<1>3. x \div c = 0
  BY <1>2, QuotientIs
<1>4. x \div 1 = x
  OBVIOUS
<1>5. QED
  BY <1>1, <1>3, <1>4, CapacityIs DEF Leading, c

\* A position other than 0 has a digit other than 0.
LEMMA SomeDigit ==
  ASSUME NEW d \in Nat, NEW x \in Nat \ {0}, x < Capacity[d]
  PROVE  \E j \in 1 .. d : DigitOf(x, d, j) # 0
<1> DEFINE Good == {j \in Nat : j <= d /\ Leading(x, d, j) # 0}
<1>1. d \in Good /\ Leading(x, d, 0) = 0
  BY LeadingEnds
<1>2. PICK j \in Good : \A i \in Good : j <= i
  BY <1>1, LeastNat
<1>3. j \in 1 .. d
  BY <1>1, <1>2
<1>4. j - 1 \in Nat /\ j - 1 \notin Good
  BY <1>2, <1>3
<1>5. Leading(x, d, j - 1) = 0 /\ Leading(x, d, j) # 0
  BY <1>2, <1>3, <1>4
<1>6. DigitOf(x, d, j) # 0
  BY <1>3, <1>5, LeadingGrows, RankAssumption
<1>7. QED
  BY <1>3, <1>6

\* _to_key: the digits up to the last one that is not 0.
LEMMA ToKeyIs ==
  ASSUME NEW d \in Nat, NEW x \in Nat \ {0}, x < Capacity[d]
  PROVE  \E l \in 1 .. d :
           /\ ToKey(x, d) = [j \in 1 .. l |-> DigitOf(x, d, j)]
           /\ DigitOf(x, d, l) # 0
           /\ \A j \in l + 1 .. d : DigitOf(x, d, j) = 0
<1> DEFINE Ends(l) == /\ l = 1 \/ DigitOf(x, d, l) # 0
                      /\ \A j \in l + 1 .. d : DigitOf(x, d, j) = 0
           Away == {i \in Nat : i < d /\ DigitOf(x, d, d - i) # 0}
           len == CHOOSE l \in 1 .. d : Ends(l)
<1>1. PICK k \in 1 .. d : DigitOf(x, d, k) # 0
  BY SomeDigit
<1>2. \E l \in 1 .. d : Ends(l)
  <2>1. d - k \in Away
    <3>1. d - k \in Nat /\ d - k < d /\ d - (d - k) = k
      OBVIOUS
    <3>2. QED
      BY <1>1, <3>1
  <2>2. PICK i \in Away : \A m \in Away : i <= m
    BY <2>1, LeastNat
  <2>3. d - i \in 1 .. d /\ DigitOf(x, d, d - i) # 0
    BY <2>2
  <2>4. ASSUME NEW j \in (d - i) + 1 .. d PROVE DigitOf(x, d, j) = 0
    <3>1. d - j \in Nat /\ d - j < i /\ d - j < d /\ d - (d - j) = j
      BY <2>2, <2>3
    <3>2. d - j \notin Away
      BY <2>2, <3>1
    <3>3. QED
      BY <3>1, <3>2
  <2>5. QED
    BY <2>3, <2>4
<1>3. len \in 1 .. d /\ Ends(len)
  BY <1>2
<1>4. ToKey(x, d) = [j \in 1 .. len |-> DigitOf(x, d, j)]
  BY DEF ToKey, DigitOf
<1> HIDE DEF len
<1>5. DigitOf(x, d, len) # 0
  <2>1. k <= len
    BY <1>1, <1>3
  <2>2. QED
    BY <1>1, <1>3, <2>1
<1>6. QED
  BY <1>3, <1>4, <1>5

\* Greater positions have greater keys.
LEMMA ToKeysInOrder ==
  ASSUME NEW d \in Nat, NEW x \in Nat \ {0}, NEW y \in Nat \ {0}, x < y, y < Capacity[d]
  PROVE  Less(ToKey(x, d), ToKey(y, d))
<1>0. Capacity[d] \in Nat /\ x < Capacity[d]
  BY CapacityGrows
<1>1. PICK l \in 1 .. d :
        /\ ToKey(x, d) = [j \in 1 .. l |-> DigitOf(x, d, j)]
        /\ \A j \in l + 1 .. d : DigitOf(x, d, j) = 0
  BY <1>0, ToKeyIs
<1>2. PICK m \in 1 .. d :
        /\ ToKey(y, d) = [j \in 1 .. m |-> DigitOf(y, d, j)]
        /\ \A j \in m + 1 .. d : DigitOf(y, d, j) = 0
  BY ToKeyIs
<1> DEFINE a == ToKey(x, d)
           b == ToKey(y, d)
<1>3. /\ Len(a) = l /\ \A j \in 1 .. l : a[j] = DigitOf(x, d, j)
      /\ Len(b) = m /\ \A j \in 1 .. m : b[j] = DigitOf(y, d, j)
  BY <1>1, <1>2
<1> HIDE DEF a, b
<1> DEFINE Apart == {j \in Nat : j <= d /\ Leading(x, d, j) # Leading(y, d, j)}
<1>4. d \in Apart /\ Leading(x, d, 0) = Leading(y, d, 0)
  BY <1>0, LeadingEnds
<1>5. PICK k \in Apart : \A i \in Apart : k <= i
  BY <1>4, LeastNat
<1>6. k \in 1 .. d
  BY <1>4, <1>5
<1>7. \A i \in 0 .. k - 1 : Leading(x, d, i) = Leading(y, d, i)
  BY <1>5, <1>6
<1>8. \A i \in 1 .. k - 1 : DigitOf(x, d, i) = DigitOf(y, d, i)
  BY <1>6, <1>7 DEF Leading, DigitOf
<1>9. DigitOf(x, d, k) < DigitOf(y, d, k)
  <2>1. Leading(x, d, k) <= Leading(y, d, k)
    <3>1. Capacity[d - k] \in Nat \ {0} /\ x \in Int /\ y \in Int /\ x <= y
      BY <1>6, CapacityGrows
    <3>2. QED
      BY <3>1, QuotientsInOrder DEF Leading
  <2>2. Leading(x, d, k) # Leading(y, d, k) /\ Leading(x, d, k - 1) = Leading(y, d, k - 1)
    BY <1>5, <1>6, <1>7
  <2> DEFINE u == Leading(x, d, k - 1)
  <2>3. /\ u \in Nat /\ DigitOf(x, d, k) \in 0 .. BASE - 1 /\ DigitOf(y, d, k) \in 0 .. BASE - 1
        /\ Leading(x, d, k) = BASE * u + DigitOf(x, d, k)
        /\ Leading(y, d, k) = BASE * u + DigitOf(y, d, k)
    BY <1>6, <2>2, LeadingGrows
  <2> HIDE DEF u
  <2>4. BASE * u \in Int
    BY <2>3, RankAssumption
  <2>5. QED
    BY <2>1, <2>2, <2>3, <2>4, RankAssumption
<1>10. DigitOf(x, d, k) \in Nat /\ DigitOf(y, d, k) \in Nat
  BY <1>6, LeadingGrows, RankAssumption
<1>11. k <= m
  BY <1>2, <1>6, <1>9, <1>10
<1>12. CASE k <= l
  <2>1. k \in 1 .. Len(b)
    BY <1>3, <1>6, <1>11
  <2>2. \A j \in 1 .. k - 1 : j <= Len(a) /\ a[j] = b[j]
    BY <1>3, <1>6, <1>8, <1>11, <1>12
  <2>3. a[k] < b[k]
    BY <1>3, <1>6, <1>9, <1>11, <1>12
  <2>4. QED
    BY <2>1, <2>2, <2>3 DEF Less, a, b
<1>13. CASE l < k
  <2>1. l + 1 \in 1 .. Len(b) /\ l + 1 > Len(a)
    BY <1>3, <1>6, <1>11, <1>13
  <2>2. \A j \in 1 .. (l + 1) - 1 : j <= Len(a) /\ a[j] = b[j]
    BY <1>3, <1>6, <1>8, <1>11, <1>13
  <2>3. QED
    BY <2>1, <2>2 DEF Less, a, b
<1>14. QED
  BY <1>6, <1>12, <1>13

-----------------------------------------------------------------------------
LEMMA DigitCountIs ==
  ASSUME NEW count \in Nat \ {0}
  PROVE  /\ DigitCount(count) \in 1 .. 4 * count
         /\ Capacity[DigitCount(count)] >= 4 * count
         /\ \A e \in 1 .. DigitCount(count) - 1 : Capacity[e] < 4 * count
<1> DEFINE Enough == {d \in Nat : d # 0 /\ Capacity[d] >= 4 * count}
<1>1. 4 * count \in Enough
  <2>1. 4 * count \in Nat /\ 4 * count # 0
    OBVIOUS
  <2>2. Capacity[4 * count] \in Nat /\ Capacity[4 * count] > 4 * count
    BY <2>1, CapacityGrows
  <2>3. QED
    BY <2>1, <2>2
<1>2. PICK d \in Enough : \A e \in Enough : d <= e
  BY <1>1, LeastNat
<1>3. d \in 1 .. 4 * count /\ Capacity[d] >= 4 * count
  BY <1>1, <1>2
<1>4. ASSUME NEW e \in 1 .. d - 1 PROVE Capacity[e] < 4 * count
  <2>1. e \in Nat /\ e # 0 /\ e \notin Enough /\ Capacity[e] \in Nat
    BY <1>2, <1>3, CapacityGrows
  <2>2. QED
    BY <2>1
<1>5. \E x \in 1 .. 4 * count : /\ Capacity[x] >= 4 * count
                                /\ \A e \in 1 .. x - 1 : Capacity[e] < 4 * count
  BY <1>3, <1>4
<1>6. QED
  BY <1>5 DEF DigitCount

\* The places of count keys among so many: none is the first, and they increase.
LEMMA Spread ==
  ASSUME NEW count \in Nat \ {0}, NEW places \in Nat, places >= 4 * count
  PROVE  /\ \A i \in 1 .. count :
              /\ (i * places) \div (count + 1) \in Nat \ {0}
              /\ (i * places) \div (count + 1) < places
         /\ \A i, j \in 1 .. count :
              i < j => (i * places) \div (count + 1) < (j * places) \div (count + 1)
<1> DEFINE n == count + 1
           place(i) == (i * places) \div n
<1>1. n \in Nat \ {0} /\ n <= places
  OBVIOUS
<1> HIDE DEF n
<1>2. \A i \in Int : /\ place(i) \in Int /\ i * places \in Int
                     /\ n * place(i) <= i * places
                     /\ i * places < n * place(i) + n
  BY <1>1, Quotient
<1>3. ASSUME NEW i \in Int, NEW j \in Int, i < j PROVE place(i) < place(j)
  <2> DEFINE p == place(i)
             q == place(j)
             ip == i * places
             jp == j * places
  <2>1. p \in Int /\ q \in Int /\ ip \in Int /\ jp \in Int
    BY <1>2
  <2>2. n * p <= ip /\ ip < n * p + n /\ n * q <= jp /\ jp < n * q + n
    BY <1>2
  <2>3. ip + places <= jp
    <3>1. (i + 1) * places <= j * places
      BY <1>3, Products
    <3>2. QED
      BY <3>1
  <2> HIDE DEF p, q, ip, jp
  <2>4. n * p + n <= jp
    <3>1. n * p \in Int
      BY <1>1, <2>1
    <3>2. QED
      BY <1>1, <2>1, <2>2, <2>3, <3>1
  <2>5. SUFFICES ASSUME q <= p PROVE FALSE
    BY <2>1 DEF p, q
  <2>6. q * n <= p * n
    BY <1>1, <2>1, <2>5, Products
  <2>7. n * q <= n * p /\ n * q \in Int /\ n * p \in Int
    BY <1>1, <2>1, <2>6
  <2>8. QED
    BY <1>1, <2>1, <2>2, <2>4, <2>7
<1>4. place(0) = 0 /\ place(n) = places
  <2>1. 0 * places = 0 /\ n * places \in Int
    BY <1>1
  <2>2. 0 \div n = 0
    BY <1>1, QuotientIs
  <2>3. (n * places) \div n = places
    <3>1. n * places <= n * places /\ n * places < n * places + n
      BY <1>1
    <3>2. QED
      BY <1>1, <2>1, <3>1, QuotientIs
  <2>4. QED
    BY <2>1, <2>2, <2>3
<1> HIDE DEF place
<1>5. ASSUME NEW i \in 1 .. count PROVE place(i) \in Nat \ {0} /\ place(i) < places
  <2>1. i \in Int /\ 0 < i /\ i < n
    BY DEF n
  <2>2. place(0) < place(i) /\ place(i) < place(n)
    BY <1>1, <1>3, <2>1
  <2>3. QED
    BY <1>2, <1>4, <2>1, <2>2
<1>6. QED
  BY <1>3, <1>5 DEF place, n

\* rebalanced_sequence: where there is room for four times as many keys, it gives keys that
\* fit the column, none of them ends in '0', and each comes after the one before it.
THEOREM RebalancedKeysIncrease ==
  ASSUME NEW count \in Nat \ {0}, Capacity[MAX_LENGTH] >= 4 * count
  PROVE  /\ DOMAIN RebalancedSequence(count) = 1 .. count
         /\ \A i \in 1 .. count : RebalancedSequence(count)[i] \in Rank
         /\ \A i, j \in 1 .. count :
              i < j => Less(RebalancedSequence(count)[i], RebalancedSequence(count)[j])
<1> DEFINE d == DigitCount(count)
           place(i) == (i * Capacity[d]) \div (count + 1)
<1>1. d \in Nat /\ d # 0 /\ Capacity[d] >= 4 * count /\ Capacity[d] \in Nat
  BY DigitCountIs, CapacityGrows
<1>2. d <= MAX_LENGTH
  <2>1. SUFFICES ASSUME MAX_LENGTH < d PROVE FALSE
    BY <1>1, RankAssumption
  <2>2. MAX_LENGTH \in 1 .. d - 1 /\ Capacity[MAX_LENGTH] \in Nat
    BY <1>1, <2>1, RankAssumption, CapacityGrows
  <2>3. Capacity[MAX_LENGTH] < 4 * count
    BY <2>2, DigitCountIs
  <2>4. QED
    BY <2>2, <2>3
<1>3. /\ DOMAIN RebalancedSequence(count) = 1 .. count
      /\ \A i \in 1 .. count : RebalancedSequence(count)[i] = ToKey(place(i), d)
  BY DEF RebalancedSequence
<1> HIDE DEF d
<1>4. /\ \A i \in 1 .. count : place(i) \in Nat \ {0} /\ place(i) < Capacity[d]
      /\ \A i, j \in 1 .. count : i < j => place(i) < place(j)
  BY <1>1, Spread
<1> HIDE DEF place
<1>5. ASSUME NEW i \in 1 .. count PROVE ToKey(place(i), d) \in Rank
  <2>1. PICK l \in 1 .. d :
          /\ ToKey(place(i), d) = [j \in 1 .. l |-> DigitOf(place(i), d, j)]
          /\ DigitOf(place(i), d, l) # 0
    BY <1>1, <1>4, ToKeyIs
  <2>2. ASSUME NEW j \in 1 .. l PROVE DigitOf(place(i), d, j) \in 0 .. BASE - 1
    <3>1. place(i) \in Nat /\ j \in 1 .. d
      BY <1>1, <1>4
    <3>2. QED
      BY <1>1, <3>1, LeadingGrows
  <2> DEFINE key == [j \in 1 .. l |-> DigitOf(place(i), d, j)]
  <2>3. key \in Seq(Digit) /\ Len(key) = l /\ key[l] # 0
    BY <2>1, <2>2 DEF Digit
  <2>4. l \in 1 .. MAX_LENGTH
    BY <1>1, <1>2, RankAssumption
  <2> HIDE DEF key
  <2>5. key \in Rank
    BY <2>3, <2>4 DEF Rank
  <2>6. QED
    BY <2>1, <2>5 DEF key
<1>6. ASSUME NEW i \in 1 .. count, NEW j \in 1 .. count, i < j
      PROVE  Less(ToKey(place(i), d), ToKey(place(j), d))
  BY <1>1, <1>4, <1>6, ToKeysInOrder
<1>7. QED
  BY <1>3, <1>5, <1>6

=============================================================================
