----------------------------- MODULE ShelfRank -----------------------------
(***************************************************************************)
(* The order keys of app/core/shelf_rank.py.  A book's place on its shelf  *)
(* is a string over an alphabet of BASE characters, compared the way       *)
(* Python and the database compare strings; a character is modelled by its *)
(* index in ALPHABET.  `between` is given here in closed form, so that it  *)
(* can be reasoned about; ShelfRankLoop has the loop itself and shows that *)
(* the two agree.                                                          *)
(***************************************************************************)
EXTENDS Integers, Sequences

CONSTANTS BASE,       \* number of characters of the alphabet (62 in the code)
          MAX_LENGTH  \* longest key `between` will build (128 in the code)

ASSUME RankAssumption == /\ BASE \in Nat /\ BASE >= 2
                         /\ MAX_LENGTH \in Nat \ {0}

\* The key of no book: Python's None for a missing neighbour.
None == << >>

Digit == 0 .. BASE - 1

\* The keys the code stores.  None of its constructors ever ends a key in the
\* character '0', the smallest one.
Rank == {r \in Seq(Digit) : Len(r) \in 1 .. MAX_LENGTH /\ r[Len(r)] # 0}

\* String comparison a < b: a is a proper prefix of b, or is smaller where the
\* two first differ.
Less(a, b) ==
  \E i \in 1 .. Len(b) :
    /\ \A j \in 1 .. i - 1 : j <= Len(a) /\ a[j] = b[j]
    /\ i > Len(a) \/ a[i] < b[i]

DigitAt(r, i) == IF i <= Len(r) THEN r[i] ELSE 0

\* The loop of `between` copies digits from the left.  While the two keys agree
\* it stays under the next key's digits ...
Agree(p, n, k) ==
  n # None /\ \A j \in 1 .. k - 1 : DigitAt(n, j) = DigitAt(p, j)

\* ... and position c releases it from them (`upper_unbounded`): it takes the
\* lower of two adjacent digits there, or there is no next key at all.
Released(p, n, c) ==
  IF n = None THEN c = 0
              ELSE c > 0 /\ Agree(p, n, c) /\ DigitAt(n, c) - DigitAt(p, c) = 1

\* The loop arrives at position k without having stopped: past the release
\* only a largest digit makes it go on.
Reaches(p, n, k) ==
  \/ Agree(p, n, k)
  \/ \E c \in 0 .. k - 1 :
       Released(p, n, c) /\ \A j \in c + 1 .. k - 1 : DigitAt(p, j) = BASE - 1

Gap(p, n, k) ==
  (IF Agree(p, n, k) THEN DigitAt(n, k) ELSE BASE) - DigitAt(p, k)

StopsAt(p, n, k) == Reaches(p, n, k) /\ Gap(p, n, k) > 1

\* `between` raises ValueError.
OutOfOrder(p, n) == p # None /\ n # None /\ ~ Less(p, n)

\* `between` returns; without room it raises ShelfRankExhaustedException.
HasRoom(p, n) == \E k \in 1 .. MAX_LENGTH : StopsAt(p, n, k)

\* The key `between` returns when neither exception is raised.
Between(p, n) ==
  LET k == CHOOSE x \in 1 .. MAX_LENGTH : StopsAt(p, n, x)
  IN  [i \in 1 .. k |-> IF i < k THEN DigitAt(p, i)
                                 ELSE DigitAt(p, k) + Gap(p, n, k) \div 2]

Initial == <<BASE \div 2>>

After(p) == Between(p, None)

-----------------------------------------------------------------------------
\* rebalanced_sequence: how many keys there are of so many digits ...
Capacity[digits \in Nat] == IF digits = 0 THEN 1 ELSE BASE * Capacity[digits - 1]

\* ... the fewest digits with four places for every key ...
DigitCount(count) ==
  CHOOSE d \in 1 .. 4 * count :
    /\ Capacity[d] >= 4 * count
    /\ \A e \in 1 .. d - 1 : Capacity[e] < 4 * count

\* ... _to_key: a position written with d digits, trailing zeros dropped ...
ToKey(position, d) ==
  LET digit(j) == (position \div Capacity[d - j]) % BASE
      len == CHOOSE l \in 1 .. d :
               /\ l = 1 \/ digit(l) # 0
               /\ \A j \in l + 1 .. d : digit(j) = 0
  IN  [j \in 1 .. len |-> digit(j)]

\* ... and count keys spread evenly over them.
RebalancedSequence(count) ==
  LET d == DigitCount(count)
  IN  [i \in 1 .. count |-> ToKey((i * Capacity[d]) \div (count + 1), d)]

=============================================================================
