------------------------ MODULE BookshelfOrderProofs ------------------------
(***************************************************************************)
(* Bookshelf implements ShelfOrder: requests that run one at a time edit   *)
(* the sequences of books exactly as their operations promise, for every   *)
(* number of shelves and books and every alphabet.  And so do              *)
(* registrations that overlap, but for what a second attempt can do.       *)
(***************************************************************************)
EXTENDS BookshelfAlone, BookshelfProofs

(* What an edit of a shelf's sequence makes of the list of its books in the *)
(* order of their keys.                                                     *)

Lists(key, q, S) == ListOf(q, S) /\ Increasing(key, q)

KeyedBy(key, S) == \A b \in S : key[b] \in Rank

LEMMA ListsIs ==
  ASSUME NEW key, NEW S, KeyedBy(key, S), NEW q, Lists(key, q, S)
  PROVE  q = InOrder(key, S)
BY InOrderIs DEF Lists, KeyedBy

\* No book is listed twice.
LEMMA ListsOnce ==
  ASSUME NEW key, NEW S, KeyedBy(key, S), NEW q, Lists(key, q, S)
  PROVE  /\ q \in Seq(S) /\ Len(q) \in Nat
         /\ \A i \in 1 .. Len(q) : q[i] \in S
         /\ \A b \in S : \E i \in 1 .. Len(q) : q[i] = b
         /\ \A i, j \in 1 .. Len(q) : q[i] = q[j] => i = j
         /\ \A i, j \in 1 .. Len(q) : i < j => Less(key[q[i]], key[q[j]])
<1>1. /\ q \in Seq(S) /\ Len(q) \in Nat
      /\ \A b \in S : \E i \in 1 .. Len(q) : q[i] = b
      /\ \A i, j \in 1 .. Len(q) : i < j => Less(key[q[i]], key[q[j]])
  BY DEF Lists, ListOf, Increasing
<1>2. \A i \in 1 .. Len(q) : q[i] \in S
  BY <1>1
<1>3. ASSUME NEW i \in 1 .. Len(q), NEW j \in 1 .. Len(q), q[i] = q[j]
      PROVE  i = j
  <2>1. ~ Less(key[q[i]], key[q[j]]) /\ ~ Less(key[q[j]], key[q[i]])
    BY <1>2, <1>3, LessIrreflexive DEF KeyedBy
  <2>2. QED
    BY <1>1, <2>1
<1>4. QED
  BY <1>1, <1>2, <1>3

\* New keys in the order of the old ones.
LEMMA Rekeyed ==
  ASSUME NEW key, NEW new, NEW S, NEW q, Lists(key, q, S),
         \A b, c \in S : Less(key[b], key[c]) => Less(new[b], new[c])
  PROVE  Lists(new, q, S)
<1>1. q \in Seq(S) /\ \A i \in 1 .. Len(q) : q[i] \in S
  BY DEF Lists, ListOf
<1>2. QED
  BY <1>1 DEF Lists, Increasing

LEMMA NoneListed ==
  ASSUME NEW key
  PROVE  Lists(key, << >>, {})
BY DEF Lists, ListOf, Increasing

LEMMA ListAppended ==
  ASSUME NEW key, NEW S, NEW q, Lists(key, q, S), NEW b, \A c \in S : Less(key[c], key[b])
  PROVE  Lists(key, Append(q, b), S \cup {b})
<1> DEFINE l == Append(q, b)
           T == S \cup {b}
<1>1. /\ q \in Seq(S) /\ Len(q) \in Nat
      /\ \A i \in 1 .. Len(q) : q[i] \in S
      /\ \A c \in S : \E i \in 1 .. Len(q) : q[i] = c
      /\ \A i, j \in 1 .. Len(q) : i < j => Less(key[q[i]], key[q[j]])
  BY DEF Lists, ListOf, Increasing
<1>2. /\ l \in Seq(T) /\ Len(l) = Len(q) + 1
      /\ \A i \in 1 .. Len(q) : l[i] = q[i]
      /\ l[Len(q) + 1] = b
  <2>1. q \in Seq(T) /\ b \in T
    BY <1>1
  <2>2. QED
    BY <2>1
<1> HIDE DEF l
<1>3. \A c \in T : \E i \in 1 .. Len(l) : l[i] = c
  BY <1>1, <1>2
<1>4. ASSUME NEW i \in 1 .. Len(l), NEW j \in 1 .. Len(l), i < j
      PROVE  Less(key[l[i]], key[l[j]])
  <2>1. i \in 1 .. Len(q) /\ l[i] = q[i]
    BY <1>1, <1>2, <1>4
  <2>2. CASE j \in 1 .. Len(q)
    BY <1>1, <1>2, <1>4, <2>1, <2>2
  <2>3. CASE j = Len(q) + 1
    BY <1>1, <1>2, <2>1, <2>3
  <2>4. QED
    BY <1>1, <1>2, <2>2, <2>3
<1>5. QED
  BY <1>2, <1>3, <1>4 DEF Lists, ListOf, Increasing, l

LEMMA Joined ==
  ASSUME NEW S, NEW a \in Seq(S), NEW b \in Seq(S)
  PROVE  /\ a \o b \in Seq(S) /\ Len(a \o b) = Len(a) + Len(b)
         /\ \A i \in 1 .. Len(a) : (a \o b)[i] = a[i]
         /\ \A i \in 1 .. Len(b) : (a \o b)[Len(a) + i] = b[i]
OBVIOUS

LEMMA SameSequence ==
  ASSUME NEW S, NEW a \in Seq(S), NEW b \in Seq(S), Len(a) = Len(b),
         \A i \in 1 .. Len(a) : a[i] = b[i]
  PROVE  a = b
OBVIOUS

LEMMA ListsJoined ==
  ASSUME NEW key, NEW S, NEW q, Lists(key, q, S), NEW T, NEW p, Lists(key, p, T),
         \A b \in S, c \in T : Less(key[b], key[c])
  PROVE  Lists(key, q \o p, S \cup T)
<1> DEFINE l == q \o p
           U == S \cup T
<1>1. /\ q \in Seq(S) /\ Len(q) \in Nat
      /\ \A i \in 1 .. Len(q) : q[i] \in S
      /\ \A c \in S : \E i \in 1 .. Len(q) : q[i] = c
      /\ \A i, j \in 1 .. Len(q) : i < j => Less(key[q[i]], key[q[j]])
  BY DEF Lists, ListOf, Increasing
<1>2. /\ p \in Seq(T) /\ Len(p) \in Nat
      /\ \A i \in 1 .. Len(p) : p[i] \in T
      /\ \A c \in T : \E i \in 1 .. Len(p) : p[i] = c
      /\ \A i, j \in 1 .. Len(p) : i < j => Less(key[p[i]], key[p[j]])
  BY DEF Lists, ListOf, Increasing
<1>3. /\ l \in Seq(U) /\ Len(l) = Len(q) + Len(p)
      /\ \A i \in 1 .. Len(q) : l[i] = q[i]
      /\ \A i \in 1 .. Len(p) : l[Len(q) + i] = p[i]
  <2>1. q \in Seq(U) /\ p \in Seq(U)
    BY <1>1, <1>2
  <2>2. QED
    BY <2>1
<1> HIDE DEF l
<1>4. \A c \in U : \E i \in 1 .. Len(l) : l[i] = c
  <2>1. ASSUME NEW c \in S PROVE \E i \in 1 .. Len(l) : l[i] = c
    BY <1>1, <1>2, <1>3
  <2>2. ASSUME NEW c \in T PROVE \E i \in 1 .. Len(l) : l[i] = c
    <3>1. PICK i \in 1 .. Len(p) : p[i] = c
      BY <1>2
    <3>2. Len(q) + i \in 1 .. Len(l)
      BY <1>1, <1>2, <1>3
    <3>3. l[Len(q) + i] = c
      BY <1>3, <3>1
    <3>4. QED
      BY <3>2, <3>3
  <2>3. QED
    BY <2>1, <2>2
<1>5. ASSUME NEW i \in 1 .. Len(l), NEW j \in 1 .. Len(l), i < j
      PROVE  Less(key[l[i]], key[l[j]])
  <2>1. CASE j \in 1 .. Len(q)
    <3>1. i \in 1 .. Len(q)
      BY <1>1, <1>3, <1>5, <2>1
    <3>2. l[i] = q[i] /\ l[j] = q[j]
      BY <1>3, <2>1, <3>1
    <3>3. QED
      BY <1>1, <1>5, <2>1, <3>1, <3>2
  <2>2. CASE i \notin 1 .. Len(q)
    <3>1. /\ i - Len(q) \in 1 .. Len(p) /\ j - Len(q) \in 1 .. Len(p)
          /\ i = Len(q) + (i - Len(q)) /\ j = Len(q) + (j - Len(q))
          /\ i - Len(q) < j - Len(q)
      BY <1>1, <1>2, <1>3, <1>5, <2>2
    <3>2. l[i] = p[i - Len(q)] /\ l[j] = p[j - Len(q)]
      BY <1>3, <3>1
    <3>3. QED
      BY <1>2, <3>1, <3>2
  <2>3. CASE i \in 1 .. Len(q) /\ j \notin 1 .. Len(q)
    <3>1. j - Len(q) \in 1 .. Len(p) /\ j = Len(q) + (j - Len(q))
      BY <1>1, <1>2, <1>3, <2>3
    <3>2. l[i] \in S /\ l[j] \in T
      BY <1>1, <1>2, <1>3, <2>3, <3>1
    <3>3. QED
      BY <3>2
  <2>4. QED
    BY <1>5, <2>1, <2>2, <2>3
<1>6. QED
  BY <1>3, <1>4, <1>5 DEF Lists, ListOf, Increasing, l

\* A sequence with one of its books taken out.
Without(q, k) == SubSeq(q, 1, k - 1) \o SubSeq(q, k + 1, Len(q))

LEMMA WithoutIs ==
  ASSUME NEW S, NEW q \in Seq(S), NEW k \in 1 .. Len(q)
  PROVE  /\ Len(q) \in Nat
         /\ Without(q, k) \in Seq(S) /\ Len(Without(q, k)) = Len(q) - 1
         /\ \A i \in 1 .. k - 1 : Without(q, k)[i] = q[i]
         /\ \A i \in k .. Len(q) - 1 : Without(q, k)[i] = q[i + 1]
<1> DEFINE a == SubSeq(q, 1, k - 1)
           b == SubSeq(q, k + 1, Len(q))
<1>1. Len(q) \in Nat /\ k \in Nat
  OBVIOUS
<1>2. a \in Seq(S) /\ Len(a) = k - 1 /\ \A i \in 1 .. k - 1 : a[i] = q[i]
  BY <1>1
<1>3. b \in Seq(S) /\ Len(b) = Len(q) - k /\ \A i \in 1 .. Len(q) - k : b[i] = q[k + i]
  BY <1>1
<1> HIDE DEF a, b
<1>4. /\ a \o b \in Seq(S) /\ Len(a \o b) = Len(q) - 1
      /\ \A i \in 1 .. k - 1 : (a \o b)[i] = q[i]
  <2>1. a \o b \in Seq(S) /\ Len(a \o b) = Len(a) + Len(b)
    BY <1>2, <1>3, Joined
  <2>2. ASSUME NEW i \in 1 .. k - 1 PROVE (a \o b)[i] = q[i]
    <3>1. i \in 1 .. Len(a) /\ i \in 1 .. Len(a) + Len(b)
      BY <1>1, <1>2, <1>3
    <3>2. QED
      BY <1>2, <1>3, <3>1
  <2>3. QED
    BY <1>1, <1>2, <1>3, <2>1, <2>2
<1>5. ASSUME NEW i \in k .. Len(q) - 1 PROVE (a \o b)[i] = q[i + 1]
  <2>1. i - (k - 1) \in 1 .. Len(q) - k /\ i = Len(a) + (i - (k - 1)) /\ i \in 1 .. Len(a) + Len(b)
    BY <1>1, <1>2, <1>3
  <2>2. (a \o b)[i] = b[i - (k - 1)]
    BY <1>2, <1>3, <2>1
  <2>3. b[i - (k - 1)] = q[k + (i - (k - 1))] /\ k + (i - (k - 1)) = i + 1
    BY <1>1, <1>3, <2>1
  <2>4. QED
    BY <2>2, <2>3
<1>6. QED
  BY <1>1, <1>4, <1>5 DEF Without, a, b

\* Where a book is found.
First(q, b) == LET I == {i \in 1 .. Len(q) : q[i] = b} IN IF I # {} THEN Order!Min(I) ELSE 0

LEMMA FoundFirst ==
  ASSUME NEW q, NEW k \in 1 .. Len(q), Len(q) \in Nat, NEW b, q[k] = b,
         \A i, j \in 1 .. Len(q) : q[i] = q[j] => i = j
  PROVE  First(q, b) = k
<1>1. {i \in 1 .. Len(q) : q[i] = b} = {k}
  OBVIOUS
<1>2. k \in Int
  OBVIOUS
<1>3. Order!Min({k}) = k
  BY <1>2 DEF Order!Min
<1>4. QED
  BY <1>1, <1>3 DEF First

LEMMA FoundAt ==
  ASSUME NEW S, NEW q \in Seq(S), NEW k \in 1 .. Len(q),
         \A i, j \in 1 .. Len(q) : q[i] = q[j] => i = j
  PROVE  Order!RemoveFirst(q, q[k]) = Without(q, k)
<1>1. \E i \in 1 .. Len(q) : q[i] = q[k]
  OBVIOUS
<1>2. Order!SelectInSeq(q, LAMBDA x : x = q[k]) = k
  BY DEF Order!SelectInSeq, Order!Min
<1>3. QED
  BY <1>1, <1>2 DEF Order!RemoveFirst, Order!RemoveAt, Without

\* Put back, it makes the sequence whole.
LEMMA PutBack ==
  ASSUME NEW S, NEW q \in Seq(S), NEW k \in 1 .. Len(q)
  PROVE  Order!InsertAt(Without(q, k), k, q[k]) = q
<1> DEFINE w == Without(q, k)
           a == SubSeq(w, 1, k - 1)
           b == SubSeq(w, k, Len(w))
           m == <<q[k]>>
<1>1. /\ Len(q) \in Nat /\ k \in Nat
      /\ w \in Seq(S) /\ Len(w) = Len(q) - 1
      /\ \A i \in 1 .. k - 1 : w[i] = q[i]
      /\ \A i \in k .. Len(q) - 1 : w[i] = q[i + 1]
  BY WithoutIs
<1> HIDE DEF w
<1>2. a \in Seq(S) /\ Len(a) = k - 1 /\ \A i \in 1 .. k - 1 : a[i] = q[i]
  BY <1>1
<1>3. b \in Seq(S) /\ Len(b) = Len(q) - k /\ \A i \in 1 .. Len(q) - k : b[i] = w[k + i - 1]
  BY <1>1
<1>4. m \in Seq(S) /\ Len(m) = 1 /\ m[1] = q[k]
  OBVIOUS
<1> HIDE DEF a, b, m
<1> DEFINE c == a \o m
<1>5. /\ c \in Seq(S) /\ Len(c) = k
      /\ \A i \in 1 .. k : c[i] = q[i]
  <2>1. /\ c \in Seq(S) /\ Len(c) = Len(a) + 1
        /\ \A i \in 1 .. Len(a) : c[i] = a[i]
        /\ c[Len(a) + 1] = m[1]
    <3>1. a \in Seq(S) /\ m \in Seq(S)
      BY <1>2, <1>4
    <3>2. /\ c \in Seq(S) /\ Len(c) = Len(a) + Len(m)
          /\ \A i \in 1 .. Len(a) : c[i] = a[i]
          /\ \A i \in 1 .. Len(m) : c[Len(a) + i] = m[i]
      BY <3>1, Joined
    <3> HIDE DEF c
    <3>3. 1 \in 1 .. Len(m)
      BY <1>4
    <3>4. QED
      BY <1>4, <3>2, <3>3
  <2> HIDE DEF c
  <2>2. ASSUME NEW i \in 1 .. k PROVE c[i] = q[i]
    <3>1. i = k \/ i \in 1 .. k - 1
      BY <1>1
    <3>2. CASE i = k
      BY <1>1, <1>2, <1>4, <2>1, <3>2
    <3>3. CASE i \in 1 .. k - 1
      BY <1>2, <2>1, <3>3
    <3>4. QED
      BY <3>1, <3>2, <3>3
  <2>3. QED
    BY <1>1, <1>2, <2>1, <2>2
<1> HIDE DEF c
<1>6. c \o b \in Seq(S) /\ Len(c \o b) = Len(q)
  <2>1. c \o b \in Seq(S) /\ Len(c \o b) = Len(c) + Len(b)
    BY <1>3, <1>5, Joined
  <2>2. QED
    BY <1>1, <1>3, <1>5, <2>1
<1>7. ASSUME NEW i \in 1 .. Len(q) PROVE (c \o b)[i] = q[i]
  <2>1. i \in 1 .. Len(c) + Len(b)
    BY <1>1, <1>3, <1>5
  <2>2. CASE i \in 1 .. k
    BY <1>3, <1>5, <2>1, <2>2
  <2>3. CASE i \notin 1 .. k
    <3>1. /\ i - k \in 1 .. Len(q) - k /\ i - 1 \in k .. Len(q) - 1
          /\ k + (i - k) - 1 = i - 1 /\ (i - 1) + 1 = i
      BY <1>1, <2>3
    <3>2. (c \o b)[i] = b[i - k]
      BY <1>3, <1>5, <2>1, <2>3
    <3>3. b[i - k] = w[i - 1] /\ w[i - 1] = q[i]
      BY <1>1, <1>3, <3>1
    <3>4. QED
      BY <3>2, <3>3
  <2>4. QED
    BY <2>2, <2>3
<1>8. c \o b = q
  <2>1. \A i \in 1 .. Len(c \o b) : (c \o b)[i] = q[i]
    BY <1>6, <1>7
  <2>2. QED
    BY <1>6, <2>1, SameSequence
<1>9. QED
  BY <1>8 DEF c, a, b, m, w, Order!InsertAt

LEMMA ListWithout ==
  ASSUME NEW key, NEW S, KeyedBy(key, S), NEW q, Lists(key, q, S), NEW b
  PROVE  Lists(key, Order!RemoveFirst(q, b), S \ {b})
<1>1. /\ q \in Seq(S) /\ Len(q) \in Nat
      /\ \A i \in 1 .. Len(q) : q[i] \in S
      /\ \A c \in S : \E i \in 1 .. Len(q) : q[i] = c
      /\ \A i, j \in 1 .. Len(q) : q[i] = q[j] => i = j
      /\ \A i, j \in 1 .. Len(q) : i < j => Less(key[q[i]], key[q[j]])
  BY ListsOnce
<1>2. CASE b \notin S
  <2>1. Order!RemoveFirst(q, b) = q
    BY <1>1, <1>2 DEF Order!RemoveFirst
  <2>2. S \ {b} = S
    BY <1>2
  <2>3. QED
    BY <2>1, <2>2
<1>3. CASE b \in S
  <2>1. PICK k \in 1 .. Len(q) : q[k] = b
    BY <1>1, <1>3
  <2> DEFINE n == Len(q)
             w == Without(q, k)
             T == S \ {b}
             from(i) == IF i < k THEN i ELSE i + 1
  <2>2. Order!RemoveFirst(q, b) = w
    <3>1. q \in Seq(S) /\ \A i, j \in 1 .. Len(q) : q[i] = q[j] => i = j
      BY <1>1
    <3>2. Order!RemoveFirst(q, q[k]) = Without(q, k)
      BY <3>1, FoundAt
    <3>3. QED
      BY <2>1, <3>2
  <2>3. /\ w \in Seq(S) /\ Len(w) = n - 1
        /\ \A i \in 1 .. k - 1 : w[i] = q[i]
        /\ \A i \in k .. n - 1 : w[i] = q[i + 1]
    <3>1. q \in Seq(S)
      BY <1>1
    <3>2. QED
      BY <3>1, WithoutIs
  <2>4. n \in Nat /\ k \in 1 .. n
    BY <1>1
  <2> HIDE DEF n, w
  <2>5. ASSUME NEW i \in 1 .. n - 1
        PROVE  from(i) \in 1 .. n /\ from(i) # k /\ w[i] = q[from(i)]
    BY <2>3, <2>4
  <2>6. ASSUME NEW i \in 1 .. n - 1, NEW j \in 1 .. n - 1, i < j PROVE from(i) < from(j)
    BY <2>4, <2>6
  <2>7. ASSUME NEW j \in 1 .. n, j # k PROVE \E i \in 1 .. n - 1 : j = from(i)
    <3>1. CASE j < k
      BY <2>4, <3>1
    <3>2. CASE j > k
      <4>1. j - 1 \in 1 .. n - 1 /\ j = from(j - 1)
        BY <2>4, <3>2
      <4>2. QED
        BY <4>1
    <3>3. QED
      BY <2>4, <2>7, <3>1, <3>2
  <2> HIDE DEF from
  <2>8. /\ \A i \in 1 .. n : q[i] \in S
        /\ \A c \in S : \E i \in 1 .. n : q[i] = c
        /\ \A i, j \in 1 .. n : q[i] = q[j] => i = j
        /\ \A i, j \in 1 .. n : i < j => Less(key[q[i]], key[q[j]])
    BY <1>1 DEF n
  <2>9. \A i \in 1 .. n - 1 : w[i] \in T
    BY <2>1, <2>4, <2>5, <2>8
  <2>10. w \in Seq(T)
    BY <2>3, <2>9
  <2>11. ASSUME NEW c \in T PROVE \E i \in 1 .. n - 1 : w[i] = c
    <3>1. PICK j \in 1 .. n : q[j] = c
      BY <2>8
    <3>2. PICK i \in 1 .. n - 1 : j = from(i)
      BY <2>1, <2>7, <3>1
    <3>3. QED
      BY <2>5, <3>1, <3>2
  <2>12. ASSUME NEW i \in 1 .. n - 1, NEW j \in 1 .. n - 1, i < j
         PROVE  Less(key[w[i]], key[w[j]])
    BY <2>5, <2>6, <2>8, <2>12
  <2>13. QED
    BY <2>2, <2>3, <2>10, <2>11, <2>12 DEF Lists, ListOf, Increasing
<1>4. QED
  BY <1>2, <1>3

-----------------------------------------------------------------------------
(* What a request that runs alone has read and planned fits the rows, which *)
(* only a deletion of a book changes under it.                              *)

OneAtATime == \A q, r \in Requests : q = r

Course(q) ==
  /\ q.pc \in {"loaded", "planned"} =>
       q.kind \in {"create_book", "move_book_shelf", "reorder_book", "delete_shelf"}
  /\ q.pc \in {"collided", "replanned"} => q.kind \in {"create_book", "move_book_shelf"}
  /\ q.kind \in {"move_book_shelf", "reorder_book"} => q.book \in BookIds
  /\ q.kind = "delete_shelf" => q.row = NoRow /\ q.book = NewBook
  /\ q.kind = "reorder_book" => q.to = NoShelf

ShelfIsLive(q) ==
  /\ q.kind = "create_book" /\ q.pc \in {"loaded", "planned", "collided", "replanned"} =>
       shelves[q.shelf] = "live"
  /\ q.kind = "move_book_shelf" /\ q.pc \in {"planned", "collided", "replanned"} =>
       shelves[q.shelf] = "live"
  /\ q.kind = "delete_shelf" /\ q.pc \in {"make_default", "loaded", "planned", "flushing"} =>
       shelves[q.shelf] = "live"
  /\ q.kind = "delete_shelf" /\ q.pc \in {"loaded", "planned", "flushing"} =>
       default \in ShelfIds

SeesRow(q) ==
  /\ q.book \in BookIds /\ Live(q.book) => q.row \in {NoRow, Row(q.book)}
  /\ q.kind = "reorder_book" /\ q.pc = "loaded" /\ Live(q.book) =>
       books[q.book].shelf = q.shelf

\* The key of a book once the request is written.
NewKey(q, b) == IF b \in DOMAIN q.ranks /\ q.ranks[b] # None THEN q.ranks[b] ELSE books[b].rank

KeepsOrderOf(q, S) ==
  \A b, c \in S : Less(books[b].rank, books[c].rank) => Less(NewKey(q, b), NewKey(q, c))

\* It writes books of its own shelf only.
Inside(q) ==
  /\ DOMAIN q.ranks \subseteq BookIds
  /\ \A b \in DOMAIN q.ranks : Live(b) => books[b].shelf = q.shelf

CreateFits(q) == \A b \in On(q.shelf) : Less(books[b].rank, q.ranks[NewBook])

MoveFits(q) ==
  /\ DOMAIN q.ranks = {q.book}
  /\ Live(q.book) =>
       /\ q.to = q.shelf \/ (q.to = NoShelf /\ books[q.book].shelf = q.shelf)
       /\ \A b \in On(q.shelf) \ {q.book} : Less(books[b].rank, NewKey(q, q.book))

ReorderFits(q) == Inside(q) /\ KeepsOrderOf(q, On(q.shelf) \ {q.book})

DeleteFits(q) ==
  /\ q.to = default
  /\ Inside(q) /\ On(q.shelf) \subseteq DOMAIN q.ranks
  /\ KeepsOrderOf(q, On(q.shelf))
  /\ \A b \in On(q.shelf), c \in On(default) : Less(books[c].rank, NewKey(q, b))

PlanFits(q) ==
  /\ q.kind = "create_book" /\ q.pc \in {"planned", "replanned"} => CreateFits(q)
  /\ q.kind = "move_book_shelf" /\ q.pc \in {"planned", "replanned"} => MoveFits(q)
  /\ q.kind = "reorder_book" /\ q.pc = "planned" => ReorderFits(q)
  /\ q.kind = "delete_shelf" /\ q.pc \in {"planned", "flushing"} => DeleteFits(q)

Fits(q) == Course(q) /\ ShelfIsLive(q) /\ SeesRow(q) /\ PlanFits(q)

OrderInv == TypedInv /\ \A r \in Requests : Fits(req[r])

LEMMA NewBookIsNoBook == NewBook \notin BookIds
BY DEF NewBook, BookIds

LEMMA IdleFits ==
  ASSUME NEW q, q \in {Idle, [Idle EXCEPT !.pc = "failed"], [Idle EXCEPT !.pc = "exhausted"]}
  PROVE  Fits(q)
<1>1. q.kind = "none" /\ q.pc \in {"idle", "failed", "exhausted"} /\ q.book = NewBook
  BY DEF Idle
<1>2. QED
  BY <1>1, NewBookIsNoBook DEF Fits, Course, ShelfIsLive, SeesRow, PlanFits

LEMMA BegunFits ==
  ASSUME NEW q, q.pc \in {"loaded", "make_default"}, q.to = NoShelf,
         \/ /\ q.kind \in {"create_book", "get_shelves"} /\ q.book = NewBook
            /\ q.kind = "create_book" \/ q.pc = "make_default"
            /\ q.kind = "create_book" /\ q.pc = "loaded" => shelves[q.shelf] = "live"
         \/ /\ q.kind \in {"move_book_shelf", "reorder_book"} /\ q.pc = "loaded"
            /\ q.book \in BookIds /\ q.row = Row(q.book)
            /\ q.kind = "reorder_book" => q.shelf = books[q.book].shelf
         \/ /\ q.kind = "delete_shelf" /\ q.book = NewBook /\ q.row = NoRow
            /\ shelves[q.shelf] = "live"
            /\ q.pc = "loaded" => default \in ShelfIds
  PROVE  Fits(q)
BY NewBookIsNoBook DEF Fits, Course, ShelfIsLive, SeesRow, PlanFits

LEMMA LoadFits ==
  ASSUME Types, DefaultInv, NEW r \in Requests, Load(r)
  PROVE  Fits(req'[r])
<1>1. /\ NextPC \in {"loaded", "make_default"}
      /\ NextPC = "loaded" => default \in ShelfIds /\ shelves[default] = "live"
  BY DEF NextPC, Types, Shelf, DefaultInv
<1>2. CASE CreateBook(r)
  <2>1. PICK s \in ShelfIds \cup {NoShelf}, i \in Isbns \cup {NoIsbn} :
          /\ s # NoShelf => shelves[s] = "live"
          /\ req' = [req EXCEPT ![r] = [[Idle EXCEPT
                  !.pc = IF s = NoShelf THEN NextPC ELSE "loaded",
                  !.shelf = IF s = NoShelf THEN default ELSE s, !.isbn = i]
                EXCEPT !.kind = "create_book"]]
    BY <1>2 DEF CreateBook, Begin
  <2> DEFINE q == req'[r]
  <2>2. /\ q.pc = IF s = NoShelf THEN NextPC ELSE "loaded"
        /\ q.shelf = IF s = NoShelf THEN default ELSE s
        /\ q.kind = "create_book" /\ q.book = NewBook /\ q.to = NoShelf
    BY <2>1 DEF Types, Idle
  <2> HIDE DEF q
  <2>3. q.pc = "loaded" => shelves[q.shelf] = "live"
    BY <1>1, <2>1, <2>2
  <2>4. Fits(q)
    BY <1>1, <2>2, <2>3, BegunFits
  <2>5. QED
    BY <2>4 DEF q
<1>3. CASE MoveBookShelf(r)
  <2>1. PICK b \in BookIds, s \in ShelfIds \ Unused :
          req' = [req EXCEPT ![r] = [[Idle EXCEPT !.pc = "loaded", !.book = b, !.shelf = s,
                                      !.row = Row(b)] EXCEPT !.kind = "move_book_shelf"]]
    BY <1>3 DEF MoveBookShelf, Begin
  <2> DEFINE q == req'[r]
  <2>2. /\ q.pc = "loaded" /\ q.kind = "move_book_shelf" /\ q.book = b /\ q.row = Row(b)
        /\ q.to = NoShelf
    BY <2>1 DEF Types, Idle
  <2> HIDE DEF q
  <2>3. Fits(q)
    BY <2>2, BegunFits
  <2>4. QED
    BY <2>3 DEF q
<1>4. CASE ReorderBook(r)
  <2>1. PICK b \in BookIds, pivot \in BookIds, side \in {"before", "after"} :
          req' = [req EXCEPT ![r] = [[Idle EXCEPT !.pc = "loaded", !.book = b, !.shelf = books[b].shelf,
                                      !.pivot = pivot, !.side = side, !.row = Row(b)]
                                     EXCEPT !.kind = "reorder_book"]]
    BY <1>4 DEF ReorderBook, Begin
  <2> DEFINE q == req'[r]
  <2>2. /\ q.pc = "loaded" /\ q.kind = "reorder_book" /\ q.book = b /\ q.row = Row(b)
        /\ q.shelf = books[b].shelf /\ q.to = NoShelf
    BY <2>1 DEF Types, Idle
  <2> HIDE DEF q
  <2>3. Fits(q)
    BY <2>2, BegunFits
  <2>4. QED
    BY <2>3 DEF q
<1>5. CASE GetShelves(r)
  <2>1. req' = [req EXCEPT ![r] = [[Idle EXCEPT !.pc = "make_default"] EXCEPT !.kind = "get_shelves"]]
    BY <1>5 DEF GetShelves, Begin
  <2> DEFINE q == req'[r]
  <2>2. q.pc = "make_default" /\ q.kind = "get_shelves" /\ q.book = NewBook /\ q.to = NoShelf
    BY <2>1 DEF Types, Idle
  <2> HIDE DEF q
  <2>3. Fits(q)
    BY <2>2, BegunFits
  <2>4. QED
    BY <2>3 DEF q
<1>6. CASE DeleteShelf(r)
  <2>1. PICK s \in ShelfIds :
          /\ shelves[s] = "live"
          /\ req' = [req EXCEPT ![r] = [[Idle EXCEPT !.pc = NextPC, !.shelf = s]
                                        EXCEPT !.kind = "delete_shelf"]]
    BY <1>6 DEF DeleteShelf, Begin
  <2> DEFINE q == req'[r]
  <2>2. /\ q.pc = NextPC /\ q.kind = "delete_shelf" /\ q.book = NewBook /\ q.row = NoRow
        /\ q.shelf = s /\ q.to = NoShelf
    BY <2>1 DEF Types, Idle
  <2> HIDE DEF q
  <2>3. Fits(q)
    BY <1>1, <2>1, <2>2, BegunFits
  <2>4. QED
    BY <2>3 DEF q
<1>7. QED
  BY <1>2, <1>3, <1>4, <1>5, <1>6 DEF Load

LEMMA MakeDefaultFits ==
  ASSUME Types, DefaultInv, NEW r \in Requests, RequestOK(req[r]), Fits(req[r]), MakeDefault(r),
         DefaultInv'
  PROVE  Fits(req[r])'
<1>1. /\ \/ UNCHANGED <<shelves, default>> /\ default # NoShelf
         \/ /\ default = NoShelf /\ default' \in Unused
            /\ shelves' = [shelves EXCEPT ![default'] = "live"]
      /\ books' = books
  BY MakeDefaultEffect
<1>2. /\ default' \in ShelfIds /\ shelves'[default'] = "live"
      /\ \A s \in ShelfIds : shelves[s] = "live" => shelves'[s] = "live"
  BY <1>1 DEF Types, Shelf, Unused, DefaultInv
<1>3. \/ req'[r] = Idle
      \/ req'[r] = [req[r] EXCEPT !.pc = "loaded"] /\ req[r].kind = "delete_shelf"
      \/ req'[r] = [req[r] EXCEPT !.pc = "loaded", !.shelf = default'] /\ req[r].kind = "create_book"
  BY DEF MakeDefault, Types
<1>4. CASE req'[r] = Idle
  <2>1. req'[r].kind = "none" /\ req'[r].pc = "idle" /\ req'[r].book = NewBook
    BY <1>4 DEF Idle
  <2>2. QED
    BY <2>1, NewBookIsNoBook DEF Fits, Course, ShelfIsLive, SeesRow, PlanFits
<1>5. ASSUME req'[r] # Idle PROVE Fits(req[r])'
  <2> DEFINE q == req'[r]
  <2>1. /\ q.pc = "loaded" /\ q.kind = req[r].kind /\ q.kind \in {"create_book", "delete_shelf"}
        /\ q.book = req[r].book /\ q.row = req[r].row /\ q.to = req[r].to
        /\ q.shelf = IF q.kind = "create_book" THEN default' ELSE req[r].shelf
    BY <1>3, <1>5 DEF Types, Fields
  <2>2. q.book = NewBook /\ (q.kind = "delete_shelf" => q.row = NoRow)
    BY <2>1 DEF RequestOK, PlanTyped, Fits, Course
  <2>3. shelves'[q.shelf] = "live"
    <3>1. q.kind = "delete_shelf" => q.shelf \in ShelfIds /\ shelves[q.shelf] = "live"
      BY <2>1 DEF Fits, ShelfIsLive, MakeDefault, DefaultInv, Answered
    <3> HIDE DEF q
    <3>2. QED
      BY <1>2, <2>1, <3>1
  <2>4. QED
    BY <1>2, <2>1, <2>2, <2>3, NewBookIsNoBook DEF Fits, Course, ShelfIsLive, SeesRow, PlanFits
<1>6. QED
  BY <1>4, <1>5

LEMMA SeesStored ==
  ASSUME NEW r, SeesRow(req[r]), NEW s
  PROVE  SeesAsStored(r, s)
BY DEF SeesRow, SeesAsStored, Seen, On, Row

\* The key a request writes is the one it computed, whether or not it is left out of
\* the UPDATE as unchanged.
LEMMA NewKeyIs ==
  ASSUME NEW q, NEW b, NEW new \in Rank, NEW old, old \in {None, books[b].rank},
         b \in DOMAIN q.ranks, q.ranks[b] = Changed(new, old)
  PROVE  NewKey(q, b) = new
BY RankType DEF NewKey, Changed

LEMMA PlanAppendFits ==
  ASSUME Types, LockInv, KeysUnique, LiveRanks, NEW r \in Requests, RequestOK(req[r]),
         Fits(req[r]), PlanAppend(r)
  PROVE  Fits(req'[r])
<1> DEFINE s == req[r].shelf
           new == AppendRank(LastRank(r, s))
           planned == [req[r] EXCEPT !.pc = "planned", !.row = NoRow,
                         !.ranks = [b \in {req[r].book} |-> Changed(new, req[r].row.rank)],
                         !.to = IF s = req[r].row.shelf THEN NoShelf ELSE s]
<1>1. \/ req'[r] = Idle \/ req'[r] = [Idle EXCEPT !.pc = "exhausted"]
      \/ /\ req'[r] = planned /\ CanAppend(LastRank(r, s))
         /\ req[r].kind = "move_book_shelf" => shelves[s] = "live"
  BY DEF PlanAppend, Types
<1>2. /\ req[r].pc = "loaded" /\ req[r].kind \in {"create_book", "move_book_shelf"}
      /\ s \in ShelfIds
  BY DEF PlanAppend, LockInv, Active
<1>3. CASE /\ req'[r] = planned /\ CanAppend(LastRank(r, s))
           /\ req[r].kind = "move_book_shelf" => shelves[s] = "live"
  <2>1. new \in Rank /\ \A b \in On(s) : Less(books[b].rank, new)
    <3>1. SeesAsStored(r, s)
      BY SeesStored DEF Fits
    <3>2. QED
      BY <1>3, <3>1, AppendedIsLast
  <2>2. /\ planned.pc = "planned" /\ planned.kind = req[r].kind
        /\ planned.book = req[r].book /\ planned.shelf = s /\ planned.row = NoRow
        /\ planned.ranks = [b \in {req[r].book} |-> Changed(new, req[r].row.rank)]
        /\ planned.to = IF s = req[r].row.shelf THEN NoShelf ELSE s
    BY DEF Types, Fields
  <2> HIDE DEF planned, new, s
  <2>3. Course(planned)
    BY <1>2, <2>2 DEF Fits, Course
  <2>4. ShelfIsLive(planned)
    BY <1>2, <1>3, <2>2 DEF Fits, ShelfIsLive, s
  <2>5. SeesRow(planned)
    BY <2>2 DEF SeesRow
  <2>6. CASE req[r].kind = "create_book"
    <3>1. req[r].book = NewBook /\ req[r].row.rank = None
      BY <2>6 DEF RequestOK, PlanTyped, NoRow
    <3>2. planned.ranks[NewBook] = new
      BY <2>1, <2>2, <3>1, RankType DEF Changed
    <3>3. CreateFits(planned)
      BY <2>1, <2>2, <3>2 DEF CreateFits
    <3>4. QED
      BY <1>3, <2>2, <2>3, <2>4, <2>5, <2>6, <3>3 DEF Fits, PlanFits
  <2>7. CASE req[r].kind = "move_book_shelf"
    <3>1. DOMAIN planned.ranks = {planned.book}
      BY <2>2
    <3>2. ASSUME Live(planned.book)
          PROVE  /\ planned.to = s \/ (planned.to = NoShelf /\ books[planned.book].shelf = s)
                 /\ NewKey(planned, planned.book) = new
      <4>1. req[r].row \in {NoRow, Row(planned.book)}
        BY <2>2, <2>7, <3>2 DEF Fits, Course, SeesRow
      <4>2. req[r].row.rank \in {None, books[planned.book].rank}
        BY <4>1 DEF NoRow, Row
      <4>3. planned.ranks[planned.book] = Changed(new, req[r].row.rank)
        BY <2>2
      <4>4. NewKey(planned, planned.book) = new
        BY <2>1, <3>1, <4>2, <4>3, NewKeyIs
      <4>5. s = req[r].row.shelf => books[planned.book].shelf = s
        BY <1>2, <4>1, BookshelfAssumption DEF NoRow, Row, s
      <4>6. planned.to = s \/ (planned.to = NoShelf /\ s = req[r].row.shelf)
        BY <2>2
      <4>7. QED
        BY <4>4, <4>5, <4>6
    <3>3. MoveFits(planned)
      BY <2>1, <2>2, <3>1, <3>2 DEF MoveFits
    <3>4. QED
      BY <1>3, <2>2, <2>3, <2>4, <2>5, <2>7, <3>3 DEF Fits, PlanFits
  <2>8. QED
    BY <1>2, <2>6, <2>7
<1>4. QED
  BY <1>1, <1>3, IdleFits

LEMMA PlanAgainFits ==
  ASSUME Types, KeysUnique, LiveRanks, NEW r \in Requests, RequestOK(req[r]),
         Fits(req[r]), PlanAgain(r)
  PROVE  Fits(req'[r])
<1> DEFINE s == req[r].shelf
           new == AppendRank(LastRank(r, s))
           replanned == [req[r] EXCEPT !.pc = "replanned", !.to = req[r].shelf,
                           !.ranks = [b \in {req[r].book} |-> new]]
<1>1. \/ req'[r] = [Idle EXCEPT !.pc = "exhausted"]
      \/ req'[r] = replanned /\ CanAppend(LastRank(r, s))
  BY DEF PlanAgain, Types
<1>2. req[r].pc = "collided" /\ req[r].kind \in {"create_book", "move_book_shelf"}
  BY DEF PlanAgain, Fits, Course
<1>3. CASE req'[r] = replanned /\ CanAppend(LastRank(r, s))
  <2>1. new \in Rank /\ \A b \in On(s) : Less(books[b].rank, new)
    <3>1. SeesAsStored(r, s)
      BY SeesStored DEF Fits
    <3>2. QED
      BY <1>3, <3>1, AppendedIsLast
  <2>2. /\ replanned.pc = "replanned" /\ replanned.kind = req[r].kind
        /\ replanned.book = req[r].book /\ replanned.shelf = s /\ replanned.row = req[r].row
        /\ replanned.ranks = [b \in {req[r].book} |-> new]
        /\ replanned.to = s
    BY DEF Types, Fields
  <2> HIDE DEF replanned, new
  <2>3. Course(replanned)
    BY <1>2, <2>2 DEF Fits, Course
  <2>4. ShelfIsLive(replanned)
    BY <1>2, <2>2 DEF Fits, ShelfIsLive
  <2>5. SeesRow(replanned)
    BY <1>2, <2>2 DEF Fits, SeesRow
  <2>6. replanned.ranks[replanned.book] = new /\ DOMAIN replanned.ranks = {replanned.book}
    BY <2>2
  <2>7. NewKey(replanned, replanned.book) = new
    BY <2>1, <2>6, RankType DEF NewKey
  <2>8. req[r].kind = "create_book" => CreateFits(replanned)
    <3>1. req[r].kind = "create_book" => replanned.book = NewBook
      BY <2>2 DEF RequestOK, PlanTyped
    <3>2. QED
      BY <2>1, <2>2, <2>6, <3>1 DEF CreateFits
  <2>9. MoveFits(replanned)
    BY <2>1, <2>2, <2>6, <2>7 DEF MoveFits
  <2>10. QED
    BY <1>2, <1>3, <2>2, <2>3, <2>4, <2>5, <2>8, <2>9 DEF Fits, PlanFits
<1>4. QED
  BY <1>1, <1>3, IdleFits

LEMMA PlanReorderFits ==
  ASSUME RoomToRebalance, Types, KeysUnique, LiveRanks, NEW r \in Requests, RequestOK(req[r]),
         Fits(req[r]), PlanReorder(r)
  PROVE  Fits(req'[r])
<1> DEFINE b    == req[r].book
           rest == On(req[r].shelf) \ {b}
           n    == Cardinality(rest)
           at   == Position(req[r].pivot, rest)
           prev == IF req[r].side = "before" THEN at - 1 ELSE at
           rank(i) == IF i \in 1 .. Cardinality(rest) THEN books[Sorted(rest)[i]].rank ELSE None
           spread == RebalancedSequence(Cardinality(rest) + 1)
           place(c) == LET i == Position(c, rest) IN IF i <= prev THEN i ELSE i + 1
           rebalanced == [c \in rest \cup {b} |->
             IF c = b THEN Changed(spread[prev + 1], req[r].row.rank)
                      ELSE Changed(spread[place(c)], books[c].rank)]
           single == [c \in {b} |-> Changed(Between(rank(prev), rank(prev + 1)), req[r].row.rank)]
<1>1. \/ req'[r] = Idle
      \/ req'[r] = [req[r] EXCEPT !.pc = "planned", !.row = NoRow, !.pivot = NewBook,
                                  !.side = "none", !.ranks = single]
      \/ /\ req[r].pivot \in rest
         /\ req'[r] = [req[r] EXCEPT !.pc = "planned", !.row = NoRow, !.pivot = NewBook,
                                     !.side = "none", !.ranks = rebalanced]
  BY DEF PlanReorder, Types
<1>2. /\ req[r].pc = "loaded" /\ req[r].kind = "reorder_book" /\ b \in BookIds
      /\ req[r].to = NoShelf
      /\ Live(b) => books[b].shelf = req[r].shelf
  BY DEF PlanReorder, Fits, Course, SeesRow
<1> HIDE DEF b
<1>3. /\ rest \subseteq On(req[r].shelf) /\ rest \subseteq BookIds \ {b}
      /\ \A c \in rest : books[c].shelf = req[r].shelf
  BY DEF On
<1>4. b \notin rest
  OBVIOUS
<1>5. ASSUME NEW ranks, DOMAIN ranks \subseteq rest \cup {b},
             req'[r] = [req[r] EXCEPT !.pc = "planned", !.row = NoRow, !.pivot = NewBook,
                                      !.side = "none", !.ranks = ranks],
             \A q : q.ranks = ranks => KeepsOrderOf(q, rest)
      PROVE  Fits(req'[r])
  <2> DEFINE q == req'[r]
  <2>1. /\ q.pc = "planned" /\ q.kind = "reorder_book"
        /\ q.book = b /\ q.shelf = req[r].shelf /\ q.row = NoRow
        /\ q.ranks = ranks /\ q.to = NoShelf
    BY <1>2, <1>5 DEF Types, Fields, b
  <2> HIDE DEF q
  <2>2. Inside(q)
    BY <1>2, <1>3, <1>5, <2>1 DEF Inside
  <2>3. KeepsOrderOf(q, On(q.shelf) \ {q.book})
    BY <1>5, <2>1
  <2>4. Fits(q)
    BY <1>2, <2>1, <2>2, <2>3
       DEF Fits, Course, ShelfIsLive, SeesRow, PlanFits, ReorderFits
  <2>5. QED
    BY <2>4 DEF q
<1> HIDE DEF rest
<1>6. CASE req'[r] = [req[r] EXCEPT !.pc = "planned", !.row = NoRow, !.pivot = NewBook,
                                    !.side = "none", !.ranks = single]
  <2>1. DOMAIN single = {b}
    OBVIOUS
  <2> HIDE DEF single
  <2>2. ASSUME NEW q, q.ranks = single PROVE KeepsOrderOf(q, rest)
    <3>1. \A c \in rest : NewKey(q, c) = books[c].rank
      BY <1>4, <2>1, <2>2 DEF NewKey
    <3>2. QED
      BY <3>1 DEF KeepsOrderOf
  <2>3. QED
    BY <1>5, <1>6, <2>1, <2>2
<1>7. CASE /\ req[r].pivot \in rest
           /\ req'[r] = [req[r] EXCEPT !.pc = "planned", !.row = NoRow, !.pivot = NewBook,
                                       !.side = "none", !.ranks = rebalanced]
  <2>1. /\ n \in Nat /\ n < MaxBooks
        /\ \A c \in rest : Position(c, rest) \in 1 .. n
    BY <1>2, <1>3, PlacesOfShelf, FewerBooks
  <2>2. ASSUME NEW c \in rest, NEW d \in rest, Less(books[c].rank, books[d].rank)
        PROVE  Position(c, rest) < Position(d, rest)
    <3>1. rest \subseteq BookIds /\ Keyed(RankOf, rest)
      BY <1>3, ShelfIsKeyed
    <3>2. Less(RankOf[c], RankOf[d])
      BY <2>2, <3>1 DEF RankOf
    <3>3. QED
      BY <3>1, <3>2, PlaceGrows, SortedInOrder
  <2>3. /\ \A i \in 1 .. n + 1 : spread[i] \in Rank
        /\ \A i, j \in 1 .. n + 1 : i < j => Less(spread[i], spread[j])
    <3>1. n + 1 \in Nat \ {0} /\ 4 * (n + 1) <= 4 * MaxBooks /\ Capacity[MAX_LENGTH] \in Nat
      BY <2>1, RankAssumption, CapacityGrows, BookshelfAssumption
    <3> HIDE DEF n
    <3>2. Capacity[MAX_LENGTH] >= 4 * (n + 1)
      BY <2>1, <3>1, BookshelfAssumption DEF RoomToRebalance
    <3>3. QED
      BY <3>1, <3>2, RebalancedKeysIncrease DEF n
  <2> HIDE DEF spread
  <2>4. \A c \in rest : place(c) \in 1 .. n + 1
    <3>1. at \in 1 .. n
      BY <1>7, <2>1
    <3> HIDE DEF n, at
    <3>2. QED
      BY <2>1, <3>1
  <2>5. ASSUME NEW c \in rest, NEW d \in rest, Less(books[c].rank, books[d].rank)
        PROVE  place(c) < place(d)
    <3>1. /\ Position(c, rest) < Position(d, rest)
          /\ Position(c, rest) \in Int /\ Position(d, rest) \in Int /\ prev \in Int
      BY <1>7, <2>1, <2>2, <2>5
    <3> HIDE DEF prev
    <3>2. QED
      BY <3>1
  <2>6. /\ DOMAIN rebalanced = rest \cup {b}
        /\ \A c \in rest : rebalanced[c] = Changed(spread[place(c)], books[c].rank)
    BY <1>4
  <2> HIDE DEF rebalanced, place, n
  <2>7. ASSUME NEW q, q.ranks = rebalanced PROVE KeepsOrderOf(q, rest)
    <3>1. ASSUME NEW c \in rest PROVE NewKey(q, c) = spread[place(c)]
      <4>1. spread[place(c)] \in Rank
        BY <2>3, <2>4
      <4>2. c \in DOMAIN q.ranks /\ q.ranks[c] = Changed(spread[place(c)], books[c].rank)
        BY <2>6, <2>7
      <4>3. QED
        BY <4>1, <4>2, NewKeyIs
    <3>2. QED
      BY <2>3, <2>4, <2>5, <3>1 DEF KeepsOrderOf
  <2>8. QED
    BY <1>5, <1>7, <2>6, <2>7
<1>8. QED
  BY <1>1, <1>6, <1>7, IdleFits

\* Keys appended one after the other, none of them missing, increase.
LEMMA AppendedGrows ==
  ASSUME NEW last \in Rank \cup {None}, NEW n \in Nat, NEW f, f = Appended(last, n),
         \A i \in 1 .. n : f[i] # None
  PROVE  /\ \A i \in 1 .. n : f[i] \in Rank
         /\ \A i, j \in 1 .. n : i < j => Less(f[i], f[j])
         /\ last # None => \A i \in 1 .. n : Less(last, f[i])
<1> DEFINE Follows(j) == /\ \A i \in 1 .. j - 1 : Less(f[i], f[j])
                         /\ last # None => Less(last, f[j])
           Bad == {j \in 1 .. n : ~ Follows(j)}
<1>1. AppendedFrom(last, n, f)
  BY AppendedIs
<1>2. \A i \in 1 .. n : f[i] \in Rank
  BY AppendedType
<1>3. ASSUME NEW j \in 1 .. n
      PROVE  CanAppend(f[j - 1]) /\ f[j] = AppendRank(f[j - 1]) /\ f[0] = last
  <2>1. j \in 0 .. n /\ j # 0 /\ 0 \in 0 .. n
    OBVIOUS
  <2>2. f[j] = IF j > 1 /\ f[j - 1] = None THEN None
               ELSE IF CanAppend(f[j - 1]) THEN AppendRank(f[j - 1]) ELSE None
    BY <1>1, <2>1 DEF AppendedFrom
  <2>3. f[0] = last
    BY <1>1, <2>1 DEF AppendedFrom
  <2>4. QED
    BY <2>2, <2>3
<1>4. \A j \in 1 .. n : Follows(j)
  <2>1. SUFFICES ASSUME Bad # {} PROVE FALSE
    OBVIOUS
  <2>2. PICK j \in Bad : \A i \in Bad : j <= i
    <3>1. Bad \subseteq Nat
      OBVIOUS
    <3>2. QED
      BY <2>1, <3>1, LeastNat
  <2>3. CanAppend(f[j - 1]) /\ f[j] = AppendRank(f[j - 1]) /\ f[0] = last
    BY <1>3
  <2>4. CASE j = 1
    <3>1. f[j - 1] = last
      BY <2>3, <2>4
    <3>2. last # None => Less(last, f[j])
      BY <2>3, <3>1, Appending
    <3>3. QED
      BY <2>2, <2>4, <3>2
  <2>5. CASE j # 1
    <3>1. j - 1 \in 1 .. n /\ j \in 1 .. n
      BY <2>5
    <3>2. Follows(j - 1)
      BY <2>2, <3>1
    <3>3. f[j - 1] \in Rank /\ f[j - 1] # None /\ f[j] \in Rank
      BY <1>2, <3>1
    <3>4. Less(f[j - 1], f[j])
      BY <2>3, <3>3, Appending
    <3>5. last # None => Less(last, f[j])
      BY <3>2, <3>3, <3>4, LessTransitive
    <3>6. ASSUME NEW i \in 1 .. j - 1 PROVE Less(f[i], f[j])
      <4>1. CASE i = j - 1
        BY <3>4, <4>1
      <4>2. CASE i # j - 1
        <5>1. i \in 1 .. (j - 1) - 1 /\ i \in 1 .. n
          BY <3>1, <4>2
        <5>2. Less(f[i], f[j - 1]) /\ f[i] \in Rank
          BY <1>2, <3>2, <5>1
        <5>3. QED
          BY <3>3, <3>4, <5>2, LessTransitive
      <4>3. QED
        BY <4>1, <4>2
    <3>7. QED
      BY <2>2, <3>5, <3>6
  <2>6. QED
    BY <2>4, <2>5
<1>5. ASSUME NEW i \in 1 .. n, NEW j \in 1 .. n, i < j PROVE Less(f[i], f[j])
  <2>1. i \in 1 .. j - 1
    BY <1>5
  <2>2. QED
    BY <1>4, <2>1
<1>6. QED
  BY <1>2, <1>4, <1>5

LEMMA PlanDeleteShelfFits ==
  ASSUME Types, KeysUnique, LiveRanks, NEW r \in Requests, RequestOK(req[r]),
         Fits(req[r]), PlanDeleteShelf(r)
  PROVE  Fits(req'[r])
<1> DEFINE s     == req[r].shelf
           moved == On(s)
           n     == Cardinality(moved)
           last  == LastRank(r, default)
           keys  == Appended(last, n)
           ranks == [b \in moved |-> Changed(keys[Position(b, moved)], books[b].rank)]
<1>1. \/ req'[r] = [Idle EXCEPT !.pc = "exhausted"]
      \/ /\ \A i \in 1 .. n : keys[i] # None
         /\ req'[r] = [req[r] EXCEPT !.pc = "planned", !.to = default, !.ranks = ranks]
  BY DEF PlanDeleteShelf, Types
<1>2. /\ req[r].pc = "loaded" /\ req[r].kind = "delete_shelf"
      /\ req[r].row = NoRow /\ req[r].book = NewBook
      /\ shelves[s] = "live" /\ default \in ShelfIds
  BY DEF PlanDeleteShelf, Fits, Course, ShelfIsLive
<1>3. CASE /\ \A i \in 1 .. n : keys[i] # None
           /\ req'[r] = [req[r] EXCEPT !.pc = "planned", !.to = default, !.ranks = ranks]
  <2>1. SeesAsStored(r, default)
    BY <1>2, NothingLoaded
  <2>2. \/ On(default) = {} /\ last = None
        \/ \E b \in On(default) : /\ last = books[b].rank
                                  /\ \A c \in On(default) \ {b} : Less(books[c].rank, last)
    BY <2>1, LastRankIsLast
  <2>3. \A b \in BookIds : Live(b) => books[b].rank \in Rank
    BY DEF LiveRanks
  <2> HIDE DEF last
  <2>4. last \in Rank \cup {None}
    BY <2>2, <2>3 DEF On
  <2>5. \A c \in On(default) : last # None /\ (books[c].rank = last \/ Less(books[c].rank, last))
    BY <2>2, <2>3, RankType DEF On
  <2>6. /\ n \in Nat
        /\ \A b \in moved : Position(b, moved) \in 1 .. n
    BY PlacesOfShelf
  <2>7. ASSUME NEW b \in moved, NEW c \in moved, Less(books[b].rank, books[c].rank)
        PROVE  Position(b, moved) < Position(c, moved)
    <3>1. moved \subseteq BookIds /\ Keyed(RankOf, moved)
      BY ShelfIsKeyed
    <3>2. Less(RankOf[b], RankOf[c])
      BY <2>7, <3>1 DEF RankOf
    <3> HIDE DEF moved
    <3>3. QED
      BY <3>1, <3>2, PlaceGrows, SortedInOrder
  <2>8. /\ DOMAIN ranks = moved
        /\ \A b \in moved : ranks[b] = Changed(keys[Position(b, moved)], books[b].rank)
    OBVIOUS
  <2> HIDE DEF n
  <2>9. /\ \A i \in 1 .. n : keys[i] \in Rank
        /\ \A i, j \in 1 .. n : i < j => Less(keys[i], keys[j])
        /\ last # None => \A i \in 1 .. n : Less(last, keys[i])
    BY <1>3, <2>4, <2>6, AppendedGrows
  <2> DEFINE q == req'[r]
  <2>10. /\ q.pc = "planned" /\ q.kind = "delete_shelf"
         /\ q.book = NewBook /\ q.shelf = s /\ q.row = NoRow
         /\ q.ranks = ranks /\ q.to = default
    BY <1>2, <1>3 DEF Types, Fields
  <2> HIDE DEF keys, ranks, q
  <2>11. ASSUME NEW b \in moved
         PROVE  NewKey(q, b) = keys[Position(b, moved)] /\ keys[Position(b, moved)] \in Rank
    <3>1. keys[Position(b, moved)] \in Rank
      BY <2>6, <2>9
    <3>2. b \in DOMAIN q.ranks /\ q.ranks[b] = Changed(keys[Position(b, moved)], books[b].rank)
      BY <2>8, <2>10
    <3>3. QED
      BY <3>1, <3>2, NewKeyIs
  <2>12. KeepsOrderOf(q, On(q.shelf))
    <3>1. On(q.shelf) = moved
      BY <2>10
    <3> HIDE DEF moved
    <3>2. QED
      BY <2>6, <2>7, <2>9, <2>11, <3>1 DEF KeepsOrderOf
  <2>13. ASSUME NEW b \in On(q.shelf), NEW c \in On(default)
         PROVE  Less(books[c].rank, NewKey(q, b))
    <3>1. b \in moved
      BY <2>10
    <3> HIDE DEF moved
    <3>2. /\ last # None /\ last \in Rank /\ books[c].rank \in Rank
          /\ books[c].rank = last \/ Less(books[c].rank, last)
      BY <2>3, <2>4, <2>5 DEF On
    <3>3. Less(last, NewKey(q, b)) /\ NewKey(q, b) \in Rank
      BY <2>6, <2>9, <2>11, <3>1, <3>2
    <3>4. QED
      BY <3>2, <3>3, LessTransitive
  <2>14. Inside(q)
    BY <2>8, <2>10 DEF Inside, On
  <2>15. DeleteFits(q)
    BY <2>8, <2>10, <2>12, <2>13, <2>14 DEF DeleteFits
  <2>16. Course(q) /\ ShelfIsLive(q) /\ SeesRow(q)
    BY <1>2, <2>10, NewBookIsNoBook DEF Course, ShelfIsLive, SeesRow
  <2>17. PlanFits(q)
    BY <2>10, <2>15 DEF PlanFits
  <2>18. QED
    BY <2>16, <2>17 DEF Fits, q
<1>4. QED
  BY <1>1, <1>3, IdleFits

LEMMA OthersFit ==
  ASSUME Types, NEW r \in Requests, Fits(req[r]), FlushShelf(r) \/ Refuse(r) \/ Collision(r)
  PROVE  Fits(req'[r])
<1> DEFINE q == req'[r]
<1>1. \/ q = Idle \/ q = [Idle EXCEPT !.pc = "failed"]
      \/ /\ q = [req[r] EXCEPT !.pc = "flushing"]
         /\ req[r].pc = "planned" /\ req[r].kind = "delete_shelf"
      \/ /\ q = [req[r] EXCEPT !.pc = "collided", !.ranks = << >>, !.to = NoShelf]
         /\ req[r].pc = "planned" /\ req[r].kind \in {"create_book", "move_book_shelf"}
  BY DEF FlushShelf, Refuse, Collision, Types
<1>2. CASE /\ q = [req[r] EXCEPT !.pc = "flushing"]
           /\ req[r].pc = "planned" /\ req[r].kind = "delete_shelf"
  <2>1. /\ q.pc = "flushing" /\ q.kind = "delete_shelf"
        /\ q.book = req[r].book /\ q.shelf = req[r].shelf /\ q.row = req[r].row
        /\ q.ranks = req[r].ranks /\ q.to = req[r].to
    BY <1>2 DEF Types, Fields
  <2> HIDE DEF q
  <2>2. Course(q) /\ ShelfIsLive(q) /\ SeesRow(q)
    BY <1>2, <2>1 DEF Fits, Course, ShelfIsLive, SeesRow
  <2>3. DeleteFits(q)
    BY <1>2, <2>1
       DEF Fits, PlanFits, DeleteFits, Inside, KeepsOrderOf, NewKey
  <2>4. PlanFits(q)
    BY <2>1, <2>3 DEF PlanFits
  <2>5. QED
    BY <2>2, <2>4 DEF Fits, q
<1>3. CASE /\ q = [req[r] EXCEPT !.pc = "collided", !.ranks = << >>, !.to = NoShelf]
           /\ req[r].pc = "planned" /\ req[r].kind \in {"create_book", "move_book_shelf"}
  <2>1. /\ q.pc = "collided" /\ q.kind = req[r].kind
        /\ q.book = req[r].book /\ q.shelf = req[r].shelf /\ q.row = req[r].row
    BY <1>3 DEF Types, Fields
  <2> HIDE DEF q
  <2>2. QED
    BY <1>3, <2>1 DEF Fits, Course, ShelfIsLive, SeesRow, PlanFits, q
<1>4. QED
  BY <1>1, <1>2, <1>3, IdleFits

LEMMA CommitFits ==
  ASSUME Types, NEW r \in Requests, CommitInsert(r) \/ CommitUpdate(r)
  PROVE  Fits(req[r])'
<1>1. req'[r] = Idle
  BY DEF CommitInsert, CommitUpdate, Done, Types
<1>2. req'[r].kind = "none" /\ req'[r].pc = "idle" /\ req'[r].book = NewBook
  BY <1>1 DEF Idle
<1>3. QED
  BY <1>2, NewBookIsNoBook DEF Fits, Course, ShelfIsLive, SeesRow, PlanFits

LEMMA DeleteBookFits ==
  ASSUME NEW r \in Requests, Fits(req[r]), DeleteBook
  PROVE  Fits(req[r])'
<1>1. UNCHANGED <<shelves, default, req>>
  BY DEF DeleteBook
<1>2. \A b \in BookIds : Live(b)' => Live(b) /\ books'[b] = books[b]
  BY GoneFields DEF DeleteBook, Live
<1> DEFINE q == req[r]
<1>3. \A s : On(s)' \subseteq On(s)
  BY <1>2 DEF On
<1>4. ASSUME NEW b \in BookIds, Live(b)'
      PROVE  books'[b].rank = books[b].rank /\ NewKey(q, b)' = NewKey(q, b)
  BY <1>1, <1>2, <1>4 DEF NewKey
<1>5. (Course(q) /\ ShelfIsLive(q))'
  BY <1>1 DEF Fits, Course, ShelfIsLive
<1>6. SeesRow(q)'
  <2>1. q.kind = "reorder_book" => q.book \in BookIds
    BY DEF Fits, Course
  <2>2. SeesRow(q) /\ q' = q
    BY <1>1 DEF Fits
  <2>3. ASSUME q.book \in BookIds, Live(q.book)'
        PROVE  Live(q.book) /\ Row(q.book)' = Row(q.book)
               /\ books'[q.book].shelf = books[q.book].shelf
    BY <1>1, <1>2, <2>3 DEF Row
  <2>4. QED
    BY <2>1, <2>2, <2>3 DEF SeesRow
<1>7. \A s : \A b \in On(s)' : b \in BookIds /\ Live(b)' /\ b \in On(s)
  BY <1>3 DEF On
<1>8. ASSUME NEW s, NEW S, NEW T, S \subseteq On(s)', S \subseteq T, KeepsOrderOf(q, T)
      PROVE  KeepsOrderOf(q, S)'
  BY <1>1, <1>4, <1>7, <1>8 DEF KeepsOrderOf
<1>9. Inside(q) => Inside(q)'
  BY <1>1, <1>2 DEF Inside
<1>10. CreateFits(q) => CreateFits(q)'
  BY <1>1, <1>4, <1>7 DEF CreateFits
<1>11. ASSUME MoveFits(q), q.book \in BookIds PROVE MoveFits(q)'
  BY <1>1, <1>2, <1>4, <1>7, <1>11 DEF MoveFits
<1>12. ASSUME ReorderFits(q) PROVE ReorderFits(q)'
  <2>1. (On(q.shelf) \ {q.book})' \subseteq On(q.shelf) \ {q.book}
    BY <1>1, <1>3
  <2>2. KeepsOrderOf(q, On(q.shelf) \ {q.book})'
    BY <1>1, <1>4, <1>7, <1>12, <2>1 DEF KeepsOrderOf, ReorderFits
  <2>3. QED
    BY <1>9, <1>12, <2>2 DEF ReorderFits
<1>13. ASSUME DeleteFits(q) PROVE DeleteFits(q)'
  <2>1. On(q.shelf)' \subseteq On(q.shelf) /\ On(default)' \subseteq On(default)
    BY <1>1, <1>3
  <2>2. KeepsOrderOf(q, On(q.shelf))'
    BY <1>1, <1>4, <1>7, <1>13, <2>1 DEF KeepsOrderOf, DeleteFits
  <2>3. (\A b \in On(q.shelf), c \in On(default) : Less(books[c].rank, NewKey(q, b)))'
    BY <1>1, <1>4, <1>7, <1>13, <2>1 DEF DeleteFits
  <2>4. QED
    BY <1>1, <1>9, <1>13, <2>1, <2>2, <2>3 DEF DeleteFits
<1>14. PlanFits(q)'
  BY <1>1, <1>10, <1>11, <1>12, <1>13 DEF Fits, PlanFits, Course
<1>15. QED
  BY <1>5, <1>6, <1>14 DEF Fits

LEMMA FitsStep ==
  ASSUME OneAtATime, RoomToRebalance, OrderInv, [Next]_vars
  PROVE  OrderInv'
<1> USE DEF OrderInv
<1>1. /\ Types /\ LockInv /\ DefaultInv /\ KeysUnique /\ LiveRanks
      /\ \A r \in Requests : RequestOK(req[r])
  BY DEF TypedInv, Inv, RowsOK, LiveRanks
<1>2. TypedInv' /\ DefaultInv'
  BY TypedStep DEF TypedInv, Inv
<1>3. ASSUME NEW r \in Requests PROVE Fits(req[r])'
  <2>1. CASE UNCHANGED vars
    BY <2>1 DEF vars, Fits, Course, ShelfIsLive, SeesRow, PlanFits, CreateFits, MoveFits,
       ReorderFits, DeleteFits, Inside, KeepsOrderOf, NewKey, On, Live, Row
  <2>2. CASE DeleteBook
    BY <2>2, DeleteBookFits
  <2>3. CASE CreateShelf
    <3>1. PICK s \in Unused : shelves' = [shelves EXCEPT ![s] = "live"]
      BY <2>3 DEF CreateShelf
    <3>2. UNCHANGED <<books, default, req>>
      BY <2>3 DEF CreateShelf
    <3>3. ShelfIsLive(req[r])'
      <4>1. Active(r) \/ (req[r].kind = "delete_shelf" /\ ~ Answered(r)) => req[r].shelf \in ShelfIds
        BY <1>1 DEF LockInv, DefaultInv
      <4>2. ShelfIsLive(req[r])
        BY DEF Fits
      <4>3. \A t \in ShelfIds : shelves[t] = "live" => shelves'[t] = "live"
        BY <1>1, <3>1 DEF Types
      <4>4. QED
        BY <3>2, <4>1, <4>2, <4>3 DEF ShelfIsLive, Active, Answered
    <3>4. QED
      BY <3>2, <3>3 DEF Fits, Course, SeesRow, PlanFits, CreateFits, MoveFits, ReorderFits,
         DeleteFits, Inside, KeepsOrderOf, NewKey, On, Live, Row
  <2>4. ASSUME NEW p \in Requests, Load(p) \/ Proceed(p) PROVE Fits(req[r])'
    <3>1. p = r
      BY DEF OneAtATime
    <3>2. CASE MakeDefault(r)
      BY <1>1, <1>2, <3>2, MakeDefaultFits
    <3>3. CASE CommitInsert(r) \/ CommitUpdate(r)
      BY <1>1, <3>3, CommitFits
    <3>4. CASE \/ Load(r) \/ PlanAppend(r) \/ PlanAgain(r) \/ PlanReorder(r) \/ PlanDeleteShelf(r)
               \/ FlushShelf(r) \/ Refuse(r) \/ Collision(r)
      <4>1. Fits(req'[r])
        BY <1>1, <3>4, LoadFits, PlanAppendFits, PlanAgainFits, PlanReorderFits,
           PlanDeleteShelfFits, OthersFit
      <4>2. UNCHANGED <<books, shelves, default>>
        BY <1>1, <3>4, LoadEffect, PlanAppendEffect, PlanAgainEffect, PlanReorderEffect,
           PlanDeleteShelfEffect, FlushShelfEffect, RefuseEffect, CollisionEffect
      <4>3. QED
        BY <4>1, <4>2 DEF Fits, Course, ShelfIsLive, SeesRow, PlanFits, CreateFits, MoveFits,
           ReorderFits, DeleteFits, Inside, KeepsOrderOf, NewKey, On, Live, Row
    <3>5. QED
      BY <2>4, <3>1, <3>2, <3>3, <3>4 DEF Proceed
  <2>5. QED
    BY <2>1, <2>2, <2>3, <2>4 DEF Next
<1>4. QED
  BY <1>2, <1>3

LEMMA OrderAlways ==
  ASSUME OneAtATime, RoomToRebalance
  PROVE  Spec => []OrderInv
<1>1. TypedInv /\ Init => OrderInv
  <2>1. Init => \A r \in Requests : Fits(req[r])
    BY IdleFits DEF Init
  <2>2. QED
    BY <2>1 DEF OrderInv
<1>2. OrderInv /\ [Next]_vars => OrderInv'
  BY FitsStep
<1>3. QED
  BY <1>1, <1>2, TypedAlways, PTL DEF Spec

-----------------------------------------------------------------------------
(* The sequences before and after a step.                                   *)

NextRankOf == [b \in BookIds |-> books'[b].rank]

LEMMA ShelfLists ==
  ASSUME KeysUnique, LiveRanks, NEW s
  PROVE  /\ On(s) \subseteq BookIds
         /\ KeyedBy(RankOf, On(s))
         /\ Lists(RankOf, Sorted(On(s)), On(s))
<1>1. On(s) \subseteq BookIds /\ Keyed(RankOf, On(s))
  BY ShelfIsKeyed
<1>2. Lists(RankOf, InOrder(RankOf, On(s)), On(s))
  BY <1>1, InOrderLists DEF Lists
<1>3. KeyedBy(RankOf, On(s))
  BY <1>1 DEF KeyedBy, Keyed
<1>4. QED
  BY <1>1, <1>2, <1>3, SortedInOrder

LEMMA NextKeyed ==
  ASSUME RowsOK', NEW s, NEW S, S \subseteq On(s)'
  PROVE  S \subseteq BookIds /\ KeyedBy(NextRankOf, S)
BY DEF RowsOK, On, KeyedBy, NextRankOf

\* A list of the books of a shelf in the order of their new keys is the new sequence.
LEMMA NextSorted ==
  ASSUME RowsOK', NEW s, NEW q, Lists(NextRankOf, q, On(s)')
  PROVE  Sorted(On(s))' = q
<1> DEFINE S == On(s)'
           position(b) == 1 + Cardinality({c \in S : Less(books'[c].rank, books'[b].rank)})
<1>1. S \subseteq BookIds /\ KeyedBy(NextRankOf, S)
  BY NextKeyed
<1>2. InOrder(NextRankOf, S) = q
  BY <1>1, ListsIs
<1>3. Sorted(On(s))' = [i \in 1 .. Cardinality(S) |-> CHOOSE b \in S : position(b) = i]
  BY DEF Sorted, Position
<1> HIDE DEF S
<1>4. ASSUME NEW b \in S PROVE position(b) = PlaceOf(NextRankOf, b, S)
  <2>1. {c \in S : Less(books'[c].rank, books'[b].rank)} = EarlierThan(NextRankOf, b, S)
    BY <1>1 DEF EarlierThan, NextRankOf
  <2>2. QED
    BY <2>1 DEF PlaceOf
<1> HIDE DEF position
<1>5. ASSUME NEW i \in 1 .. Cardinality(S)
      PROVE  (CHOOSE b \in S : position(b) = i) = CHOOSE b \in S : PlaceOf(NextRankOf, b, S) = i
  BY <1>4
<1>6. Sorted(On(s))' = InOrder(NextRankOf, S)
  BY <1>3, <1>5 DEF InOrder
<1>7. QED
  BY <1>2, <1>6

\* On a shelf whose books keep the order of their keys the sequence stays.
LEMMA SameSorted ==
  ASSUME KeysUnique, LiveRanks, RowsOK', NEW s, On(s)' = On(s),
         \A b, c \in On(s) : Less(books[b].rank, books[c].rank) => Less(books'[b].rank, books'[c].rank)
  PROVE  Sorted(On(s))' = Sorted(On(s))
<1>1. On(s) \subseteq BookIds /\ Lists(RankOf, Sorted(On(s)), On(s))
  BY ShelfLists
<1>2. \A b, c \in On(s) : Less(RankOf[b], RankOf[c]) => Less(NextRankOf[b], NextRankOf[c])
  BY <1>1 DEF RankOf, NextRankOf
<1>3. Lists(NextRankOf, Sorted(On(s)), On(s))
  BY <1>1, <1>2, Rekeyed
<1>4. QED
  BY <1>3, NextSorted

LEMMA AbstractPlaces ==
  ASSUME KeysUnique, RowsOK, NEW b \in BookIds
  PROVE  /\ Order!Placed(b) <=> Live(b)
         /\ Live(b) => Order!ShelfOf(b) = books[b].shelf
<1>1. ASSUME NEW s \in ShelfIds PROVE Order!ToSet(Sorted(On(s))) = On(s)
  <2>1. LiveRanks
    BY DEF RowsOK, LiveRanks
  <2>2. Lists(RankOf, Sorted(On(s)), On(s))
    BY <2>1, ShelfLists
  <2>3. /\ Sorted(On(s)) \in Seq(On(s))
        /\ \A c \in On(s) : \E i \in 1 .. Len(Sorted(On(s))) : Sorted(On(s))[i] = c
    BY <2>2 DEF Lists, ListOf
  <2>4. QED
    BY <2>3 DEF Order!ToSet
<1>2. \A s \in ShelfIds : b \in Order!ToSet([t \in ShelfIds |-> Sorted(On(t))][s]) <=> b \in On(s)
  BY <1>1
<1>3. \A s \in ShelfIds : b \in On(s) <=> Live(b) /\ books[b].shelf = s
  BY DEF On
<1>4. Live(b) => books[b].shelf \in ShelfIds
  BY DEF RowsOK
<1>5. Order!Placed(b) <=> Live(b)
  BY <1>2, <1>3, <1>4 DEF Order!Placed
<1>6. ASSUME Live(b) PROVE Order!ShelfOf(b) = books[b].shelf
  <2>1. \A s \in ShelfIds :
          b \in Order!ToSet([t \in ShelfIds |-> Sorted(On(t))][s]) <=> s = books[b].shelf
    BY <1>2, <1>3, <1>6
  <2>2. QED
    BY <1>4, <1>6, <2>1 DEF Order!ShelfOf
<1>7. QED
  BY <1>5, <1>6

Begun == KeysUnique /\ LiveRanks /\ RowsOK /\ RowsOK'

LEMMA DeleteBookDiscards ==
  ASSUME Begun, DeleteBook
  PROVE  \E b \in BookIds : Order!Discard(b)
<1> USE DEF Begun
<1>1. PICK b \in BookIds : Live(b) /\ books' = [books EXCEPT ![b] = Gone("deleted")]
  BY DEF DeleteBook
<1>2. UNCHANGED <<shelves, default>>
  BY DEF DeleteBook
<1>3. /\ \A c \in BookIds : Live(c)' <=> Live(c) /\ c # b
      /\ \A c \in BookIds \ {b} : books'[c] = books[c]
  BY <1>1, GoneFields DEF Live, RowsOK
<1>4. ASSUME NEW t \in ShelfIds
      PROVE  Sorted(On(t))' = Order!RemoveFirst(Sorted(On(t)), b)
  <2>1. On(t)' = On(t) \ {b} /\ On(t) \subseteq BookIds
    BY <1>3 DEF On
  <2>2. KeyedBy(RankOf, On(t)) /\ Lists(RankOf, Sorted(On(t)), On(t))
    BY ShelfLists
  <2>3. Lists(RankOf, Order!RemoveFirst(Sorted(On(t)), b), On(t) \ {b})
    BY <2>2, ListWithout
  <2>4. \A c \in On(t) \ {b} : NextRankOf[c] = RankOf[c]
    BY <1>3, <2>1 DEF NextRankOf, RankOf
  <2>5. Lists(NextRankOf, Order!RemoveFirst(Sorted(On(t)), b), On(t) \ {b})
    BY <2>3, <2>4, Rekeyed
  <2>6. QED
    BY <2>1, <2>5, NextSorted
<1>5. Order!Placed(b)
  BY <1>1, AbstractPlaces
<1>6. Order!Discard(b)
  BY <1>2, <1>4, <1>5 DEF Order!Discard
<1>7. QED
  BY <1>6

LEMMA CommitInsertRegisters ==
  ASSUME Begun, Types, LockInv, NEW r \in Requests, CommitInsert(r),
         shelves[req[r].shelf] = "live", CreateFits(req[r])
  PROVE  \E b \in BookIds, s \in ShelfIds : Order!Register(b, s)
<1> USE DEF Begun
<1> DEFINE s == req[r].shelf
           key == req[r].ranks[NewBook]
<1>1. /\ req[r].kind = "create_book" /\ req[r].pc \in {"planned", "replanned"}
      /\ UNCHANGED <<shelves, default>>
  BY DEF CommitInsert, Flushing
<1>2. /\ s \in ShelfIds /\ shelves[s] = "live"
      /\ \A c \in On(s) : Less(books[c].rank, key)
  BY <1>1 DEF LockInv, Active, CreateFits
<1>3. PICK b \in BookIds :
        /\ books[b].state = "none"
        /\ books' = [books EXCEPT ![b] =
             [state |-> "live", shelf |-> s, rank |-> key, isbn |-> req[r].isbn]]
  BY DEF CommitInsert
<1> HIDE DEF s, key
<1>4. /\ ~ Live(b) /\ Live(b)' /\ books'[b].shelf = s /\ books'[b].rank = key
      /\ \A c \in BookIds \ {b} : books'[c] = books[c] /\ (Live(c)' <=> Live(c))
  BY <1>3 DEF Live, RowsOK
<1>5. ASSUME NEW t \in ShelfIds
      PROVE  Sorted(On(t))' = IF t = s THEN Append(Sorted(On(t)), b) ELSE Sorted(On(t))
  <2>1. /\ On(t) \subseteq BookIds /\ b \notin On(t)
        /\ Lists(RankOf, Sorted(On(t)), On(t))
    BY <1>4, ShelfLists DEF On
  <2>2. \A c \in On(t) : NextRankOf[c] = RankOf[c] /\ NextRankOf[c] = books[c].rank
    BY <1>4, <2>1 DEF NextRankOf, RankOf
  <2>3. Lists(NextRankOf, Sorted(On(t)), On(t))
    BY <2>1, <2>2, Rekeyed
  <2>4. CASE t = s
    <3>1. On(t)' = On(t) \cup {b}
      BY <1>4, <2>4 DEF On
    <3>2. \A c \in On(t) : Less(NextRankOf[c], NextRankOf[b])
      BY <1>2, <1>4, <2>2, <2>4 DEF NextRankOf
    <3>3. Lists(NextRankOf, Append(Sorted(On(t)), b), On(t) \cup {b})
      BY <2>3, <3>2, ListAppended
    <3>4. QED
      BY <2>4, <3>1, <3>3, NextSorted
  <2>5. CASE t # s
    <3>1. On(t)' = On(t)
      BY <1>4, <2>5 DEF On
    <3>2. QED
      BY <2>3, <2>5, <3>1, NextSorted
  <2>6. QED
    BY <2>4, <2>5
<1>6. ~ Order!Placed(b)
  BY <1>4, AbstractPlaces
<1>7. Order!Register(b, s)
  BY <1>1, <1>2, <1>5, <1>6 DEF Order!Register
<1>8. QED
  BY <1>2, <1>7

\* What an UPDATE makes of the rows.
LEMMA CommitUpdateRows ==
  ASSUME RowsOK, BookShape, NEW r \in Requests, CommitUpdate(r)
  PROVE  \A b \in BookIds :
           /\ Live(b)' <=> Live(b)
           /\ Live(b) =>
                /\ books'[b].rank = NewKey(req[r], b)
                /\ books'[b].shelf = IF b \in DOMAIN req[r].ranks /\ req[r].to # NoShelf
                                     THEN req[r].to ELSE books[b].shelf
<1> SUFFICES ASSUME NEW b \in BookIds
             PROVE  /\ Live(b)' <=> Live(b)
                    /\ Live(b) =>
                         /\ books'[b].rank = NewKey(req[r], b)
                         /\ books'[b].shelf = IF b \in DOMAIN req[r].ranks /\ req[r].to # NoShelf
                                              THEN req[r].to ELSE books[b].shelf
  OBVIOUS
<1>1. books'[b] = IF b \in DOMAIN req[r].ranks /\ Live(b) THEN Written(r, b) ELSE books[b]
  BY DEF CommitUpdate
<1>2. DOMAIN books[b] = BookFields
  BY DEF BookShape
<1>3. /\ Written(r, b).state = books[b].state
      /\ Written(r, b).rank = IF req[r].ranks[b] = None THEN books[b].rank ELSE req[r].ranks[b]
      /\ Written(r, b).shelf = IF req[r].to = NoShelf THEN books[b].shelf ELSE req[r].to
  BY <1>2 DEF Written, BookFields
<1>4. QED
  BY <1>1, <1>3 DEF Live, NewKey

UpdateOf(q) ==
  /\ UNCHANGED default
  /\ \A b \in BookIds :
       /\ Live(b)' <=> Live(b)
       /\ Live(b) => /\ books'[b].rank = NewKey(q, b)
                     /\ books'[b].shelf = IF b \in DOMAIN q.ranks /\ q.to # NoShelf
                                          THEN q.to ELSE books[b].shelf

LEMMA CommitMoveMoves ==
  ASSUME Begun, NEW q, UpdateOf(q), MoveFits(q), UNCHANGED shelves,
         q.book \in BookIds, q.shelf \in ShelfIds, shelves[q.shelf] = "live"
  PROVE  Order!Move(q.book, q.shelf) \/ UNCHANGED Order!vars
<1> USE DEF Begun
<1> DEFINE b == q.book
           s == q.shelf
<1>1. /\ DOMAIN q.ranks = {b} /\ b \in BookIds /\ s \in ShelfIds
      /\ Live(b) => /\ q.to = s \/ (q.to = NoShelf /\ books[b].shelf = s)
                    /\ \A c \in On(s) \ {b} : Less(books[c].rank, NewKey(q, b))
  BY DEF MoveFits
<1> HIDE DEF b, s
<1>2. \A c \in BookIds \ {b} :
        /\ Live(c)' <=> Live(c)
        /\ Live(c) => books'[c].rank = books[c].rank /\ books'[c].shelf = books[c].shelf
  BY <1>1 DEF UpdateOf, NewKey
<1>3. CASE ~ Live(b)
  <2>1. ASSUME NEW t \in ShelfIds PROVE Sorted(On(t))' = Sorted(On(t))
    <3>1. b \notin On(t) /\ b \notin On(t)' /\ On(t) \subseteq BookIds
      BY <1>1, <1>3 DEF On, UpdateOf
    <3>2. On(t)' = On(t) /\ \A c \in On(t) : books'[c].rank = books[c].rank
      BY <1>2, <3>1 DEF On
    <3>3. QED
      BY <3>2, SameSorted
  <2>2. QED
    BY <2>1 DEF Order!vars, UpdateOf
<1>4. CASE Live(b)
  <2>1. /\ Live(b)' /\ books'[b].shelf = s
        /\ books'[b].rank = NewKey(q, b)
        /\ \A c \in On(s) \ {b} : Less(books[c].rank, NewKey(q, b))
    <3>1. s # NoShelf
      BY <1>1, BookshelfAssumption
    <3>2. QED
      BY <1>1, <1>4, <3>1 DEF UpdateOf
  <2>2. ASSUME NEW t \in ShelfIds
        PROVE  Sorted(On(t))' = IF t = s THEN Append(Order!RemoveFirst(Sorted(On(t)), b), b)
                                         ELSE Order!RemoveFirst(Sorted(On(t)), b)
    <3> DEFINE rest == Order!RemoveFirst(Sorted(On(t)), b)
    <3>1. /\ On(t) \subseteq BookIds /\ KeyedBy(RankOf, On(t))
          /\ Lists(RankOf, Sorted(On(t)), On(t))
      BY ShelfLists
    <3>2. Lists(RankOf, rest, On(t) \ {b})
      BY <3>1, ListWithout
    <3> HIDE DEF rest
    <3>3. \A c \in On(t) \ {b} : NextRankOf[c] = RankOf[c] /\ NextRankOf[c] = books[c].rank
      BY <1>2, <3>1 DEF NextRankOf, RankOf, On
    <3>4. Lists(NextRankOf, rest, On(t) \ {b})
      BY <3>2, <3>3, Rekeyed
    <3>5. CASE t = s
      <4>1. On(t)' = (On(t) \ {b}) \cup {b}
        BY <1>1, <1>2, <2>1, <3>5 DEF On
      <4>2. \A c \in On(t) \ {b} : Less(NextRankOf[c], NextRankOf[b])
        BY <1>1, <2>1, <3>3, <3>5 DEF NextRankOf
      <4>3. Lists(NextRankOf, Append(rest, b), (On(t) \ {b}) \cup {b})
        BY <3>4, <4>2, ListAppended
      <4>4. QED
        BY <3>5, <4>1, <4>3, NextSorted DEF rest
    <3>6. CASE t # s
      <4>1. On(t)' = On(t) \ {b}
        BY <1>2, <2>1, <3>6 DEF On
      <4>2. QED
        BY <3>4, <3>6, <4>1, NextSorted DEF rest
    <3>7. QED
      BY <3>5, <3>6
  <2>3. Order!Placed(b)
    BY <1>1, <1>4, AbstractPlaces
  <2>4. s \in {t \in ShelfIds : shelves[t] = "live"}
    BY <1>1 DEF s
  <2>5. Order!Move(b, s)
    BY <2>2, <2>3, <2>4 DEF Order!Move, UpdateOf
  <2>6. QED
    BY <2>5 DEF b, s
<1>5. QED
  BY <1>3, <1>4

LEMMA CommitDeleteCloses ==
  ASSUME Begun, NEW q, UpdateOf(q), DeleteFits(q),
         q.shelf \in ShelfIds, shelves[q.shelf] = "live", q.shelf # default, default \in ShelfIds,
         shelves \in [ShelfIds -> {"none", "live", "deleted"}],
         shelves' = [shelves EXCEPT ![q.shelf] = "deleted"]
  PROVE  Order!Close(q.shelf)
<1> USE DEF Begun
<1> DEFINE s == q.shelf
<1>1. /\ q.to = default /\ default # NoShelf
      /\ DOMAIN q.ranks \subseteq BookIds
      /\ \A b \in DOMAIN q.ranks : Live(b) => books[b].shelf = s
      /\ On(s) \subseteq DOMAIN q.ranks
      /\ \A b, c \in On(s) : Less(books[b].rank, books[c].rank) => Less(NewKey(q, b), NewKey(q, c))
      /\ \A b \in On(s), c \in On(default) : Less(books[c].rank, NewKey(q, b))
  BY BookshelfAssumption DEF DeleteFits, Inside, KeepsOrderOf
<1> HIDE DEF s
<1>2. \A b \in BookIds : Live(b)' <=> Live(b)
  BY DEF UpdateOf
<1>3. \A b \in On(s) : b \in BookIds /\ books'[b].shelf = default /\ books'[b].rank = NewKey(q, b)
  BY <1>1 DEF UpdateOf, On
<1>4. \A b \in BookIds : Live(b) /\ b \notin On(s) =>
        books'[b].shelf = books[b].shelf /\ books'[b].rank = books[b].rank
  BY <1>1 DEF UpdateOf, NewKey, On
<1>5. s # default /\ s \in ShelfIds
  BY DEF s
<1>6. Sorted(On(s))' = << >>
  <2>1. On(s)' = {}
    BY <1>2, <1>3, <1>4, <1>5 DEF On
  <2>2. QED
    BY <2>1, NoneListed, NextSorted
<1>7. Sorted(On(default))' = Sorted(On(default)) \o Sorted(On(s))
  <2>1. (On(default))' = On(default) \cup On(s)
    BY <1>2, <1>3, <1>4, <1>5 DEF On, UpdateOf
  <2>2. /\ On(default) \subseteq BookIds /\ Lists(RankOf, Sorted(On(default)), On(default))
        /\ On(s) \subseteq BookIds /\ Lists(RankOf, Sorted(On(s)), On(s))
    BY ShelfLists
  <2>3. \A c \in On(default) : NextRankOf[c] = RankOf[c] /\ NextRankOf[c] = books[c].rank
    BY <1>4, <1>5, <2>2 DEF NextRankOf, RankOf, On
  <2>4. \A b \in On(s) : NextRankOf[b] = NewKey(q, b) /\ RankOf[b] = books[b].rank
    BY <1>3 DEF NextRankOf, RankOf
  <2>5. Lists(NextRankOf, Sorted(On(default)), On(default))
    BY <2>2, <2>3, Rekeyed
  <2>6. Lists(NextRankOf, Sorted(On(s)), On(s))
    BY <1>1, <2>2, <2>4, Rekeyed
  <2>7. \A c \in On(default), b \in On(s) : Less(NextRankOf[c], NextRankOf[b])
    BY <1>1, <2>3, <2>4
  <2>8. Lists(NextRankOf, Sorted(On(default)) \o Sorted(On(s)), On(default) \cup On(s))
    BY <2>5, <2>6, <2>7, ListsJoined
  <2>9. default' = default
    BY DEF UpdateOf
  <2>10. Lists(NextRankOf, Sorted(On(default)) \o Sorted(On(s)), On(default)')
    BY <2>1, <2>8, <2>9
  <2>11. QED
    BY <2>10, NextSorted, <2>9
<1>8. ASSUME NEW t \in ShelfIds \ {s, default} PROVE Sorted(On(t))' = Sorted(On(t))
  <2>1. On(t)' = On(t) /\ \A b \in On(t) : books'[b].rank = books[b].rank
    BY <1>2, <1>3, <1>4 DEF On
  <2>2. QED
    BY <2>1, SameSorted
<1>9. default' = default
  BY DEF UpdateOf
<1>10. /\ s \in {t \in ShelfIds : shelves[t] = "live"} \ {default}
       /\ {t \in ShelfIds : shelves'[t] = "live"} = {t \in ShelfIds : shelves[t] = "live"} \ {s}
  BY <1>5 DEF s
<1>11. [t \in ShelfIds |-> Sorted(On(t))']
         = [[t \in ShelfIds |-> Sorted(On(t))] EXCEPT
              ![s] = << >>, ![default] = Sorted(On(default)) \o Sorted(On(s))]
  BY <1>5, <1>6, <1>7, <1>8, <1>9
<1>12. Order!Close(s)
  BY <1>1, <1>5, <1>9, <1>10, <1>11 DEF Order!Close
<1>13. QED
  BY <1>12 DEF s

LEMMA PlaceIs ==
  ASSUME NEW b, NEW pivot, NEW side, NEW rest, UNCHANGED <<shelves, default>>,
         Order!Placed(b), Order!Placed(pivot), b # pivot,
         Order!ShelfOf(b) = Order!ShelfOf(pivot),
         rest = Order!RemoveFirst([t \in ShelfIds |-> Sorted(On(t))][Order!ShelfOf(b)], b),
         [t \in ShelfIds |-> Sorted(On(t))']
           = [[t \in ShelfIds |-> Sorted(On(t))] EXCEPT
                ![Order!ShelfOf(b)] =
                   Order!InsertAt(rest, IF side = "before" THEN First(rest, pivot)
                                        ELSE First(rest, pivot) + 1, b)]
  PROVE  Order!Place(b, pivot, side)
<1>1. {t \in ShelfIds : shelves'[t] = "live"} = {t \in ShelfIds : shelves[t] = "live"}
  OBVIOUS
<1>2. QED
  BY <1>1, ZenonT(40) DEF Order!Place, Order!SelectInSeq, First

\* The only books that change places are on the shelf of the request, and they are
\* back in their old order but for the one the request is about.
LEMMA CommitReorderPlaces ==
  ASSUME Begun, KeysUnique', NEW q, UpdateOf(q), ReorderFits(q), q.to = NoShelf, UNCHANGED shelves,
         q.book \in BookIds, Live(q.book) => books[q.book].shelf \in ShelfIds
  PROVE  \/ \E pivot \in BookIds, side \in {"before", "after"} : Order!Place(q.book, pivot, side)
         \/ UNCHANGED Order!vars
<1> USE DEF Begun
<1> DEFINE b == q.book
           s == q.shelf
<1>1. /\ \A c \in DOMAIN q.ranks : Live(c) => books[c].shelf = s
      /\ \A c, d \in On(s) \ {b} :
           Less(books[c].rank, books[d].rank) => Less(NewKey(q, c), NewKey(q, d))
      /\ b \in BookIds
  BY DEF ReorderFits, Inside, KeepsOrderOf
<1> HIDE DEF b, s
<1>2. \A c \in BookIds :
        /\ Live(c)' <=> Live(c)
        /\ Live(c) => books'[c].rank = NewKey(q, c) /\ books'[c].shelf = books[c].shelf
  BY DEF UpdateOf
<1>3. \A t : On(t)' = On(t) /\ On(t) \subseteq BookIds
  BY <1>2 DEF On
<1>4. ASSUME NEW t \in ShelfIds \ {s} PROVE Sorted(On(t))' = Sorted(On(t))
  <2>1. \A c \in On(t) : books'[c].rank = books[c].rank
    BY <1>1, <1>2 DEF NewKey, On
  <2>2. QED
    BY <1>3, <2>1, SameSorted
<1>5. CASE b \notin On(s)
  <2>1. On(s) \ {b} = On(s) /\ \A c \in On(s) : books'[c].rank = NewKey(q, c)
    BY <1>2, <1>5 DEF On
  <2>2. Sorted(On(s))' = Sorted(On(s))
    BY <1>1, <1>3, <2>1, SameSorted
  <2>3. \A t \in ShelfIds : Sorted(On(t))' = Sorted(On(t))
    BY <1>4, <2>2
  <2>4. QED
    BY <2>3 DEF Order!vars, UpdateOf
<1>6. CASE b \in On(s)
  <2> DEFINE S    == On(s)
             new  == InOrder(NextRankOf, S)
             rest == Order!RemoveFirst(Sorted(S), b)
  <2>1. /\ S \subseteq BookIds /\ KeyedBy(RankOf, S) /\ Lists(RankOf, Sorted(S), S)
        /\ KeyedBy(NextRankOf, S) /\ IsFiniteSet(S) /\ b \in S
    <3>1. Keyed(RankOf, S)
      BY ShelfIsKeyed
    <3>2. QED
      BY <1>3, <1>6, <3>1, ShelfLists, NextKeyed DEF Keyed
  <2>2. \A c, d \in S : NextRankOf[c] = NextRankOf[d] => c = d
    <3> SUFFICES ASSUME NEW c \in S, NEW d \in S, NextRankOf[c] = NextRankOf[d], c # d PROVE FALSE
      OBVIOUS
    <3>1. c \in On(s)' /\ d \in On(s)'
      BY <1>3
    <3>2. /\ Live(c)' /\ c \in BookIds /\ d \in BookIds /\ books'[c].shelf = s
          /\ books'[c].rank = books'[d].rank
      BY <2>1, <3>1 DEF On, NextRankOf
    <3>3. d \in On(books[c].shelf)' \ {c}
      BY <3>1, <3>2
    <3>4. QED
      BY <3>2, <3>3 DEF KeysUnique
  <2> HIDE DEF S
  <2>3. Lists(NextRankOf, new, S)
    BY <2>1, <2>2, InOrderLists DEF Lists, Keyed, KeyedBy
  <2>4. Sorted(On(s))' = new
    BY <1>3, <2>3, NextSorted DEF S
  <2>5. Lists(RankOf, rest, S \ {b})
    BY <2>1, ListWithout
  <2> HIDE DEF new, rest
  <2>6. \A c \in S : RankOf[c] = books[c].rank /\ NextRankOf[c] = NewKey(q, c)
    BY <1>2, <2>1 DEF RankOf, NextRankOf, S, On
  <2>7. Lists(NextRankOf, rest, S \ {b})
    BY <1>1, <2>5, <2>6, Rekeyed DEF S
  <2>8. Order!RemoveFirst(new, b) = rest
    <3>1. Lists(NextRankOf, Order!RemoveFirst(new, b), S \ {b})
      BY <2>1, <2>3, ListWithout
    <3>2. KeyedBy(NextRankOf, S \ {b})
      BY <2>1 DEF KeyedBy
    <3>3. QED
      BY <2>7, <3>1, <3>2, ListsIs
  <2>9. /\ new \in Seq(S) /\ Len(new) \in Nat
        /\ \A i \in 1 .. Len(new) : new[i] \in S
        /\ \A c \in S : \E i \in 1 .. Len(new) : new[i] = c
        /\ \A i, j \in 1 .. Len(new) : new[i] = new[j] => i = j
        /\ \A i, j \in 1 .. Len(new) : i < j => Less(NextRankOf[new[i]], NextRankOf[new[j]])
    <3> HIDE DEF NextRankOf
    <3>1. QED
      BY <2>1, <2>3, ListsOnce
  <2>10. PICK p \in 1 .. Len(new) : new[p] = b
    BY <2>1, <2>9
  <2>11. rest = Without(new, p) /\ Order!InsertAt(rest, p, b) = new
    BY <2>8, <2>9, <2>10, FoundAt, PutBack
  <2>12. Len(rest) = Len(new) - 1
    BY <2>9, <2>11, WithoutIs
  <2>13. /\ rest \in Seq(S \ {b})
         /\ \A i \in 1 .. Len(rest) : rest[i] \in S \ {b}
         /\ \A i, j \in 1 .. Len(rest) : rest[i] = rest[j] => i = j
    <3>1. KeyedBy(NextRankOf, S \ {b})
      BY <2>1 DEF KeyedBy
    <3>2. QED
      BY <2>7, <3>1, ListsOnce
  <2>14. /\ Order!Placed(b) /\ Order!ShelfOf(b) = s /\ s \in ShelfIds
         /\ \A c \in S : Order!Placed(c) /\ Order!ShelfOf(c) = s
    <3>1. \A c \in S : Live(c) /\ c \in BookIds /\ books[c].shelf = s
      BY DEF S, On
    <3>2. s \in ShelfIds
      BY <2>1, <3>1 DEF b
    <3>3. QED
      BY <2>1, <3>1, <3>2, AbstractPlaces
  <2>15. \A side \in {"before", "after"} : \A k \in 1 .. Len(rest) :
           (IF side = "before" THEN k ELSE k + 1) = p => Order!Place(b, rest[k], side)
    <3> SUFFICES ASSUME NEW side \in {"before", "after"}, NEW k \in 1 .. Len(rest),
                        (IF side = "before" THEN k ELSE k + 1) = p
                 PROVE  Order!Place(b, rest[k], side)
      OBVIOUS
    <3>1. rest[k] \in S /\ rest[k] # b
      BY <2>13
    <3>2. First(rest, rest[k]) = k
      <4>1. Len(rest) \in Nat
        BY <2>13
      <4>2. QED
        BY <2>13, <4>1, FoundFirst
    <3>3. [t \in ShelfIds |-> Sorted(On(t))']
            = [[t \in ShelfIds |-> Sorted(On(t))] EXCEPT ![s] = new]
      BY <1>4, <2>4
    <3>4. Order!InsertAt(rest, IF side = "before" THEN k ELSE k + 1, b) = new
      BY <2>11
    <3>5. [t \in ShelfIds |-> Sorted(On(t))][s] = Sorted(S)
      BY <2>14 DEF S
    <3>6. Order!RemoveFirst([t \in ShelfIds |-> Sorted(On(t))][Order!ShelfOf(b)], b) = rest
      BY <2>14, <3>5 DEF rest
    <3>7. /\ Order!Placed(b) /\ Order!Placed(rest[k]) /\ b # rest[k]
          /\ Order!ShelfOf(b) = s /\ Order!ShelfOf(rest[k]) = s
          /\ UNCHANGED <<shelves, default>>
      BY <2>14, <3>1 DEF UpdateOf
    <3> HIDE DEF rest
    <3>8. QED
      BY <3>2, <3>3, <3>4, <3>6, <3>7, PlaceIs
  <2>16. CASE Len(rest) = 0
    <3>1. ASSUME NEW c \in S PROVE c = b
      <4>1. PICK i \in 1 .. Len(new) : new[i] = c
        BY <2>9
      <4>2. Len(new) = 1
        BY <2>9, <2>12, <2>16
      <4>3. i = 1 /\ p = 1
        BY <4>2
      <4>4. QED
        BY <2>10, <4>1, <4>3
    <3>2. \A c, d \in On(s) :
            Less(books[c].rank, books[d].rank) => Less(books'[c].rank, books'[d].rank)
      BY <2>1, <3>1, LessIrreflexive, <2>6 DEF S, KeyedBy
    <3>3. Sorted(On(s))' = Sorted(On(s))
      BY <1>3, <3>2, SameSorted
    <3>4. \A t \in ShelfIds : Sorted(On(t))' = Sorted(On(t))
      BY <1>4, <3>3
    <3>5. QED
      BY <3>4 DEF Order!vars, UpdateOf
  <2>17. CASE Len(rest) # 0
    <3>1. Len(rest) \in Nat
      BY <2>13
    <3>2. \E k \in 1 .. Len(rest), side \in {"before", "after"} :
            (IF side = "before" THEN k ELSE k + 1) = p
      <4>1. CASE p = 1
        <5>1. 1 \in 1 .. Len(rest) /\ (IF "before" = "before" THEN 1 ELSE 1 + 1) = p
          BY <2>17, <3>1, <4>1
        <5>2. QED
          BY <5>1
      <4>2. CASE p # 1
        <5>1. /\ p - 1 \in 1 .. Len(rest)
              /\ (IF "after" = "before" THEN p - 1 ELSE (p - 1) + 1) = p
          BY <2>9, <2>12, <4>2
        <5>2. QED
          BY <5>1
      <4>3. QED
        BY <4>1, <4>2
    <3>3. PICK k \in 1 .. Len(rest), side \in {"before", "after"} : Order!Place(b, rest[k], side)
      BY <2>15, <3>2
    <3>4. rest[k] \in BookIds
      BY <2>1, <2>13
    <3>5. QED
      BY <3>3, <3>4 DEF b
  <2>18. QED
    BY <2>16, <2>17
<1>7. QED
  BY <1>5, <1>6

-----------------------------------------------------------------------------
(* Every step is one of ShelfOrder's, or leaves the sequences as they are.  *)

LEMMA OrderInit == Init => Order!Init
<1> SUFFICES ASSUME Init PROVE Order!Init
  OBVIOUS
<1>1. \A b \in BookIds : ~ Live(b)
  BY GoneFields DEF Init, Live
<1>2. ASSUME NEW s \in ShelfIds PROVE Sorted(On(s)) = << >>
  <2>1. On(s) = {}
    BY <1>1 DEF On
  <2>2. Sorted(On(s)) = InOrder(RankOf, {})
    BY <2>1, SortedInOrder
  <2>3. << >> = InOrder(RankOf, {})
    BY NoneListed, ListsIs DEF KeyedBy
  <2>4. QED
    BY <2>2, <2>3
<1>3. default \in ShelfIds \cup {NoShelf}
  BY DEF Init
<1>4. {s \in ShelfIds : shelves[s] = "live"} = {default} \ {NoShelf}
  BY BookshelfAssumption DEF Init
<1>5. QED
  BY <1>2, <1>3, <1>4 DEF Order!Init

LEMMA RowsKeepOrder ==
  ASSUME UNCHANGED <<books, shelves, default>>
  PROVE  UNCHANGED Order!vars
BY DEF Order!vars, Sorted, Position, On, Live

LEMMA ShelfOpens ==
  ASSUME Types, NEW s \in Unused, shelves' = [shelves EXCEPT ![s] = "live"], UNCHANGED books
  PROVE  /\ s \in ShelfIds
         /\ s \notin {t \in ShelfIds : shelves[t] = "live"}
         /\ {t \in ShelfIds : shelves'[t] = "live"}
              = {t \in ShelfIds : shelves[t] = "live"} \cup {s}
         /\ [t \in ShelfIds |-> Sorted(On(t))'] = [t \in ShelfIds |-> Sorted(On(t))]
<1>1. s \in ShelfIds /\ shelves[s] = "none" /\ shelves \in [ShelfIds -> {"none", "live", "deleted"}]
  BY DEF Unused, Types
<1>2. \A t \in ShelfIds : shelves'[t] = IF t = s THEN "live" ELSE shelves[t]
  BY <1>1
<1>3. [t \in ShelfIds |-> Sorted(On(t))'] = [t \in ShelfIds |-> Sorted(On(t))]
  BY DEF Sorted, Position, On, Live
<1>4. QED
  BY <1>1, <1>2, <1>3

LEMMA CreateShelfOpens ==
  ASSUME Types, CreateShelf
  PROVE  \E s \in ShelfIds : Order!Open(s)
<1>1. PICK s \in Unused : shelves' = [shelves EXCEPT ![s] = "live"]
  BY DEF CreateShelf
<1>2. UNCHANGED <<books, default>>
  BY DEF CreateShelf
<1>3. Order!Open(s) /\ s \in ShelfIds
  BY <1>1, <1>2, ShelfOpens DEF Order!Open
<1>4. QED
  BY <1>3

LEMMA MakeDefaultOpens ==
  ASSUME Types, NEW r \in Requests, MakeDefault(r)
  PROVE  (\E s \in ShelfIds : Order!OpenDefault(s)) \/ UNCHANGED Order!vars
<1>1. UNCHANGED books
  BY MakeDefaultEffect
<1>2. CASE UNCHANGED <<shelves, default>>
  BY <1>1, <1>2, RowsKeepOrder
<1>3. CASE /\ default = NoShelf /\ default' \in Unused
           /\ shelves' = [shelves EXCEPT ![default'] = "live"]
  <2>1. PICK s \in Unused : s = default' /\ shelves' = [shelves EXCEPT ![s] = "live"]
    BY <1>3
  <2>2. /\ s \in ShelfIds
        /\ s \notin {t \in ShelfIds : shelves[t] = "live"}
        /\ {t \in ShelfIds : shelves'[t] = "live"}
             = {t \in ShelfIds : shelves[t] = "live"} \cup {s}
        /\ [t \in ShelfIds |-> Sorted(On(t))'] = [t \in ShelfIds |-> Sorted(On(t))]
    BY <1>1, <2>1, ShelfOpens
  <2>3. Order!OpenDefault(s)
    BY <1>3, <2>1, <2>2 DEF Order!OpenDefault
  <2>4. QED
    BY <2>2, <2>3
<1>4. QED
  BY <1>2, <1>3, MakeDefaultEffect

LEMMA CommitUpdateEdits ==
  ASSUME Begun, KeysUnique', Types, BookShape, LockInv, DefaultInv,
         NEW r \in Requests, Fits(req[r]), CommitUpdate(r)
  PROVE  \/ \E b \in BookIds, s \in ShelfIds : Order!Move(b, s)
         \/ \E b, pivot \in BookIds, side \in {"before", "after"} : Order!Place(b, pivot, side)
         \/ \E s \in ShelfIds : Order!Close(s)
         \/ UNCHANGED Order!vars
<1>0. PICK q : q = req[r]
  OBVIOUS
<1>1. /\ \/ q.kind \in {"move_book_shelf", "reorder_book"} /\ q.pc \in {"planned", "replanned"}
         \/ q.kind = "delete_shelf" /\ q.pc = "flushing"
      /\ Course(q) /\ ShelfIsLive(q) /\ PlanFits(q)
      /\ q.kind = "reorder_book" => q.pc = "planned"
  BY <1>0 DEF CommitUpdate, Flushing, Fits, Course
<1>2. UpdateOf(q)
  BY <1>0, CommitUpdateRows DEF UpdateOf, CommitUpdate, Begun
<1>3. q.pc \in {"planned", "replanned", "flushing"} /\ q.kind # "reorder_book" => q.shelf \in ShelfIds
  BY <1>0 DEF LockInv, Active
<1>4. shelves' = IF q.kind = "delete_shelf" THEN [shelves EXCEPT ![q.shelf] = "deleted"] ELSE shelves
  BY <1>0 DEF CommitUpdate
<1>5. q.kind = "delete_shelf" /\ q.pc = "flushing" => q.shelf # default
  BY <1>0 DEF DefaultInv, Answered
<1>6. CASE q.kind = "move_book_shelf"
  <2>1. /\ MoveFits(q) /\ shelves[q.shelf] = "live" /\ q.book \in BookIds /\ q.shelf \in ShelfIds
        /\ UNCHANGED shelves
    BY <1>1, <1>3, <1>4, <1>6 DEF Course, ShelfIsLive, PlanFits
  <2>2. Order!Move(q.book, q.shelf) \/ UNCHANGED Order!vars
    BY <1>2, <2>1, CommitMoveMoves
  <2>3. QED
    BY <2>1, <2>2
<1>7. CASE q.kind = "reorder_book"
  <2>1. ReorderFits(q) /\ q.to = NoShelf /\ q.book \in BookIds /\ UNCHANGED shelves
    BY <1>1, <1>4, <1>7 DEF Course, PlanFits
  <2>2. Live(q.book) => books[q.book].shelf \in ShelfIds
    BY <2>1 DEF Begun, RowsOK
  <2>3. \/ \E pivot \in BookIds, side \in {"before", "after"} : Order!Place(q.book, pivot, side)
        \/ UNCHANGED Order!vars
    BY <1>2, <2>1, <2>2, CommitReorderPlaces
  <2>4. QED
    BY <2>1, <2>3
<1>8. CASE q.kind = "delete_shelf"
  <2>1. /\ DeleteFits(q) /\ shelves[q.shelf] = "live" /\ default \in ShelfIds
        /\ q.shelf \in ShelfIds /\ q.shelf # default
        /\ shelves' = [shelves EXCEPT ![q.shelf] = "deleted"]
    BY <1>1, <1>3, <1>4, <1>5, <1>8 DEF ShelfIsLive, PlanFits
  <2>2. shelves \in [ShelfIds -> {"none", "live", "deleted"}]
    BY DEF Types
  <2>3. Order!Close(q.shelf)
    BY <1>2, <2>1, <2>2, CommitDeleteCloses
  <2>4. QED
    BY <2>1, <2>3
<1>9. QED
  BY <1>1, <1>6, <1>7, <1>8

LEMMA OrderStep ==
  ASSUME RoomToRebalance, OrderInv, [Next]_vars
  PROVE  [Order!Next]_(Order!vars)
<1>1. /\ Types /\ LockInv /\ DefaultInv /\ BookShape /\ KeysUnique /\ LiveRanks /\ RowsOK
      /\ \A r \in Requests : Fits(req[r])
  BY DEF OrderInv, TypedInv, Inv, RowsOK, LiveRanks
<1>2. KeysUnique' /\ RowsOK'
  BY TypedStep DEF OrderInv, TypedInv
<1>3. Begun
  BY <1>1, <1>2 DEF Begun
<1>4. \/ \E s \in ShelfIds : Order!Open(s) \/ Order!OpenDefault(s) \/ Order!Close(s)
      \/ \E b \in BookIds : Order!Discard(b)
      \/ \E b \in BookIds, s \in ShelfIds : Order!Register(b, s) \/ Order!Move(b, s)
      \/ \E b, pivot \in BookIds, side \in {"before", "after"} : Order!Place(b, pivot, side)
      \/ UNCHANGED Order!vars
  <2>1. CASE UNCHANGED vars
    BY <2>1, RowsKeepOrder DEF vars
  <2>2. CASE DeleteBook
    BY <1>3, <2>2, DeleteBookDiscards
  <2>3. CASE CreateShelf
    BY <1>1, <2>3, CreateShelfOpens
  <2>4. ASSUME NEW r \in Requests, Load(r) \/ Proceed(r)
        PROVE  \/ \E s \in ShelfIds : Order!Open(s) \/ Order!OpenDefault(s) \/ Order!Close(s)
               \/ \E b \in BookIds : Order!Discard(b)
               \/ \E b \in BookIds, s \in ShelfIds : Order!Register(b, s) \/ Order!Move(b, s)
               \/ \E b, pivot \in BookIds, side \in {"before", "after"} : Order!Place(b, pivot, side)
               \/ UNCHANGED Order!vars
    <3>1. CASE MakeDefault(r)
      BY <1>1, <3>1, MakeDefaultOpens
    <3>2. CASE CommitInsert(r)
      <4>1. shelves[req[r].shelf] = "live" /\ CreateFits(req[r])
        BY <1>1, <3>2 DEF CommitInsert, Flushing, Fits, ShelfIsLive, PlanFits
      <4>2. QED
        BY <1>1, <1>3, <3>2, <4>1, CommitInsertRegisters
    <3>3. CASE CommitUpdate(r)
      BY <1>1, <1>2, <1>3, <3>3, CommitUpdateEdits
    <3>4. CASE \/ Load(r) \/ PlanAppend(r) \/ PlanAgain(r) \/ PlanReorder(r) \/ PlanDeleteShelf(r)
               \/ FlushShelf(r) \/ Refuse(r) \/ Collision(r)
      <4>1. UNCHANGED <<books, shelves, default>>
        BY <1>1, <3>4, LoadEffect, PlanAppendEffect, PlanAgainEffect, PlanReorderEffect,
           PlanDeleteShelfEffect, FlushShelfEffect, RefuseEffect, CollisionEffect
      <4>2. QED
        BY <4>1, RowsKeepOrder
    <3>5. QED
      BY <2>4, <3>1, <3>2, <3>3, <3>4 DEF Proceed
  <2>5. QED
    BY <2>1, <2>2, <2>3, <2>4 DEF Next
<1>5. QED
  BY <1>4 DEF Order!Next

\* KeepsOrder: requests that run one at a time do to the sequences of books what
\* ShelfOrder says and nothing else - a new or moved book goes to the end of its
\* shelf, a reordered one next to its pivot, the books of a deleted shelf follow
\* those of the default one - for every number of shelves and books.
THEOREM OrderIsKept ==
  ASSUME OneAtATime, RoomToRebalance
  PROVE  Spec => KeepsOrder
<1>1. OrderInv /\ [Next]_vars => [Order!Next]_(Order!vars)
  BY OrderStep
<1>2. QED
  BY OrderInit, <1>1, OrderAlways, PTL DEF Spec, KeepsOrder, Order!Spec

-----------------------------------------------------------------------------
(* Registrations that overlap.                                             *)

OnlyRegistering == Kinds \subseteq {"create_book", "delete_book", "create_shelf", "get_shelves"}

\* The shelf of a registration that has begun is there.
TargetsLive ==
  \A r \in Requests :
    req[r].kind = "create_book" /\ req[r].pc \in {"loaded", "planned", "collided", "replanned"} =>
      shelves[req[r].shelf] = "live"

RegisterOrderInv == TypedInv /\ RegisterInv /\ TargetsLive

LEMMA OnlyInserts ==
  ASSUME OnlyRegistering, RegisterInv, NEW r \in Requests
  PROVE  ~ CommitUpdate(r)
BY DEF OnlyRegistering, RegisterInv, PlanOK, CommitUpdate, Flushing

LEMMA LiveShelvesStay ==
  ASSUME OnlyRegistering, Inv, RegisterInv, [Next]_vars, NEW s \in ShelfIds, shelves[s] = "live"
  PROVE  shelves'[s] = "live"
<1> USE DEF Inv
<1>1. CASE UNCHANGED shelves
  BY <1>1
<1>2. CASE CreateShelf
  BY <1>2 DEF CreateShelf, Unused, Types
<1>3. ASSUME NEW r \in Requests, MakeDefault(r) PROVE shelves'[s] = "live"
  BY <1>3, MakeDefaultEffect DEF Unused, Types
<1>4. ASSUME NEW r \in Requests, CommitInsert(r) PROVE shelves'[s] = "live"
  BY <1>4 DEF CommitInsert
<1>5. ASSUME NEW r \in Requests, Load(r) \/ Proceed(r) PROVE shelves'[s] = "live"
  BY <1>1, <1>3, <1>4, <1>5, OnlyInserts, LoadEffect, PlanAppendEffect, PlanAgainEffect,
     PlanReorderEffect, PlanDeleteShelfEffect, FlushShelfEffect, RefuseEffect, CollisionEffect
     DEF Proceed
<1>6. QED
  BY <1>1, <1>2, <1>5 DEF Next, vars, DeleteBook

LEMMA BegunOnLive ==
  ASSUME Types, DefaultInv, NEW r \in Requests, Load(r), req'[r].kind = "create_book",
         req'[r].pc = "loaded"
  PROVE  shelves[req'[r].shelf] = "live"
<1>1. CASE CreateBook(r)
  <2>1. PICK s \in ShelfIds \cup {NoShelf}, i \in Isbns \cup {NoIsbn} :
          /\ s # NoShelf => shelves[s] = "live"
          /\ Begin(r, "create_book",
               [Idle EXCEPT !.pc = IF s = NoShelf THEN NextPC ELSE "loaded",
                            !.shelf = IF s = NoShelf THEN default ELSE s, !.isbn = i])
    BY <1>1 DEF CreateBook
  <2> DEFINE request == [Idle EXCEPT !.pc = IF s = NoShelf THEN NextPC ELSE "loaded",
                           !.shelf = IF s = NoShelf THEN default ELSE s, !.isbn = i]
  <2>2. /\ DOMAIN request = Fields
        /\ request.pc = IF s = NoShelf THEN NextPC ELSE "loaded"
        /\ request.shelf = IF s = NoShelf THEN default ELSE s
    BY DEF Idle, Fields
  <2> HIDE DEF request
  <2>3. Effect(r, "create_book", request.pc, request.shelf)
    BY <2>1, <2>2, BeginEffect DEF request
  <2>4. req'[r].pc = request.pc /\ req'[r].shelf = request.shelf
    BY <2>3 DEF Effect
  <2>5. NextPC = "loaded" => default # NoShelf
    BY DEF NextPC
  <2>6. QED
    BY <2>1, <2>2, <2>4, <2>5 DEF DefaultInv
<1>2. ASSUME NEW kind, NEW request, DOMAIN request = Fields, kind # "create_book",
             Begin(r, kind, request)
      PROVE  FALSE
  BY <1>2, BeginEffect DEF Effect
<1>3. CASE MoveBookShelf(r)
  <2>1. PICK b \in BookIds, s \in ShelfIds \ Unused :
          Begin(r, "move_book_shelf",
            [Idle EXCEPT !.pc = "loaded", !.book = b, !.shelf = s, !.row = Row(b)])
    BY <1>3 DEF MoveBookShelf
  <2>2. DOMAIN [Idle EXCEPT !.pc = "loaded", !.book = b, !.shelf = s, !.row = Row(b)] = Fields
    BY DEF Idle, Fields
  <2>3. QED
    BY <1>2, <2>1, <2>2
<1>4. CASE ReorderBook(r)
  <2>1. PICK b \in BookIds, pivot \in BookIds, side \in {"before", "after"} :
          Begin(r, "reorder_book",
            [Idle EXCEPT !.pc = "loaded", !.book = b, !.shelf = books[b].shelf,
                         !.pivot = pivot, !.side = side, !.row = Row(b)])
    BY <1>4 DEF ReorderBook
  <2>2. DOMAIN [Idle EXCEPT !.pc = "loaded", !.book = b, !.shelf = books[b].shelf,
                            !.pivot = pivot, !.side = side, !.row = Row(b)] = Fields
    BY DEF Idle, Fields
  <2>3. QED
    BY <1>2, <2>1, <2>2
<1>5. CASE GetShelves(r)
  <2>1. DOMAIN [Idle EXCEPT !.pc = "make_default"] = Fields
    BY DEF Idle, Fields
  <2>2. QED
    BY <1>2, <1>5, <2>1 DEF GetShelves
<1>6. CASE DeleteShelf(r)
  <2>1. PICK s \in ShelfIds : Begin(r, "delete_shelf", [Idle EXCEPT !.pc = NextPC, !.shelf = s])
    BY <1>6 DEF DeleteShelf
  <2>2. DOMAIN [Idle EXCEPT !.pc = NextPC, !.shelf = s] = Fields
    BY DEF Idle, Fields
  <2>3. QED
    BY <1>2, <2>1, <2>2
<1>7. QED
  BY <1>1, <1>3, <1>4, <1>5, <1>6 DEF Load

LEMMA TargetsLiveStep ==
  ASSUME OnlyRegistering, Inv, RegisterInv, TargetsLive, [Next]_vars
  PROVE  TargetsLive'
<1> USE DEF Inv
<1> SUFFICES ASSUME NEW q \in Requests, req'[q].kind = "create_book",
                    req'[q].pc \in {"loaded", "planned", "collided", "replanned"}
             PROVE  shelves'[req'[q].shelf] = "live"
  BY DEF TargetsLive
<1>1. CASE /\ req'[q].shelf = req[q].shelf /\ req[q].kind = "create_book"
           /\ req[q].pc \in {"loaded", "planned", "collided", "replanned"}
  <2>1. req[q].shelf \in ShelfIds /\ shelves[req[q].shelf] = "live"
    BY <1>1 DEF LockInv, Active, TargetsLive
  <2>2. QED
    BY <1>1, <2>1, LiveShelvesStay
<1>2. CASE Load(q)
  <2>1. req'[q].pc = "loaded" /\ shelves' = shelves
    BY <1>2, LoadEffect DEF Effect
  <2>2. QED
    BY <1>2, <2>1, BegunOnLive
<1>3. CASE MakeDefault(q)
  <2>1. req'[q].shelf = default' /\ default' # NoShelf
    BY <1>3, MakeDefaultEffect, BookshelfAssumption DEF Effect
  <2>2. DefaultInv'
    BY InvStep
  <2>3. QED
    BY <2>1, <2>2 DEF DefaultInv
<1>4. CASE Proceed(q) /\ ~ MakeDefault(q)
  <2>1. /\ req'[q].shelf = req[q].shelf /\ req[q].kind = "create_book"
        /\ req[q].pc \in {"loaded", "planned", "collided", "replanned"}
    BY <1>4, PlanAppendEffect, PlanAgainEffect, PlanReorderEffect, PlanDeleteShelfEffect,
       FlushShelfEffect, RefuseEffect, CommitEffect, CollisionEffect DEF Proceed, Effect
  <2>2. QED
    BY <1>1, <2>1
<1>5. QED
  BY <1>1, <1>2, <1>3, <1>4, OtherRequests DEF Next, vars, DeleteBook, CreateShelf

LEMMA RegisterOrderAlways ==
  ASSUME OnlyRegistering, RoomToRebalance
  PROVE  Spec => []RegisterOrderInv
<1>1. Registering
  BY DEF Registering, OnlyRegistering
<1>2. Init => TargetsLive
  BY IdleFields DEF Init, TargetsLive
<1>3. TypedInv /\ RegInv /\ TargetsLive /\ [Next]_vars => TargetsLive'
  BY TargetsLiveStep DEF RegInv
<1>4. RegInv => RegisterInv
  BY DEF RegInv
<1>5. QED
  BY <1>1, <1>2, <1>3, <1>4, RegInvAlways, TypedAlways, PTL DEF Spec, RegisterOrderInv

\* The INSERT of a second attempt, whose transaction no longer has the shelf's lock.
SecondAttempt == \E r \in Requests : req[r].pc = "replanned" /\ CommitInsert(r)

OrderButForSecondAttempts == Order!Init /\ [][Order!Next \/ SecondAttempt]_(Order!vars)

LEMMA RegisterOrderStep ==
  ASSUME OnlyRegistering, RegisterOrderInv, RegisterOrderInv', [Next]_vars
  PROVE  [Order!Next \/ SecondAttempt]_(Order!vars)
<1>1. /\ Types /\ LockInv /\ RegisterInv /\ Inv
      /\ Begun
  BY DEF RegisterOrderInv, TypedInv, Inv, RegisterInv, Begun
<1>2. CASE UNCHANGED vars
  BY <1>2, RowsKeepOrder DEF vars
<1>3. CASE DeleteBook
  BY <1>1, <1>3, DeleteBookDiscards DEF Order!Next
<1>4. CASE CreateShelf
  BY <1>1, <1>4, CreateShelfOpens DEF Order!Next
<1>5. ASSUME NEW r \in Requests, Load(r) \/ Proceed(r)
      PROVE  [Order!Next \/ SecondAttempt]_(Order!vars)
  <2>1. CASE MakeDefault(r)
    BY <1>1, <2>1, MakeDefaultOpens DEF Order!Next
  <2>2. CASE CommitInsert(r)
    <3>1. req[r].kind = "create_book" /\ req[r].pc \in {"planned", "replanned"}
      BY <2>2 DEF CommitInsert, Flushing
    <3>2. CASE req[r].pc = "replanned"
      BY <2>2, <3>2 DEF SecondAttempt
    <3>3. CASE req[r].pc = "planned"
      <4>1. shelves[req[r].shelf] = "live" /\ CreateFits(req[r])
        BY <3>1, <3>3 DEF RegisterOrderInv, TargetsLive, RegisterInv, CreatedBookIsLast, CreateFits
      <4>2. \E b \in BookIds, s \in ShelfIds : Order!Register(b, s)
        BY <1>1, <2>2, <4>1, CommitInsertRegisters
      <4>3. QED
        BY <4>2 DEF Order!Next
    <3>4. QED
      BY <3>1, <3>2, <3>3
  <2>3. CASE \/ Load(r) \/ PlanAppend(r) \/ PlanAgain(r) \/ PlanReorder(r) \/ PlanDeleteShelf(r)
             \/ FlushShelf(r) \/ Refuse(r) \/ Collision(r)
    <3>1. UNCHANGED <<books, shelves, default>>
      BY <1>1, <2>3, LoadEffect, PlanAppendEffect, PlanAgainEffect, PlanReorderEffect,
         PlanDeleteShelfEffect, FlushShelfEffect, RefuseEffect, CollisionEffect
    <3>2. QED
      BY <3>1, RowsKeepOrder
  <2>4. QED
    BY <1>1, <1>5, <2>1, <2>2, <2>3, OnlyInserts DEF Proceed
<1>6. QED
  BY <1>2, <1>3, <1>4, <1>5 DEF Next

\* However many registrations overlap, while books are deleted and shelves made: each puts its
\* book at the end of its shelf and touches no other, unless its first INSERT has collided.  The
\* second attempt has lost the lock with its transaction, and may insert before another's book.
THEOREM FirstAttemptsKeepOrder ==
  ASSUME OnlyRegistering, RoomToRebalance
  PROVE  Spec => OrderButForSecondAttempts
<1>1. RegisterOrderInv /\ RegisterOrderInv' /\ [Next]_vars
        => [Order!Next \/ SecondAttempt]_(Order!vars)
  BY RegisterOrderStep
<1>2. QED
  BY <1>1, OrderInit, RegisterOrderAlways, PTL DEF Spec, OrderButForSecondAttempts

\* Nothing takes a registered ISBN away, so a second attempt collides again.
CollidedAgain ==
  \A r \in Requests : req[r].pc \in {"collided", "replanned"} => Registered(req[r].isbn)

StillRegistered(i) ==
  i # NoIsbn /\ \E b \in BookIds : books'[b].state = "live" /\ books'[b].isbn = i

LEMMA RegisteredStays ==
  ASSUME OnlyRegistering, "delete_book" \notin Kinds, Inv, BookShape, RegisterInv, [Next]_vars,
         NEW i, Registered(i)
  PROVE  StillRegistered(i)
<1> USE DEF Inv
<1>1. CASE books' = books
  BY <1>1 DEF Registered, Live, StillRegistered
<1>2. ASSUME NEW r \in Requests, CommitInsert(r) PROVE StillRegistered(i)
  <2>1. PICK b \in BookIds :
          /\ books[b].state = "none"
          /\ books' = [books EXCEPT ![b] =
               [state |-> "live", shelf |-> req[r].shelf, rank |-> req[r].ranks[NewBook],
                isbn |-> req[r].isbn]]
    BY <1>2 DEF CommitInsert
  <2>2. \A c \in BookIds : books[c].state = "live" => books'[c] = books[c]
    BY <2>1 DEF Types
  <2>3. QED
    BY <2>2 DEF Registered, Live, StillRegistered
<1>3. QED
  BY <1>1, <1>2, BooksStay, OnlyInserts DEF DeleteBook

LEMMA CollidedAgainStep ==
  ASSUME OnlyRegistering, "delete_book" \notin Kinds, Inv, BookShape, RegisterInv, CollidedAgain,
         [Next]_vars
  PROVE  CollidedAgain'
<1> USE DEF Inv
<1> SUFFICES ASSUME NEW q \in Requests, req'[q].pc \in {"collided", "replanned"}
             PROVE  StillRegistered(req'[q].isbn)
  BY DEF CollidedAgain, Registered, Live, StillRegistered
<1>1. ASSUME req'[q].isbn = req[q].isbn, Registered(req[q].isbn)
      PROVE  StillRegistered(req'[q].isbn)
  BY <1>1, RegisteredStays
<1>2. CASE req'[q] = req[q]
  BY <1>1, <1>2 DEF CollidedAgain
<1>3. CASE Collision(q)
  <2>1. req[q].pc = "planned" /\ req[q].kind = "create_book" /\ req'[q].isbn = req[q].isbn
    BY <1>3, IdleFields DEF Collision, Types, Fields, RegisterInv, PlanOK
  <2>2. InsertCollides(q)
    BY <1>3, <2>1 DEF Collision, Collides
  <2>3. QED
    BY <1>1, <2>1, <2>2, FirstInsertCollides
<1>4. CASE PlanAgain(q)
  <2>1. req[q].pc = "collided" /\ req'[q].isbn = req[q].isbn
    BY <1>4, IdleFields DEF PlanAgain, Types, Fields
  <2>2. QED
    BY <1>1, <2>1 DEF CollidedAgain
<1>5. CASE Load(q) \/ (Proceed(q) /\ ~ Collision(q) /\ ~ PlanAgain(q))
  BY <1>5, LoadEffect, MakeDefaultEffect, PlanAppendEffect, PlanReorderEffect,
     PlanDeleteShelfEffect, FlushShelfEffect, RefuseEffect, CommitEffect DEF Proceed, Effect
<1>6. QED
  BY <1>2, <1>3, <1>4, <1>5, OtherRequests DEF Next, vars, DeleteBook, CreateShelf

\* However many registrations overlap, and whichever of them collide: without deletions each
\* one does as it promises, which is to put its book at the end of its shelf.  (After a
\* deletion a second attempt finds its ISBN free again, and inserts without the shelf's lock.)
THEOREM RegistrationsKeepOrder ==
  ASSUME OnlyRegistering, "delete_book" \notin Kinds, RoomToRebalance
  PROVE  Spec => KeepsOrder
<1>1. Registering
  BY DEF Registering, OnlyRegistering
<1>2. Init => CollidedAgain
  BY IdleFields DEF Init, CollidedAgain
<1>3. RegInv /\ CollidedAgain /\ [Next]_vars => CollidedAgain'
  BY CollidedAgainStep DEF RegInv
<1>4. Spec => [](RegInv /\ CollidedAgain)
  BY <1>1, <1>2, <1>3, RegInvAlways, PTL DEF Spec
<1>5. RegInv /\ CollidedAgain => ~ SecondAttempt
  <2> SUFFICES ASSUME RegInv, CollidedAgain, NEW r \in Requests, req[r].pc = "replanned",
                      CommitInsert(r)
               PROVE  FALSE
    BY DEF SecondAttempt
  <2>1. Registered(req[r].isbn)
    BY DEF CollidedAgain
  <2>2. QED
    BY <2>1 DEF CommitInsert, Collides, InsertCollides
<1>6. OrderButForSecondAttempts <=> Order!Init /\ [][Order!Next \/ SecondAttempt]_(Order!vars)
  BY DEF OrderButForSecondAttempts
<1>7. KeepsOrder <=> Order!Init /\ [][Order!Next]_(Order!vars)
  BY DEF KeepsOrder, Order!Spec
<1>8. QED
  BY <1>4, <1>5, <1>6, <1>7, FirstAttemptsKeepOrder, PTL

=============================================================================
