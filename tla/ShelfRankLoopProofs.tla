------------------------ MODULE ShelfRankLoopProofs ------------------------
(***************************************************************************)
(* The loop of ShelfRank.between, for every alphabet, length limit and     *)
(* pair of neighbours: partial correctness from the invariant LoopInv, and *)
(* the measure that every step makes smaller.                              *)
(***************************************************************************)
EXTENDS ShelfRankLoop, ShelfRankProofs

LEMMA KeysAreNeighbours == Keys \cup {None} \subseteq Neighbour
BY KeysAssumption DEF Neighbour

\* Neighbours given in order never make the loop meet a next digit smaller
\* than the previous one while it is still bounded by the next key.
LEMMA InOrderDigits ==
  ASSUME NEW p \in Neighbour, NEW n \in Neighbour, ~ OutOfOrder(p, n),
         NEW k \in Nat \ {0}, Agree(p, n, k)
  PROVE  DigitAt(p, k) <= DigitAt(n, k)
<1>1. /\ DigitAt(p, k) \in 0 .. BASE - 1 /\ DigitAt(n, k) \in 0 .. BASE - 1
      /\ Len(p) \in Nat /\ Len(n) \in Nat
  BY NeighbourType DEF Digit
<1>2. CASE p = None
  <2>1. DigitAt(p, k) = 0
    BY <1>2 DEF DigitAt, None
  <2>2. QED
    BY <1>1, <2>1, RankAssumption
<1>3. CASE p # None
  <2>1. PICK i \in 1 .. Len(n) :
          /\ \A j \in 1 .. i - 1 : j <= Len(p) /\ p[j] = n[j]
          /\ i > Len(p) \/ p[i] < n[i]
    BY <1>3 DEF OutOfOrder, Less, Agree
  <2>2. CASE k < i
    BY <1>1, <2>1, <2>2, RankAssumption DEF DigitAt
  <2>3. CASE k >= i /\ i > Len(p)
    <3>1. DigitAt(p, k) = 0
      BY <1>1, <2>1, <2>3 DEF DigitAt
    <3>2. QED
      BY <1>1, <3>1, RankAssumption
  <2>4. CASE k = i /\ i <= Len(p)
    BY <1>1, <2>1, <2>4, RankAssumption DEF DigitAt
  <2>5. CASE k > i /\ i <= Len(p)
    <3>1. DigitAt(n, i) = DigitAt(p, i)
      BY <1>1, <2>1, <2>5 DEF Agree
    <3>2. p[i] = n[i] /\ n[i] \in Int /\ p[i] \in Int
      <4>1. p[i] = n[i]
        BY <1>1, <2>1, <2>5, <3>1 DEF DigitAt
      <4>2. n[i] \in 0 .. BASE - 1 /\ p[i] \in 0 .. BASE - 1
        BY <1>1, <2>1, <2>5, NeighbourType DEF Digit
      <4>3. QED
        BY <4>1, <4>2, RankAssumption
    <3>3. QED
      BY <2>1, <2>5, <3>2
  <2>6. QED
    BY <1>1, <2>1, <2>2, <2>3, <2>4, <2>5
<1>4. QED
  BY <1>2, <1>3

\* One more position: what Extend learns about the digits it copies.
LEMMA NextPosition ==
  ASSUME NEW p \in Neighbour, NEW n \in Neighbour, ~ OutOfOrder(p, n),
         NEW k \in Nat \ {0}, Reaches(p, n, k), Gap(p, n, k) <= 1
  PROVE  /\ Reaches(p, n, k + 1)
         /\ Agree(p, n, k + 1) <=> Agree(p, n, k) /\ Gap(p, n, k) # 1
<1>1. /\ DigitAt(p, k) \in 0 .. BASE - 1 /\ DigitAt(n, k) \in 0 .. BASE - 1
      /\ BASE \in Nat
  BY NeighbourType, RankAssumption DEF Digit
<1>2. CASE Agree(p, n, k)
  <2>1. Gap(p, n, k) = DigitAt(n, k) - DigitAt(p, k)
    BY <1>2 DEF Gap
  <2>2. DigitAt(p, k) <= DigitAt(n, k)
    BY <1>2, InOrderDigits
  <2>3. CASE DigitAt(n, k) = DigitAt(p, k)
    <3>1. Agree(p, n, k + 1)
      BY <1>2, <2>3 DEF Agree
    <3>2. QED
      BY <1>1, <1>2, <2>1, <2>3, <3>1 DEF Reaches
  <2>4. CASE DigitAt(n, k) - DigitAt(p, k) = 1
    <3>1. ~ Agree(p, n, k + 1)
      BY <1>1, <2>4 DEF Agree
    <3>2. Released(p, n, k)
      BY <1>2, <2>4 DEF Released, Agree
    <3>3. Reaches(p, n, k + 1)
      BY <3>2 DEF Reaches
    <3>4. QED
      BY <2>1, <2>4, <3>1, <3>3
  <2>5. QED
    BY <1>1, <2>1, <2>2, <2>3, <2>4
<1>3. CASE ~ Agree(p, n, k)
  <2>1. PICK c \in 0 .. k - 1 :
          Released(p, n, c) /\ \A j \in c + 1 .. k - 1 : DigitAt(p, j) = BASE - 1
    BY <1>3 DEF Reaches
  <2>2. DigitAt(p, k) = BASE - 1
    BY <1>1, <1>3 DEF Gap
  <2>3. \A j \in c + 1 .. k : DigitAt(p, j) = BASE - 1
    BY <2>1, <2>2
  <2>4. Reaches(p, n, k + 1)
    BY <2>1, <2>3 DEF Reaches
  <2>5. ~ Agree(p, n, k + 1)
    BY <1>3 DEF Agree
  <2>6. QED
    BY <1>3, <2>4, <2>5
<1>4. QED
  BY <1>2, <1>3

LEMMA InitInv == Init => LoopInv
<1> SUFFICES ASSUME Init PROVE LoopInv
  OBVIOUS
<1>1. TypeOK
  BY RankAssumption DEF Init, TypeOK
<1>2. QED
  BY <1>1 DEF Init, LoopInv, Stopped, Copied, AtNextPosition

LEMMA CheckInv == LoopInv /\ Check => LoopInv'
<1> SUFFICES ASSUME LoopInv, Check PROVE LoopInv'
  OBVIOUS
<1>1. TypeOK'
  BY DEF LoopInv, TypeOK, Check
<1>2. CASE OutOfOrder(prev_rank, next_rank)
  BY <1>1, <1>2 DEF Check, LoopInv
<1>3. CASE ~ OutOfOrder(prev_rank, next_rank)
  <2>1. result = << >> /\ Len(result) = 0 /\ pc' = "loop"
    BY <1>3 DEF Check, LoopInv
  <2>2. Copied'
    BY <2>1 DEF Check, Copied
  <2>3. Agree(prev_rank, next_rank, 1) <=> next_rank # None
    BY DEF Agree
  <2>4. next_rank = None => Released(prev_rank, next_rank, 0)
    BY DEF Released
  <2>5. Reaches(prev_rank, next_rank, 1)
    BY <2>3, <2>4 DEF Reaches
  <2>6. AtNextPosition'
    BY <2>1, <2>3, <2>5 DEF AtNextPosition, Check, LoopInv
  <2>7. QED
    BY <1>1, <1>3, <2>1, <2>2, <2>6, RankAssumption DEF LoopInv, Check
<1>4. QED
  BY <1>2, <1>3

\* The loop's High - Low is the gap of the closed form.
LEMMA LoopGap ==
  ASSUME LoopInv, pc = "loop"
  PROVE  /\ High - Low = Gap(prev_rank, next_rank, Len(result) + 1)
         /\ Low = DigitAt(prev_rank, Len(result) + 1) /\ Low \in Digit
         /\ Len(result) + 1 \in 1 .. MAX_LENGTH
         /\ prev_rank \in Neighbour /\ next_rank \in Neighbour
<1>1. /\ prev_rank \in Neighbour /\ next_rank \in Neighbour
      /\ Len(result) \in Nat /\ Len(result) < MAX_LENGTH
  BY KeysAreNeighbours DEF LoopInv, TypeOK
<1>2. Low = DigitAt(prev_rank, Len(result) + 1) /\ Low \in Digit
  BY <1>1, NeighbourType DEF Low
<1>3. upper_unbounded <=> ~ Agree(prev_rank, next_rank, Len(result) + 1)
  BY DEF LoopInv, AtNextPosition
<1>4. High - Low = Gap(prev_rank, next_rank, Len(result) + 1)
  BY <1>2, <1>3 DEF High, Gap
<1>5. QED
  BY <1>1, <1>2, <1>4, RankAssumption

LEMMA ReturnInv == LoopInv /\ Return => LoopInv'
<1> SUFFICES ASSUME LoopInv, Return PROVE LoopInv'
  OBVIOUS
<1> DEFINE k == Len(result) + 1
           m == Low + (High - Low) \div 2
<1>1. /\ High - Low = Gap(prev_rank, next_rank, k)
      /\ Low = DigitAt(prev_rank, k)
      /\ k \in 1 .. MAX_LENGTH
      /\ prev_rank \in Neighbour /\ next_rank \in Neighbour
  BY LoopGap DEF Return
<1>2. StopsAt(prev_rank, next_rank, k)
  BY <1>1 DEF Return, LoopInv, AtNextPosition, StopsAt
<1>3. m \in Digit
  BY <1>1, <1>2, MiddleDigit
<1>4. result \in Seq(Digit) /\ Len(result) \in Nat
  BY DEF LoopInv, TypeOK
<1> HIDE DEF m
<1>5. result' = Append(result, m)
  BY DEF Return, m
<1>6. /\ result' \in Seq(Digit) /\ Len(result') = k
      /\ result'[k] = m /\ \A j \in 1 .. k - 1 : result'[j] = result[j]
  BY <1>3, <1>4, <1>5
<1>7. \A j \in 1 .. k - 1 : result[j] = DigitAt(prev_rank, j)
  BY DEF Return, LoopInv, Copied
<1>8. m = DigitAt(prev_rank, k) + Gap(prev_rank, next_rank, k) \div 2
  BY <1>1 DEF m
<1>9. Stopped'
  <2>1. result' = [i \in 1 .. k |-> result'[i]]
    BY <1>6
  <2>2. \A i \in 1 .. k :
          result'[i] = IF i < k THEN DigitAt(prev_rank, i)
                       ELSE DigitAt(prev_rank, k) + Gap(prev_rank, next_rank, k) \div 2
    BY <1>6, <1>7, <1>8, <1>4
  <2>3. prev_rank' = prev_rank /\ next_rank' = next_rank
    BY DEF Return
  <2>4. QED
    BY <1>1, <1>2, <1>6, <2>1, <2>2, <2>3 DEF Stopped
<1>10. TypeOK'
  BY <1>1, <1>6, RankAssumption DEF TypeOK, LoopInv, Return
<1>11. QED
  BY <1>9, <1>10 DEF LoopInv, Return

LEMMA ExtendInv == LoopInv /\ Extend => LoopInv'
<1> SUFFICES ASSUME LoopInv, Extend PROVE LoopInv'
  OBVIOUS
<1> DEFINE k == Len(result) + 1
<1>1. /\ High - Low = Gap(prev_rank, next_rank, k)
      /\ Low = DigitAt(prev_rank, k) /\ Low \in Digit
      /\ k \in 1 .. MAX_LENGTH
      /\ prev_rank \in Neighbour /\ next_rank \in Neighbour
  BY LoopGap DEF Extend
<1>2. result \in Seq(Digit) /\ Len(result) \in Nat
  BY DEF LoopInv, TypeOK
<1>3. /\ result' \in Seq(Digit) /\ Len(result') = k
      /\ result'[k] = Low /\ \A j \in 1 .. k - 1 : result'[j] = result[j]
  BY <1>1, <1>2 DEF Extend
<1>4. /\ Reaches(prev_rank, next_rank, k)
      /\ upper_unbounded <=> ~ Agree(prev_rank, next_rank, k)
  BY DEF Extend, LoopInv, AtNextPosition
<1>5. Gap(prev_rank, next_rank, k) <= 1
  BY <1>1 DEF Extend
<1>6. ~ OutOfOrder(prev_rank, next_rank)
  BY DEF Extend, LoopInv
<1>7. /\ Reaches(prev_rank, next_rank, k + 1)
      /\ Agree(prev_rank, next_rank, k + 1)
           <=> Agree(prev_rank, next_rank, k) /\ Gap(prev_rank, next_rank, k) # 1
  BY <1>1, <1>4, <1>5, <1>6, NextPosition
<1>8. upper_unbounded' \in BOOLEAN
      /\ (upper_unbounded' <=> upper_unbounded \/ Gap(prev_rank, next_rank, k) = 1)
  BY <1>1 DEF Extend, LoopInv, TypeOK
<1>9. prev_rank' = prev_rank /\ next_rank' = next_rank
  BY DEF Extend
<1>10. AtNextPosition'
  BY <1>3, <1>4, <1>7, <1>8, <1>9 DEF AtNextPosition
<1>11. Copied'
  <2>1. Gap(prev_rank, next_rank, k) \in Int
    BY <1>1, NeighbourType, RankAssumption DEF Gap, Digit
  <2>2. ~ StopsAt(prev_rank, next_rank, k)
    BY <1>5, <2>1 DEF StopsAt
  <2>3. QED
    BY <1>1, <1>2, <1>3, <1>9, <2>2 DEF Extend, LoopInv, Copied
<1>12. TypeOK'
  BY <1>1, <1>3, <1>8, RankAssumption DEF TypeOK, LoopInv, Extend
<1>13. pc' = "Exhausted" => Len(result') = MAX_LENGTH
  BY <1>1, <1>3, RankAssumption DEF Extend
<1>14. pc' = "loop" => Len(result') < MAX_LENGTH
  BY <1>1, <1>3, RankAssumption DEF Extend
<1>15. pc' \in {"loop", "Exhausted"}
  BY DEF Extend
<1>16. QED
  BY <1>6, <1>9, <1>10, <1>11, <1>12, <1>13, <1>14, <1>15 DEF LoopInv

\* The invariant holds in every state of every call of `between`.
THEOREM LoopInvariant == Spec => []LoopInv
<1>1. LoopInv /\ UNCHANGED vars => LoopInv'
  BY DEF vars, LoopInv, TypeOK, Copied, AtNextPosition, Stopped
<1>2. LoopInv /\ [Next]_vars => LoopInv'
  BY <1>1, CheckInv, ReturnInv, ExtendInv DEF Next
<1>3. QED
  BY <1>2, InitInv, PTL DEF Spec

\* Type correctness; in particular no key grows past MAX_LENGTH.
THEOREM LoopTypeCorrect == Spec => []TypeOK
<1>1. LoopInv => TypeOK
  BY DEF LoopInv
<1>2. QED
  BY <1>1, LoopInvariant, PTL

\* The closed form used by every other module is what the loop computes.
THEOREM LoopMeetsClosedForm == Spec => []MeetsClosedForm
<1>1. LoopInv => MeetsClosedForm
  <2> SUFFICES ASSUME LoopInv PROVE MeetsClosedForm
    OBVIOUS
  <2>1. prev_rank \in Neighbour /\ next_rank \in Neighbour
    BY KeysAreNeighbours DEF LoopInv, TypeOK
  <2>2. ASSUME pc = "returned"
        PROVE  /\ HasRoom(prev_rank, next_rank)
               /\ result = Between(prev_rank, next_rank)
    <3>1. Len(result) \in 1 .. MAX_LENGTH
      BY <2>2 DEF LoopInv, TypeOK, Stopped
    <3>2. QED
      BY <2>1, <2>2, <3>1, BetweenAtStop DEF LoopInv, Stopped
  <2>3. ASSUME pc = "Exhausted" PROVE ~ HasRoom(prev_rank, next_rank)
    BY <2>3 DEF LoopInv, Copied, HasRoom
  <2>4. QED
    BY <2>2, <2>3 DEF MeetsClosedForm
<1>2. QED
  BY <1>1, LoopInvariant, PTL

\* The key returned sorts strictly between the two neighbours.
THEOREM LoopStrictlyBetween == Spec => []StrictlyBetween
<1>1. LoopInv /\ MeetsClosedForm => StrictlyBetween
  <2> SUFFICES ASSUME LoopInv, MeetsClosedForm, pc = "returned"
               PROVE  /\ result \in Rank
                      /\ prev_rank # None => Less(prev_rank, result)
                      /\ next_rank # None => Less(result, next_rank)
    BY DEF StrictlyBetween
  <2>1. /\ prev_rank \in Neighbour /\ next_rank \in Neighbour
        /\ next_rank # None => next_rank \in Rank
    BY KeysAreNeighbours DEF LoopInv, TypeOK, Neighbour
  <2>2. HasRoom(prev_rank, next_rank) /\ result = Between(prev_rank, next_rank)
    BY DEF MeetsClosedForm
  <2>3. QED
    BY <2>1, <2>2, BetweenShape, BetweenIsAfter, BetweenIsBefore
<1>2. QED
  BY <1>1, LoopInvariant, LoopMeetsClosedForm, PTL

\* Running out of keys takes a neighbour of full length.
THEOREM LoopExhaustion == Spec => []ExhaustedOnlyAtFullLength
<1>1. LoopInv => ExhaustedOnlyAtFullLength
  <2> SUFFICES ASSUME LoopInv, pc = "Exhausted",
                      Len(prev_rank) # MAX_LENGTH, Len(next_rank) # MAX_LENGTH
               PROVE  FALSE
    BY DEF ExhaustedOnlyAtFullLength
  <2> DEFINE p == prev_rank
             n == next_rank
  <2>1. p \in Neighbour /\ n \in Neighbour /\ ~ OutOfOrder(p, n)
    BY KeysAreNeighbours DEF LoopInv, TypeOK
  <2>2. \A r \in Neighbour : Len(r) \in 0 .. MAX_LENGTH
    BY RankType, RankAssumption DEF Neighbour, None
  <2>3. Len(p) \in Nat /\ Len(n) \in Nat /\ Len(p) < MAX_LENGTH /\ Len(n) < MAX_LENGTH
    BY <2>1, <2>2, RankAssumption
  <2>4. DigitAt(p, MAX_LENGTH) = 0 /\ DigitAt(n, MAX_LENGTH) = 0
    BY <2>3, RankAssumption DEF DigitAt
  <2>5. Reaches(p, n, MAX_LENGTH + 1)
    BY DEF LoopInv, AtNextPosition
  <2>6. CASE Agree(p, n, MAX_LENGTH + 1)
    <3>1. n \in Rank /\ n[Len(n)] # 0 /\ Len(n) >= 1
      BY <2>1, <2>6, RankType DEF Agree, Neighbour
    <3>2. \A j \in 1 .. MAX_LENGTH : DigitAt(n, j) = DigitAt(p, j)
      BY <2>6, RankAssumption DEF Agree
    <3>3. DigitAt(p, Len(n)) # 0
      BY <2>3, <3>1, <3>2, RankAssumption DEF DigitAt
    <3>4. Len(n) <= Len(p)
      BY <3>3 DEF DigitAt
    <3>5. p # None /\ Less(p, n)
      BY <2>1, <3>1, <3>4, RankType DEF OutOfOrder, None
    <3>6. PICK i \in 1 .. Len(n) : i > Len(p) \/ p[i] < n[i]
      BY <3>5 DEF Less
    <3>7. p[i] = n[i] /\ n[i] \in Int
      <4>1. i <= Len(n) /\ i <= Len(p) /\ i \in 1 .. MAX_LENGTH
        BY <2>3, <3>4, RankAssumption
      <4>2. QED
        BY <3>1, <3>2, <4>1, RankType DEF DigitAt
    <3>8. QED
      BY <2>3, <3>4, <3>6, <3>7
  <2>7. ASSUME NEW c \in 0 .. MAX_LENGTH, Released(p, n, c),
               \A j \in c + 1 .. MAX_LENGTH : DigitAt(p, j) = BASE - 1
        PROVE  FALSE
    <3>1. c = MAX_LENGTH
      BY <2>4, <2>7, RankAssumption
    <3>2. QED
      BY <2>4, <2>7, <3>1, RankAssumption DEF Released
  <2>8. QED
    BY <2>5, <2>6, <2>7, RankAssumption DEF Reaches
<1>2. QED
  BY <1>1, LoopInvariant, PTL

\* How many steps a call of between has left at most.
StepsLeft ==
  CASE pc = "check" -> MAX_LENGTH + 1
    [] pc = "loop"  -> MAX_LENGTH - Len(result)
    [] OTHER        -> 0

CountsDown == [][StepsLeft' \in Nat /\ StepsLeft' < StepsLeft]_vars

\* The `while True` of between cannot go on: every pass of it takes the call closer to its end,
\* which is at most MAX_LENGTH + 1 steps away, for every alphabet and length and whatever the
\* neighbours.  (That a call which can go on does is the fairness of Terminates.)
THEOREM LoopCountsDown == Spec => CountsDown
<1>1. LoopInv /\ LoopInv' /\ [Next]_vars => [StepsLeft' \in Nat /\ StepsLeft' < StepsLeft]_vars
  <2> SUFFICES ASSUME LoopInv, LoopInv', Next
               PROVE  StepsLeft' \in Nat /\ StepsLeft' < StepsLeft
    OBVIOUS
  <2>1. /\ MAX_LENGTH \in Nat \ {0} /\ result \in Seq(Digit) /\ Len(result) \in Nat
        /\ pc = "loop" => Len(result) < MAX_LENGTH
        /\ pc' = "loop" => Len(result') < MAX_LENGTH
    BY RankAssumption DEF LoopInv, TypeOK
  <2>2. CASE Check
    <3>1. pc = "check" /\ pc' \in {"ValueError", "loop"} /\ Len(result') = 0
      BY <2>2 DEF Check, LoopInv
    <3>2. QED
      BY <2>1, <3>1 DEF StepsLeft
  <2>3. CASE Return
    <3>1. pc = "loop" /\ pc' = "returned"
      BY <2>3 DEF Return
    <3>2. QED
      BY <2>1, <3>1 DEF StepsLeft
  <2>4. CASE Extend
    <3>1. pc = "loop" /\ pc' \in {"loop", "Exhausted"} /\ Len(result') = Len(result) + 1
      BY <2>1, <2>4 DEF Extend
    <3>2. QED
      BY <2>1, <3>1 DEF StepsLeft
  <2>5. QED
    BY <2>2, <2>3, <2>4 DEF Next
<1>2. QED
  BY <1>1, LoopInvariant, PTL DEF Spec, CountsDown

=============================================================================
