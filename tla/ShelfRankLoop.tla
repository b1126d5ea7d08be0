--------------------------- MODULE ShelfRankLoop ---------------------------
(***************************************************************************)
(* ShelfRank.between as the code runs it: one step per iteration of its    *)
(* `while True`.  The loop builds `result` from the left, so the position  *)
(* `i` of the code is Len(result).                                         *)
(***************************************************************************)
EXTENDS ShelfRank

CONSTANT Keys  \* the keys the two neighbours are drawn from

ASSUME KeysAssumption == Keys \subseteq Rank

VARIABLES prev_rank, next_rank, result, upper_unbounded, pc

vars == <<prev_rank, next_rank, result, upper_unbounded, pc>>

Init ==
  /\ prev_rank \in Keys \cup {None}
  /\ next_rank \in Keys \cup {None}
  /\ result = << >>
  /\ upper_unbounded = (next_rank = None)
  /\ pc = "check"

\* if prev_rank >= next_rank: raise ValueError
Check ==
  /\ pc = "check"
  /\ pc' = IF OutOfOrder(prev_rank, next_rank) THEN "ValueError" ELSE "loop"
  /\ UNCHANGED <<prev_rank, next_rank, result, upper_unbounded>>

Low == DigitAt(prev_rank, Len(result) + 1)

\* Mutant of High: the release of a copied digit is forgotten.
BoundedHigh == IF next_rank = None THEN BASE ELSE DigitAt(next_rank, Len(result) + 1)

High == IF upper_unbounded THEN BASE ELSE DigitAt(next_rank, Len(result) + 1)

\* Mutant of Return: an off-by-one in the gap.
ReturnEarly ==
  /\ pc = "loop"
  /\ High - Low > 0
  /\ result' = Append(result, Low + (High - Low) \div 2)
  /\ pc' = "returned"
  /\ UNCHANGED <<prev_rank, next_rank, upper_unbounded>>

\* high - low > 1: a digit strictly between them ends the key.
Return ==
  /\ pc = "loop"
  /\ High - Low > 1
  /\ result' = Append(result, Low + (High - Low) \div 2)
  /\ pc' = "returned"
  /\ UNCHANGED <<prev_rank, next_rank, upper_unbounded>>

\* Mutants of Extend: the length is checked one digit late, or the digit is lost.
ExtendLate ==
  /\ pc = "loop"
  /\ High - Low <= 1
  /\ result' = Append(result, Low)
  /\ upper_unbounded' = (upper_unbounded \/ High - Low = 1)
  /\ pc' = IF Len(result') > MAX_LENGTH THEN "Exhausted" ELSE "loop"
  /\ UNCHANGED <<prev_rank, next_rank>>

ExtendNothing ==
  /\ pc = "loop"
  /\ High - Low <= 1
  /\ upper_unbounded' = (upper_unbounded \/ High - Low = 1)
  /\ UNCHANGED <<result, pc, prev_rank, next_rank>>

\* Otherwise the lower digit is copied, and the next position tried unless the
\* key would grow past MAX_LENGTH.
Extend ==
  /\ pc = "loop"
  /\ High - Low <= 1
  /\ result' = Append(result, Low)
  /\ upper_unbounded' = (upper_unbounded \/ High - Low = 1)
  /\ pc' = IF Len(result') >= MAX_LENGTH THEN "Exhausted" ELSE "loop"
  /\ UNCHANGED <<prev_rank, next_rank>>

Next == Check \/ Return \/ Extend

Spec == Init /\ [][Next]_vars

\* `between` awaits nothing: a call that has started runs on.
FairSpec == Spec /\ WF_vars(Next)

-----------------------------------------------------------------------------
\* The values the loop's variables take; `result` never exceeds MAX_LENGTH.
TypeOK ==
  /\ prev_rank \in Keys \cup {None}
  /\ next_rank \in Keys \cup {None}
  /\ result \in Seq(Digit) /\ Len(result) <= MAX_LENGTH
  /\ upper_unbounded \in BOOLEAN
  /\ pc \in {"check", "loop", "ValueError", "returned", "Exhausted"}

\* What every caller relies on (create_book, reorder_book, move_book_shelf,
\* delete_shelf): the key returned sorts strictly after the previous book and
\* strictly before the next one, and is itself a key that never ends in '0'.
StrictlyBetween ==
  pc = "returned" =>
    /\ result \in Rank
    /\ prev_rank # None => Less(prev_rank, result)
    /\ next_rank # None => Less(result, next_rank)

\* The loop returns the closed form `Between` exactly when `HasRoom`, and is
\* exhausted exactly when there is no room.
MeetsClosedForm ==
  /\ pc = "returned" => HasRoom(prev_rank, next_rank) /\ result = Between(prev_rank, next_rank)
  /\ pc = "Exhausted" => ~ HasRoom(prev_rank, next_rank)

\* ShelfRankExhaustedException is about long keys only: while both neighbours
\* are shorter than MAX_LENGTH there is always a key between them.
ExhaustedOnlyAtFullLength ==
  pc = "Exhausted" => Len(prev_rank) = MAX_LENGTH \/ Len(next_rank) = MAX_LENGTH

\* The `while True` always ends, with a key or one of the two exceptions.
Terminates == <>(pc \in {"ValueError", "returned", "Exhausted"})

-----------------------------------------------------------------------------
(***************************************************************************)
(* The inductive invariant behind the theorems of ShelfRankLoopProofs: the *)
(* digits copied so far, that none of their positions was one to stop at,  *)
(* and what upper_unbounded means in terms of the two keys.                *)
(***************************************************************************)
Copied ==
  /\ \A j \in 1 .. Len(result) : result[j] = DigitAt(prev_rank, j)
  /\ \A j \in 1 .. Len(result) : ~ StopsAt(prev_rank, next_rank, j)

AtNextPosition ==
  /\ Reaches(prev_rank, next_rank, Len(result) + 1)
  /\ upper_unbounded <=> ~ Agree(prev_rank, next_rank, Len(result) + 1)

Stopped ==
  LET k == Len(result)
  IN  /\ k >= 1
      /\ StopsAt(prev_rank, next_rank, k)
      /\ result = [i \in 1 .. k |->
                     IF i < k THEN DigitAt(prev_rank, i)
                     ELSE DigitAt(prev_rank, k) + Gap(prev_rank, next_rank, k) \div 2]

LoopInv ==
  /\ TypeOK
  /\ pc \in {"loop", "Exhausted", "returned"} => ~ OutOfOrder(prev_rank, next_rank)
  /\ pc = "check" => result = << >> /\ (upper_unbounded <=> next_rank = None)
  /\ pc = "loop" => Len(result) < MAX_LENGTH /\ Copied /\ AtNextPosition
  /\ pc = "Exhausted" => Len(result) = MAX_LENGTH /\ Copied /\ AtNextPosition
  /\ pc = "returned" => Stopped

=============================================================================
