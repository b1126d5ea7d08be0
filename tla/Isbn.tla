-------------------------------- MODULE Isbn --------------------------------
(***************************************************************************)
(* normalize_isbn, and the comparison of an ISBN that was asked for with   *)
(* the ones a source names for a book, in either form and with a mistake.  *)
(* Hyphens and blanks are taken out before; 10 stands for X.               *)
(***************************************************************************)
EXTENDS Integers, Sequences, FiniteSetsExt

CONSTANT Bodies   \* the nine digits of each book

ASSUME IsbnAssumption == \A b \in Bodies : b \in [1 .. 9 -> 0 .. 9]

VARIABLES
  foundBook,    \* the book that a source has found
  asked,   \* the book that was asked for
  printed,   \* the ISBN that the source names
  slips    \* how many of its characters are wrong

isbnVars == <<foundBook, asked, printed, slips>>

-----------------------------------------------------------------------------
Digits(s) == \A i \in DOMAIN s : s[i] \in 0 .. 9

\* Mutant of Weight10: the weights begin at 9.
Weight10Low(i) == 10 - i

Weight10(i) == 11 - i

\* validate_isbn10
ValidIsbn10(s) ==
  /\ Len(s) = 10 /\ Digits(SubSeq(s, 1, 9)) /\ s[10] \in 0 .. 10
  /\ LET weighted(i) == s[i] * Weight10(i)
     IN  (MapThenSumSet(weighted, 1 .. 9) + s[10]) % 11 = 0

\* calculate_isbn13_check_digit
CheckDigit13(raw12) ==
  LET weighted(i) == raw12[i] * (IF i % 2 = 1 THEN 1 ELSE 3)
  IN  (10 - (MapThenSumSet(weighted, 1 .. 12) % 10)) % 10

ValidIsbn13(s) ==
  Len(s) = 13 /\ Digits(s) /\ s[13] = CheckDigit13(SubSeq(s, 1, 12))

ToIsbn13(s) ==
  LET raw12 == <<9, 7, 8>> \o SubSeq(s, 1, 9)
  IN  Append(raw12, CheckDigit13(raw12))

Invalid == << >>

\* normalize_isbn
Normalize(s) ==
  IF ValidIsbn10(s) THEN ToIsbn13(s) ELSE IF ValidIsbn13(s) THEN s ELSE Invalid

\* The test by which YES24's and Google's answers are taken; what was asked is normalized.
Matches(isbn, found) == found = isbn \/ (Normalize(found) # Invalid /\ Normalize(found) = isbn)

-----------------------------------------------------------------------------
\* The two forms of a book's ISBN, by the standard and not by the code.
Isbn10(b) ==
  LET s == (1 * b[1] + 2 * b[2] + 3 * b[3] + 4 * b[4] + 5 * b[5] + 6 * b[6] + 7 * b[7]
            + 8 * b[8] + 9 * b[9]) % 11
  IN  Append(b, s)

Isbn13(b) ==
  LET odd == 9 + 8 + b[2] + b[4] + b[6] + b[8]
      even == 7 + b[1] + b[3] + b[5] + b[7] + b[9]
  IN  CHOOSE s \in {<<9, 7, 8>> \o b \o <<c>> : c \in 0 .. 9} : (odd + 3 * even + s[13]) % 10 = 0

IsbnInit ==
  /\ foundBook \in Bodies /\ asked \in Bodies
  /\ printed \in {Isbn10(foundBook), Isbn13(foundBook)}
  /\ slips = 0

\* The source, or the client, has one character wrong.
Mistake ==
  /\ slips = 0
  /\ \E i \in DOMAIN printed, c \in 0 .. 10 :
       /\ c # printed[i]
       /\ printed' = [printed EXCEPT ![i] = c]
  /\ slips' = 1
  /\ UNCHANGED <<foundBook, asked>>

IsbnSpec == IsbnInit /\ [][Mistake]_isbnVars

-----------------------------------------------------------------------------
IsbnTypeOK ==
  /\ {foundBook, asked} \subseteq Bodies
  /\ printed \in Seq(0 .. 10)
  /\ slips \in 0 .. 1

\* Either form of an ISBN is normalized to the same thirteen digits, one wrong character in
\* it, wherever it is, is noticed, and so a found book is taken only for the one asked for.
SameBookSameIsbn ==
  /\ Normalize(printed) = IF slips = 0 THEN Isbn13(foundBook) ELSE Invalid
  /\ Matches(Isbn13(asked), printed) <=> slips = 0 /\ foundBook = asked

=============================================================================
