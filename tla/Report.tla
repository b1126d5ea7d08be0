------------------------------- MODULE Report -------------------------------
(***************************************************************************)
(* What a member has done, as the monthly report (get_monthly_stats) and   *)
(* the reading calendar (get_monthly_calendar) tell it.  Times are hours   *)
(* of UTC; the report's months begin at midnight of UTC, the calendar's at *)
(* midnight in Korea, nine hours before.                                   *)
(***************************************************************************)
EXTENDS Integers, Sequences, FiniteSets, FiniteSetsExt

CONSTANTS
  Titles,      \* the member's books
  GenreOf,     \* their genres
  Kinds,       \* the ten KDC genres, in order
  Activities,  \* what the member may do: [kind, created, ended, book, from, to]
  FirstDay     \* the first day of each month, and of the one after the last

NoTime == -1

ASSUME ReportAssumption ==
  /\ FirstDay \in Seq(Nat) /\ Len(FirstDay) > 1
  /\ \A m \in 1 .. Len(FirstDay) - 1 : FirstDay[m] < FirstDay[m + 1]
  /\ \A a \in Activities :
       /\ a.kind \in {"session", "record", "scrap", "registered", "completed"}
       /\ a.created \in Nat /\ a.book \in Titles /\ a.from \in Nat /\ a.to \in Nat
       /\ a.ended \in Nat \cup {NoTime}
  /\ \E n \in 0 .. 10 : DOMAIN Kinds = 1 .. n

VARIABLES
  log,     \* what the member has done and not deleted
  removed  \* the deleted books

reportVars == <<log, removed>>

ReportInit == log = {} /\ removed = {}

-----------------------------------------------------------------------------
\* create_session and the others look for a live book, create_record for none.
Act(a) ==
  /\ a \notin log
  /\ a.book \notin removed \/ a.kind = "record"
  /\ log' = log \cup {a}
  /\ UNCHANGED removed

\* delete_record and delete_scrap; a session is never deleted.
DropActivity(a) ==
  /\ a \in log /\ a.kind \in {"record", "scrap"}
  /\ log' = log \ {a}
  /\ UNCHANGED removed

\* Mutant of DropBook: its scraps stay.
DropBookAlone(b) ==
  /\ b \notin removed
  /\ removed' = removed \cup {b}
  /\ UNCHANGED log

OfAnyBook == {"session", "record"}

\* delete_book, with its scraps.  Its sessions and records stay.
DropBook(b) ==
  /\ b \notin removed
  /\ removed' = removed \cup {b}
  /\ log' = {a \in log : a.book = b => a.kind \in OfAnyBook}

ReportNext ==
  \/ \E a \in Activities : Act(a) \/ DropActivity(a)
  \/ \E b \in Titles : DropBook(b)

ReportSpec == ReportInit /\ [][ReportNext]_reportVars

-----------------------------------------------------------------------------
Months == 1 .. Len(FirstDay) - 1

\* start_dt and end_dt
InMonth(t, m) == 24 * FirstDay[m] <= t /\ t < 24 * FirstDay[m + 1]

InReport(kind, m) == {a \in log : a.kind = kind /\ InMonth(a.created, m)}

\* The end of a session, if the client has sent one: it may lie in another month.
RefTime(s) == IF s.ended # NoTime THEN s.ended ELSE s.created

PagesOf(s) == IF s.to >= s.from THEN s.to - s.from ELSE s.to

\* total_pages_read: of the sessions, or if there are none, of the books that are finished.
TotalPages(m) ==
  LET pages == MapThenSumSet(PagesOf, InReport("session", m))
      whole(a) == a.to
  IN  IF pages > 0 THEN pages ELSE MapThenSumSet(whole, InReport("completed", m))

\* time_counts: dawn, day, evening, night.  Records count only where there are no sessions.
PartOfDay(t) ==
  LET hour == t % 24
  IN  IF hour < 6 THEN "dawn" ELSE IF hour < 18 THEN "day" ELSE IF hour < 22 THEN "evening" ELSE "night"

CountedTimes(m) ==
  IF InReport("session", m) # {} THEN {<<s, RefTime(s)>> : s \in InReport("session", m)}
  ELSE {<<r, r.created>> : r \in InReport("record", m)}

TimeCounts(m) ==
  [part \in {"dawn", "day", "evening", "night"} |->
     Cardinality({c \in CountedTimes(m) : PartOfDay(c[2]) = part})]

\* active_dates
ActiveDates(m) ==
  {RefTime(s) \div 24 : s \in InReport("session", m)} \cup {r.created \div 24 : r \in InReport("record", m)}

NoStreak == [longest |-> 0, current |-> 0, prev |-> -1]

\* Mutant of NextDay: a gap does not end a streak.
NextDayKept(streak, day) ==
  LET current == streak.current + 1
  IN  [longest |-> Max({streak.longest, current}), current |-> current, prev |-> day]

\* One turn of the loop over the dates.
NextDay(streak, day) ==
  LET current == IF streak.prev # -1 /\ day - streak.prev = 1 THEN streak.current + 1 ELSE 1
  IN  [longest |-> Max({streak.longest, current}), current |-> current, prev |-> day]

\* The dates are sorted: the last turn is that of the greatest.
LongestStreak(dates) ==
  LET streak[days \in SUBSET dates] ==
        IF days = {} THEN NoStreak ELSE NextDay(streak[days \ {Max(days)}], Max(days))
  IN  streak[dates].longest

\* The books of the month, if they are still there, and what they say of the genres.
Encountered(m) ==
  {a.book : a \in InReport("completed", m) \cup InReport("session", m) \cup InReport("record", m)} \ removed

GenreCount(m, g) == Cardinality({b \in Encountered(m) : GenreOf[b] = g})

\* The first of the ten genres that has the most books; a book may be of none of them.
Dominant(m) ==
  LET best == {n \in DOMAIN Kinds : /\ GenreCount(m, Kinds[n]) > 0
                                    /\ \A o \in DOMAIN Kinds : GenreCount(m, Kinds[o]) <= GenreCount(m, Kinds[n])}
  IN  IF best = {} THEN "none" ELSE Kinds[Min(best)]

IsBiased(m) ==
  LET total == Cardinality(Encountered(m))
  IN  total >= 2 /\ \E n \in DOMAIN Kinds : 100 * GenreCount(m, Kinds[n]) >= 60 * total

DiversityScore(m) == 10 * Cardinality({n \in DOMAIN Kinds : GenreCount(m, Kinds[n]) > 0})

MonthlyReport(m) ==
  [completed_books_count |-> Cardinality(InReport("completed", m)),
   total_pages_read |-> TotalPages(m),
   time_distribution |-> TimeCounts(m),
   longest_streak_days |-> LongestStreak(ActiveDates(m)),
   dominant_genre |-> Dominant(m),
   is_biased |-> IsBiased(m),
   diversity_score |-> DiversityScore(m)]

-----------------------------------------------------------------------------
KST == 9

KSTDay(t) == (t + KST) \div 24

\* Mutant of InCalendar: the month's limits are not converted.
InCalendarUTC(t, m) == InMonth(t, m)

\* start_dt_utc and end_dt_utc
InCalendar(t, m) == 24 * FirstDay[m] - KST <= t /\ t < 24 * FirstDay[m + 1] - KST

\* The activities of a month and their dates; a completion is none of them.
Calendar(m) ==
  {[what |-> a, date |-> KSTDay(a.created)] :
     a \in {b \in log : b.kind # "completed" /\ InCalendar(b.created, m)}}

-----------------------------------------------------------------------------
ReportTypeOK ==
  /\ log \subseteq Activities
  /\ removed \subseteq Titles
  /\ \A a \in log : a.book \in removed => a.kind \in OfAnyBook
  /\ \A m \in Months : MonthlyReport(m) \in
       [completed_books_count : Nat, total_pages_read : Nat,
        time_distribution : [{"dawn", "day", "evening", "night"} -> Nat],
        longest_streak_days : Nat, dominant_genre : {"none"} \cup {Kinds[n] : n \in DOMAIN Kinds},
        is_biased : BOOLEAN, diversity_score : 0 .. 100]

\* longest_streak_days is the length of the longest run of days on which the member was
\* active, whatever gaps there are before, after and between.
StreakIsLongestRun ==
  \A m \in Months :
    LET days == ActiveDates(m)
        runs == {r \in days \X days : r[1] <= r[2] /\ (r[1] .. r[2]) \subseteq days}
    IN  LongestStreak(days) = Max({0} \cup {r[2] - r[1] + 1 : r \in runs})

\* The calendar shows a day's activities in its month: each on a date of the month asked
\* for, and each in no other month, at every hour around the two midnights.
CalendarDaysInMonth ==
  \A m \in Months :
    /\ \A e \in Calendar(m) : e.date \in FirstDay[m] .. FirstDay[m + 1] - 1
    /\ \A a \in log : a.kind # "completed" /\ KSTDay(a.created) \in FirstDay[m] .. FirstDay[m + 1] - 1
                      => \E e \in Calendar(m) : e.what = a

=============================================================================
